---------------------------- MODULE MCResolution ----------------------------
(* A base set of resources and requests, each varied in what the checks look at. *)
EXTENDS Acceptance

Tok(parts) == [parts |-> parts, pre |-> << >>, build |-> 0, spelled |-> TRUE]
Misspelled == [Tok(<<1, 0, 0>>) EXCEPT !.spelled = FALSE]
Bounded(op, parts) == <<[op |-> op, token |-> Tok(parts)]>>
NotARange == <<[op |-> "eq", token |-> Misspelled]>>

MCIdentities == {"template.t", "kit.k", "kit.l", "package.p", "asset.a"}
MCKindOf == [id \in MCIdentities |->
  CASE id = "template.t" -> "template" [] id \in {"kit.k", "kit.l"} -> "kit"
    [] id = "package.p" -> "package" [] id = "asset.a" -> "asset"]
MCLocations == {"t", "k1", "k2", "l", "p", "a"}
MCCandidates == <<"t", "k1", "k2", "l", "p", "a">>
MCProvided == [token \in {"copy"} |-> Parse(Tok(<<1, 0, 0>>))]
MCNames == {"project_name", "namespace", "working_directory", "generator_version",
            "template_id", "template_version", "framework_version", "kit_list",
            "author", "owner", "count"}

Plain(kind, id, parts) ==
  [kind |-> kind, id |-> id, version |-> Tok(parts), intact |-> TRUE, addressed |-> TRUE,
   capabilities |-> {}, platforms |-> {}, framework |-> Nothing, templates |-> {},
   areas |-> << >>, multi |-> {}, conflicts |-> {}, kits |-> {}, parameters |-> << >>]

Par(name, type, required, default, from) ==
  [name |-> name, type |-> type, required |-> required, default |-> default, from |-> from]

T == [Plain("template", "template.t", <<1, 0, 0>>) EXCEPT !.areas = <<"loop", "menu">>]
K1 == [Plain("kit", "kit.k", <<1, 0, 0>>) EXCEPT !.areas = <<"loop">>]
K2 == [Plain("kit", "kit.k", <<1, 2, 0>>) EXCEPT !.areas = <<"loop">>]
L == [Plain("kit", "kit.l", <<0, 2, 1>>) EXCEPT !.areas = <<"menu">>]
Base == [l \in MCLocations |->
  CASE l = "t" -> T [] l = "k1" -> K1 [] l = "k2" -> K2 [] l = "l" -> L
    [] l = "p" -> Plain("package", "package.p", <<2, 0, 0>>)
    [] l = "a" -> Plain("asset", "asset.a", <<1, 0, 0>>)]

Need(token, range) == {[token |-> token, range |-> range]}

\* What an author may get wrong, or ask for, in any resource.
Common(m) ==
  {[m EXCEPT !.intact = FALSE], [m EXCEPT !.addressed = FALSE],
   [m EXCEPT !.capabilities = Need("copy", Bounded("caret", <<1>>))],
   [m EXCEPT !.capabilities = Need("copy", Bounded("gt", <<1>>))],
   [m EXCEPT !.capabilities = Need("fly", << >>)],
   [m EXCEPT !.platforms = {"linux"}], [m EXCEPT !.platforms = {"all"}],
   [m EXCEPT !.framework = Bounded("tilde", <<0, 3>>)], [m EXCEPT !.framework = NotARange]}

Templates ==
  {[T EXCEPT !.areas = << >>], [T EXCEPT !.areas = <<"loop">>], [T EXCEPT !.kits = {"kit.l"}],
   [T EXCEPT !.multi = {"loop"}],
   [T EXCEPT !.parameters = <<Par("author", "identifier", FALSE, Absent, "owner"),
                              Par("owner", "string", FALSE, "identifier", NoName)>>],
   [T EXCEPT !.parameters = <<Par("author", "string", FALSE, Absent, "owner"),
                              Par("owner", "string", FALSE, Absent, "project_name")>>],
   [T EXCEPT !.parameters = <<Par("count", "integer", TRUE, Absent, NoName)>>],
   [T EXCEPT !.parameters = <<Par("kit_list", "java_package", FALSE, Absent, NoName),
                              Par("author", "path", FALSE, "empty", "namespace")>>]}
Kits ==
  {[K2 EXCEPT !.templates = {"template.u"}], [K2 EXCEPT !.templates = {"template.t"}],
   [K2 EXCEPT !.areas = <<"loop", "loop">>], [K2 EXCEPT !.areas = <<"loop", "menu">>],
   [K2 EXCEPT !.areas = << >>], [K2 EXCEPT !.conflicts = {"kit.l"}],
   [K2 EXCEPT !.conflicts = {"kit.k"}], [K2 EXCEPT !.version = Tok(<<1, 0, 0>>)],
   [K2 EXCEPT !.version = Tok(<<1, 2>>)]}

Variants(l) == Common(Base[l]) \cup
  CASE l = "t" -> Templates [] l = "k2" -> Kits [] OTHER -> {}
MCManifests == UNION {Variants(l) : l \in MCLocations} \cup {Base[l] : l \in MCLocations}

Broken(l) == {Unreadable, [Base[l] EXCEPT !.intact = FALSE]}
MCReplacements == [l \in MCLocations |->
  {Base[l]} \cup CASE l = "t" -> {Unreadable, [T EXCEPT !.areas = <<"loop">>]}
                   [] l = "k2" -> Broken(l) \cup {[K2 EXCEPT !.conflicts = {"kit.l"}]}
                   [] l = "l" -> {K1} [] l = "a" -> Broken(l) [] OTHER -> {}]

Unsupplied == [name \in MCNames |-> Absent]
Ref(id, range) == [id |-> id, range |-> range]
Ask == [name |-> "identifier", template |-> Ref("template.t", << >>),
        kits |-> <<Ref("kit.k", Bounded("caret", <<1>>)), Ref("kit.l", << >>)>>,
        packages |-> <<Ref("package.p", << >>)>>, assets |-> <<Ref("asset.a", << >>)>>,
        platforms |-> {"linux"}, framework |-> Tok(<<0, 3, 1>>), parameters |-> Unsupplied]

MCReferences ==
  {Ref(id, range) : id \in MCIdentities \cup {"asset.z"},
                    range \in {<< >>, NotARange, Bounded("caret", <<1>>), Bounded("eq", <<1>>)}}

MCRequests ==
  {Ask, [Ask EXCEPT !.name = "empty"], [Ask EXCEPT !.name = "text"],
   [Ask EXCEPT !.kits = <<Malformed>>], [Ask EXCEPT !.template = Nothing], [Ask EXCEPT !.framework = Tok(<<1>>)],
   [Ask EXCEPT !.framework = Nothing, !.platforms = {}],
   [Ask EXCEPT !.framework = Tok(<<0, 4, 0>>), !.packages = << >>],
   [Ask EXCEPT !.platforms = {"linux", "windows"}],
   [Ask EXCEPT !.kits = <<Ref("kit.l", NotARange)>>],
   [Ask EXCEPT !.kits = <<Ref("kit.l", Bounded("caret", <<1>>))>>],
   [Ask EXCEPT !.kits = <<Ref("kit.k", << >>), Ref("kit.k", Bounded("eq", <<1>>))>>],
   [Ask EXCEPT !.kits = << >>, !.packages = << >>],
   [Ask EXCEPT !.kits = <<Ref("template.t", << >>)>>],
   [Ask EXCEPT !.assets = <<Ref("asset.z", << >>)>>],
   [Ask EXCEPT !.parameters["author"] = "text", !.parameters["count"] = "number"]}

MCEnquiries ==
  {[ref |-> Ref("kit.k", << >>), kind |-> "kit",
    context |-> [template |-> Nothing, platforms |-> {}, framework |-> Nothing]],
   [ref |-> Malformed, kind |-> "asset",
    context |-> [template |-> Nothing, platforms |-> {}, framework |-> Nothing]]}

\* The variants are tried one and two at a time; the base, and a resource that
\* is broken and may be repaired, with edits and several requests.
Varied(l, m) == [Base EXCEPT ![l] = m]
Worlds ==
  {Base} \cup UNION {{Varied(l, m) : m \in Variants(l) \cup {Unreadable}} : l \in MCLocations}
         \cup {[Varied("t", m) EXCEPT !["k2"] = k] : m \in Templates, k \in Kits}

MCInit ==
  /\ file \in Worlds
  /\ Init
  /\ IF file \in {Base} \cup {Varied("k2", m) : m \in Broken("k2")}
       THEN requested = 0 /\ edits = 0
       ELSE requested = MaxRequests - 1 /\ edits = MaxEdits

MCSpec == MCInit /\ [][Next]_vars
=============================================================================
