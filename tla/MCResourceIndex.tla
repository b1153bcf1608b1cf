-------------------------- MODULE MCResourceIndex ---------------------------
(* Small trees of resources, and SemVer's own order as the reference.      *)
EXTENDS ResourceIndex

Numeric(n) == [numeric |-> TRUE, rank |-> n]
Alpha == [numeric |-> FALSE, rank |-> 0]
Beta  == [numeric |-> FALSE, rank |-> 1]
Rc    == [numeric |-> FALSE, rank |-> 2]

Tok(parts, pre, build) == [parts |-> parts, pre |-> pre, build |-> build, spelled |-> TRUE]
Released(a, b, c) == Tok(<<a, b, c>>, << >>, 0)
Pre(a, pre) == Tok(<<a, 0, 0>>, pre, 0)

\* Lowest first: the example of semver.org, section 11, between other versions.
Ordered == [i \in 1..14 |-> Parse(
  << Released(0, 0, 3), Released(0, 2, 3), Released(0, 2, 9),
     Pre(1, <<Alpha>>), Pre(1, <<Alpha, Numeric(1)>>), Pre(1, <<Alpha, Beta>>),
     Pre(1, <<Beta>>), Pre(1, <<Beta, Numeric(2)>>), Pre(1, <<Beta, Numeric(11)>>),
     Pre(1, <<Rc, Numeric(1)>>), Released(1, 0, 0), Released(1, 2, 0),
     Pre(2, <<Alpha>>), Released(2, 0, 0) >>[i])]

Position(v) == CHOOSE i \in DOMAIN Ordered : Same(Ordered[i], v)

MCDirectories == {"first", "shared", "second"}
MCChildren == [d \in MCDirectories |->
  CASE d = "first" -> <<"a", "shared">> [] d = "shared" -> <<"b">>
    [] d = "second" -> <<"c", "shared">>]
MCKindOf == [id \in {"kit.k", "template.t", "nobody"} |->
  CASE id = "kit.k" -> "kit" [] id = "template.t" -> "template" [] id = "nobody" -> NoKind]

Manifest(kind, id, version) == [kind |-> kind, id |-> id, version |-> version]
Manifests ==
  {Manifest("kit", "kit.k", v) :
     v \in {Released(0, 2, 3), Pre(1, <<Alpha, Numeric(1)>>), Pre(1, <<Beta, Numeric(11)>>),
            Released(1, 0, 0), Tok(<<1, 0, 0>>, << >>, 1), Pre(2, <<Alpha>>),
            Released(2, 0, 0), Tok(<<1, 0>>, << >>, 0)}}
  \cup {Manifest("template", "template.t", Released(1, 0, 0)),
        Manifest("cartridge", "kit.k", Released(1, 0, 0)),
        Manifest("kit", "template.t", Released(1, 0, 0))}

MCRoots == {<<"first">>, <<"second", "first">>, <<"first", "first">>,
            <<"second", "shared">>, <<"shared", "first", "second">>}

MCInit ==
  /\ file \in [Locations -> Manifests \cup {Unreadable}]
  /\ roots \in MCRoots
  /\ present \in {MCDirectories, MCDirectories \ {"first"}}
  /\ strict \in BOOLEAN
  /\ IndexInit

MCSpec == MCInit /\ [][IndexNext]_indexVars

Written(op, token) == [op |-> op, token |-> token]
WrittenRanges ==
  {<< >>}
  \cup {<<Written(op, token)>> : op \in Op, token \in
          {Released(0, 0, 3), Released(0, 2, 3), Tok(<<1>>, << >>, 0), Tok(<<2, 0>>, << >>, 0),
           Pre(1, <<Beta>>), Tok(<<2>>, <<Alpha>>, 0)}}
  \cup {<<Written("gte", Tok(<<1>>, << >>, 0)), Written("lt", Tok(<<2>>, << >>, 0))>>,
        <<Written("gte", Tok(<<2>>, <<Alpha>>, 0)), Written("caret", Tok(<<1>>, << >>, 0))>>}

\* The reference: an operator admits what lies between two positions.
NextCore(op, c) ==
  CASE op = "tilde" -> <<c[1], c[2] + 1, 0>>
    [] op = "caret" /\ c[1] > 0 -> <<c[1] + 1, 0, 0>>
    [] op = "caret" /\ c[1] = 0 /\ c[2] > 0 -> <<0, c[2] + 1, 0>>
    [] op = "caret" /\ c[1] = 0 /\ c[2] = 0 -> <<0, 0, c[3] + 1>>

Between(op, v, bound) ==
  LET p == Position(v)  b == Position(bound)
  IN CASE op = "eq" -> p = b [] op = "lt" -> p < b [] op = "lte" -> p <= b
       [] op = "gt" -> p > b [] op = "gte" -> p >= b
       [] op \in {"caret", "tilde"} -> p >= b /\ CoreLess(v.core, NextCore(op, bound.core))

InRange(written, v) ==
  LET bounds == [i \in DOMAIN written |-> Parse(Padded(written[i].token))]
  IN written = << >> \/
       /\ \A i \in DOMAIN written : Between(written[i].op, v, bounds[i])
       /\ v.pre # << >> => \E i \in DOMAIN written :
                              bounds[i].pre # << >> /\ bounds[i].core = v.core

\* What select returns is, by SemVer's order and by what the operators are
\* documented to mean (2.8.2), the highest indexed version in the range; and
\* nothing is returned only when no indexed version is in it.
SelectsHighest ==
  status = "built" => \A w \in WrittenRanges, id \in Identities :
    LET within == {r \in records : r.id = id /\ InRange(w, r.version)}
        chosen == SelectAmong(records, id, ParseRange(w))
    IN IF within = {} THEN chosen = NoRecord
       ELSE /\ chosen \in within
            /\ \A r \in within : Position(r.version) <= Position(chosen.version)

\* The operators order every two versions as SemVer does, pre-releases included.
PrecedenceIsSemVer ==
  status = "built" => \A i, j \in DOMAIN Ordered :
    Less(Ordered[i], Ordered[j]) <=> i < j

\* version.hpp: "A pre-release version is only admitted when some clause names a
\* pre-release of the same (major, minor, patch)".
PrereleaseOnlyWhenNamed ==
  status = "built" => \A w \in WrittenRanges, r \in records :
    LET range == ParseRange(w)
    IN SatisfiedBy(range, r.version) /\ IsPrerelease(r.version) => Invites(range, r.version)
=============================================================================
