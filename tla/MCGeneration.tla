---------------------------- MODULE MCGeneration ----------------------------
(* Small instances of Generation for TLC. *)
EXTENDS Generation, TLC

CONSTANTS app, f,   \* the working directory, and a file in it
          d, e,     \* a directory, and a file in it
          r,        \* the metadata record
          c1,       \* a payload without parameters
          c2, c3,   \* a payload with parameters, and the text it expands to
          bad       \* a text that names an undefined parameter

MCPath  == {app, f, d, e, r}
MCUnder == (app :> {}) @@ (f :> {app}) @@ (d :> {}) @@ (e :> {d}) @@ (r :> {})
MCRank  == (r :> 0) @@ (app :> 1) @@ (f :> 2) @@ (d :> 3) @@ (e :> 4)
MCExpand == [x \in {c1, c2, c3, bad, Unreadable} |-> IF x = c2 THEN c3 ELSE x]

Entry(x, payload) == [path |-> x, payload |-> payload]

\* Ownership: none declared, the generator's with an exception, everything.
NoRules  == [generated |-> {}, user |-> {}, shared |-> {}, default |-> "unknown"]
Carved   == [generated |-> {d, e, f}, user |-> {f}, shared |-> {d}, default |-> "user"]
AllRules == [generated |-> {}, user |-> {}, shared |-> {}, default |-> "generated"]

Make(phase, processor, entries, overrides, rules) ==
    [phase |-> phase, processor |-> processor, entries |-> entries,
     overrides |-> overrides, rules |-> rules]

\* Payloads that plan, and payloads that are refused.
Sound == {{}, {Entry(f, c1)}, {Entry(e, c2)}, {Entry(d, c1)},
          {Entry(e, c1), Entry(f, c2)}}
Broken == {{Entry(Unsafe, c1)}, {Entry(f, Unreadable), Entry(e, c1)},
           {Entry(e, bad)}, {Entry(e, c1), Entry(e, c2)}}

Templates ==
    {Make("template", "substitute", es, {}, rules) :
        es \in Sound, rules \in {NoRules, Carved, AllRules}}
    \cup {Make("template", "substitute", es, {}, NoRules) : es \in Broken}
    \cup {Make("template", "copy", {Entry(e, bad)}, {}, Carved),
          Make("template", "other", {Entry(e, c1)}, {}, NoRules)}

Plain(phase) ==
    {Make(phase, "copy", {Entry(x, c3)}, over, NoRules) : x \in {e, f}, over \in {{}, {e, f}}}
Owning(phase) ==
    {Make(phase, "substitute", {Entry(e, c2), Entry(d, c2)}, {e}, Carved),
     Make(phase, "copy", {Entry(e, c2), Entry(r, c2)}, {e}, AllRules)}

Others ==
    LET All(phase) == Plain(phase) \cup Owning(phase) IN
    {<<>>} \cup {<<k>> : k \in All("kit") \cup All("package")
                              \cup {Make("kit", "other", {}, {}, NoRules)}}
          \cup {<<k, l>> : k \in All("kit"), l \in Plain("kit") \cup Plain("package")}

Sets(templates, others, workings) ==
    {[working |-> w, contributions |-> <<t>> \o o] :
        t \in templates, o \in others, w \in workings}

MCRequests == Sets(Templates, Others, {app}) \cup Sets(Templates, {<<>>}, {None, d})

\* A template whose generated file a package replaces.
OverrideRequests ==
    Sets({Make("template", "copy", {Entry(e, c1)}, {}, AllRules)},
         {<<Make("package", "copy", {Entry(e, c2)}, over, rules)>> :
             over \in {{}, {e}}, rules \in {NoRules, AllRules}}, {app})

\* A template's file where a package needs a directory.
CollideRequests ==
    Sets({Make("template", "copy", {Entry(d, c1)}, {}, NoRules)},
         {<<Make("package", "copy", {Entry(e, c2)}, {}, NoRules)>>}, {app})
=============================================================================
