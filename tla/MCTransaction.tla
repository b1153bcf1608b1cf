--------------------------- MODULE MCTransaction ---------------------------
(* Small instances of Transaction for TLC. *)
EXTENDS Transaction, TLC

CONSTANTS out, inner,   \* an output location, and one inside it
          d, f, g,      \* a directory, a file in it, a file beside it
          c1, c2        \* contents

MCTarget == {out, inner}
MCOuter  == (out :> {}) @@ (inner :> {out})
OneTarget == {out}
NoOuter  == out :> {}
MCPath   == {d, f, g}
MCUnder  == (d :> {}) @@ (f :> {d}) @@ (g :> {})

Entry(x, node) == [path |-> x, node |-> node]

\* A directory with a file, then a second file.
Nested == <<Entry(d, Dir), Entry(f, c1), Entry(g, c2)>>
\* A directory with a file.
Folder == <<Entry(d, Dir), Entry(f, c1)>>
\* A single file.
Single == <<Entry(g, c1)>>
\* A file where another contribution needs a directory: the plan builder lets
\* it through and the second write fails.
Collide == <<Entry(d, c1), Entry(f, c2)>>

\* A file in a directory, beside one that is written twice, as a kit's override
\* does it.
Override == <<Entry(g, c1), Entry(f, c2), Entry(g, c2)>>

LongPlans     == {Folder, Override}
TwoPlans      == {Nested, Single}
FilePlans     == {Single, Collide}
SinglePlan    == {Single}

Symmetric == Permutations(Process)
=============================================================================
