----------------------------- MODULE PlanSteps -----------------------------
(***************************************************************************)
(* Generation plans and what executing them leaves in a directory.         *)
(*                                                                         *)
(* A plan is a sequence of steps.  A step creates a directory or writes a  *)
(* file at a path of the workspace; a step that writes a file carries its  *)
(* content.  The SHA-256 of a content is the content itself.               *)
(***************************************************************************)
EXTENDS Integers, Sequences

CONSTANTS
    Path,     \* paths inside a workspace
    Under,    \* Under[x]: the directories above x inside the workspace
    Content,  \* file contents
    None,     \* there is nothing at a path
    Dir       \* a directory

ASSUME PathAssumption == Path # {} /\ Under \in [Path -> SUBSET Path]
ASSUME PathOrder == \A x \in Path : x \notin Under[x]

Steps == [path : Path, node : Content \cup {Dir}]

FileSteps(pl) == {i \in 1 .. Len(pl) : pl[i].node # Dir}

\* A plausible bug: the lookup forgets to compare the path.
HashOfAnyPath(pl, x) ==
    pl[CHOOSE i \in FileSteps(pl) : \A j \in FileSteps(pl) : i <= j].node

\* The recorded hash of path x: the first pair for x in outcome.hashes, which
\* holds one pair per write step, in plan order.
HashOf(pl, x) ==
    pl[CHOOSE i \in FileSteps(pl) :
         /\ pl[i].path = x
         /\ \A j \in FileSteps(pl) : pl[j].path = x => i <= j].node

\* The entries after something is created at x, the missing directories above
\* it first.
Put(nodes, x, node) ==
    [y \in Path |-> IF y = x THEN node
                    ELSE IF y \in Under[x] /\ nodes[y] = None THEN Dir
                    ELSE nodes[y]]

\* Nothing but directories is above x.
Reachable(nodes, x) == \A y \in Under[x] : nodes[y] \in {None, Dir}

\* What is at x does not keep a step from creating this node there.
Creatable(nodes, x, node) ==
    /\ Reachable(nodes, x)
    /\ IF node = Dir THEN nodes[x] \in {None, Dir} ELSE nodes[x] # Dir

\* nodes is what the first n steps of pl leave in an empty directory: each
\* path has what the last step for it put there, and is a directory if it is
\* only above the path of a step.
Built(nodes, pl, n) ==
    \A x \in Path :
        LET at == {i \in 1 .. n : pl[i].path = x} IN
        /\ \A i \in at : (\A j \in at : j <= i) => nodes[x] = pl[i].node
        /\ at = {} => nodes[x] = IF \E i \in 1 .. n : x \in Under[pl[i].path]
                                 THEN Dir ELSE None
=============================================================================
