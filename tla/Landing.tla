------------------------------ MODULE Landing ------------------------------
(***************************************************************************)
(* What generation promises about output locations, with no staging, no    *)
(* processes and no failures.  The generator does two things: it makes     *)
(* missing directories above a location it generates at, and it makes a    *)
(* complete workspace appear there, in one step, where there was nothing   *)
(* or an empty directory.  Everything else that happens to an output       *)
(* location, every removal above all, is the user's doing.                 *)
(***************************************************************************)
CONSTANTS
    Target,      \* output locations
    Above,       \* Above[t]: the output locations t lies in
    Absent,      \* there is nothing at a location
    Empty,       \* an empty directory
    Workspaces,  \* complete workspaces
    UserTrees    \* what the user may put at a location

VARIABLE workspace  \* workspace[t]: what is at location t

Init == workspace = [t \in Target |-> Absent]

\* The locations once those of `made` are directories.
Made(made) ==
    [u \in Target |-> IF u \in made /\ workspace[u] = Absent
                      THEN Empty ELSE workspace[u]]

\* Directories are made on the way to t.
MakeDirectories(t) == \E made \in SUBSET Above[t] : workspace' = Made(made)

\* A complete workspace appears at t.
Land(t) ==
    /\ workspace[t] \in {Absent, Empty}
    /\ workspace'[t] \in Workspaces
    /\ workspace' = [workspace EXCEPT ![t] = workspace'[t]]

\* What the generator does when it generates at t.
Generate(t) == MakeDirectories(t) \/ Land(t)

\* The user makes a directory at t, empty or with files, or fills one.
UserCreate(t) ==
    /\ workspace[t] \in {Absent, Empty}
    /\ \E tree \in UserTrees : workspace' = [Made(Above[t]) EXCEPT ![t] = tree]

\* The user removes t and everything in it.
UserRemove(t) ==
    workspace' = [u \in Target |-> IF t \in Above[u] \cup {u} THEN Absent
                                   ELSE workspace[u]]

Next == \E t \in Target : Generate(t) \/ UserCreate(t) \/ UserRemove(t)

Spec == Init /\ [][Next]_workspace
=============================================================================
