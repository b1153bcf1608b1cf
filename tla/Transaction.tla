---------------------------- MODULE Transaction ----------------------------
(***************************************************************************)
(* TransactionService::apply: how a generation plan becomes a workspace.   *)
(*                                                                         *)
(* A run checks that its output location is free, builds the whole         *)
(* workspace in a staging directory beside it, writes the metadata record  *)
(* last, and lands the staging directory with one rename.  Several         *)
(* processes run apply against one filesystem, the user works in it too,   *)
(* any system call may fail and any process may be killed at any point.    *)
(*                                                                         *)
(* One action is one system call, or one call that no other actor can      *)
(* observe half done.  Two calls take several steps because others do see  *)
(* them half done: write_file (the file is open and empty before it has    *)
(* its content) and remove_all (entries go one by one).                    *)
(*                                                                         *)
(* Abstracted: contents are model values and a content's SHA-256 is the    *)
(* content itself; error codes are one outcome "failed"; fsync changes     *)
(* nothing a process can see; the walk over the ancestors of the output    *)
(* location is one step.                                                   *)
(***************************************************************************)
EXTENDS PlanSteps

CONSTANTS
    Process,      \* operating system processes that run the generator
    Target,       \* output locations
    Outer,        \* Outer[t]: the output locations that are ancestors of t
    Plans,        \* the plans a run may be given: sequences of steps
    Interference, \* what the environment may do, beyond failing and crashing
    Absent,       \* there is nothing at a location
    Truncated,    \* a file that was opened and has no content yet
    Foreign       \* a file of the user's

Marks == {None, Dir, Truncated, Foreign}

\* Departures of the environment from a quiet host:
\*   shared_target  two live runs may have the same output location
\*   nested_runs    a live run's output location may lie inside another's
\*   sweep          the user may delete a directory a live run works in
\*   stat_error     exists() may answer "no" although the path is there
\*   lost_flush     a file's content may be lost when its stream closes
Interferences ==
    {"shared_target", "nested_runs", "sweep", "stat_error", "lost_flush"}

ASSUME ContentAssumption == Content \cap Marks = {}
ASSUME MarksAssumption ==
    /\ None \notin {Dir, Truncated, Foreign}
    /\ Dir \notin {Truncated, Foreign}
    /\ Truncated # Foreign
ASSUME PlansAssumption == Plans \subseteq Seq(Steps)
ASSUME TargetAssumption == Outer \in [Target -> SUBSET Target]
ASSUME TargetOrder ==
    /\ Absent \notin Target
    /\ \A t \in Target : t \notin Outer[t] /\ \A o \in Outer[t] : Outer[o] \subseteq Outer[t]
ASSUME InterferenceAssumption == Interference \subseteq Interferences

VARIABLES
    target,   \* target[t]: what is at output location t
    staging,  \* staging[t]: what is at the staging directory beside t
    pc,       \* pc[p]: where process p is in apply()
    tgt,      \* tgt[p]: the output location of p's run
    plan,     \* plan[p]: the plan of p's run
    next,     \* next[p]: the step of the plan it executes next
    open      \* open[p]: where the file that p is writing lies now

vars == <<target, staging, pc, tgt, plan, next, open>>
run  == <<tgt, plan, next>>

-----------------------------------------------------------------------------
(* Trees and their records.                                                *)

\* The provenance table: one row per write step of the plan.
Rows(pl) ==
    [i \in FileSteps(pl) |->
        [path |-> pl[i].path, sha256 |-> HashOf(pl, pl[i].path)]]

Node == Content \cup Marks

Tree == [nodes : [Path -> Node],
         meta  : {None, Truncated} \cup {Rows(pl) : pl \in Plans}]

\* The marks are no trees and no tables.
ASSUME SortAssumption ==
    /\ Absent \notin Tree
    /\ \A pl \in Plans : Rows(pl) \notin {None, Truncated}

EmptyTree == [nodes |-> [x \in Path |-> None], meta |-> None]
UserTree  == [nodes |-> [x \in Path |-> Foreign], meta |-> None]

\* The trees once a content is in the file x of the tree at t, and once its
\* metadata record has these rows.
Written(trees, t, x, content) == [trees EXCEPT ![t].nodes[x] = content]
Recorded(trees, t, rows) == [trees EXCEPT ![t].meta = rows]

Inside(t) == {u \in Target : t \in Outer[u]}

\* The directory at t has entries.
Occupied(t) ==
    \/ target[t] # EmptyTree
    \/ \E u \in Inside(t) : target[u] # Absent \/ staging[u] # Absent

\* The output locations once those of `made` are directories.
Made(made) ==
    [o \in Target |-> IF o \in made /\ target[o] = Absent
                      THEN EmptyTree ELSE target[o]]

\* The output locations once the missing directories above t are made.
WithParents(t) == Made(Outer[t])

\* The staging directory of t once `create_directories` has run on it.
StagingRoot(t) == IF staging[t] = Absent THEN EmptyTree ELSE staging[t]

\* The staging directories once something is created at x in that of t.
Created(t, x, node) ==
    [staging EXCEPT ![t] = [StagingRoot(t) EXCEPT !.nodes = Put(@, x, node)]]

-----------------------------------------------------------------------------
(* Runs.                                                                   *)

AtWork == {"check_target", "check_nested", "check_staging", "clearing",
           "make_staging", "steps", "writing", "recording", "landing", "aborting"}

Live(p) == pc[p] # "idle"

Step(p) == plan[p][next[p]]

\* A plausible bug: the loop counter moves past two steps.
SkipAStep(p) == next[p] + 2
NextStep(p) == next[p] + 1

Init ==
    /\ target  = [t \in Target |-> Absent]
    /\ staging = [t \in Target |-> Absent]
    /\ pc      = [p \in Process |-> "idle"]
    /\ tgt     = [p \in Process |-> Absent]
    /\ plan    = [p \in Process |-> <<>>]
    /\ next    = [p \in Process |-> 1]
    /\ open    = [p \in Process |-> "closed"]

\* apply() goes on at `to`.
Goto(p, to) == pc' = [pc EXCEPT ![p] = to] /\ UNCHANGED run

\* apply() returns, with an outcome or with an error, or is killed.
Return(p) ==
    /\ pc'   = [pc EXCEPT ![p] = "idle"]
    /\ tgt'  = [tgt EXCEPT ![p] = Absent]
    /\ plan' = [plan EXCEPT ![p] = <<>>]
    /\ next' = [next EXCEPT ![p] = 1]

\* Process p may start a run at t beside the live run of q.
Compatible(q, t) ==
    /\ tgt[q] = t => "shared_target" \in Interference
    /\ (tgt[q] \in Outer[t] \/ t \in Outer[tgt[q]]) => "nested_runs" \in Interference

Start(p) ==
    /\ pc[p] = "idle"
    /\ \E t \in Target, pl \in Plans :
          /\ \A q \in Process : Live(q) => Compatible(q, t)
          /\ tgt'  = [tgt EXCEPT ![p] = t]
          /\ plan' = [plan EXCEPT ![p] = pl]
    /\ pc'   = [pc EXCEPT ![p] = "check_target"]
    /\ UNCHANGED <<target, staging, next, open>>

\* A plausible bug: what is at the output location is removed, and the run goes
\* on.
ClearTarget(p) ==
    /\ pc[p] = "check_target"
    /\ target' = [target EXCEPT ![tgt[p]] = Absent]
    /\ Goto(p, "check_nested")
    /\ UNCHANGED <<staging, open>>

\* filesystem.workspace.exists
CheckTarget(p) ==
    /\ pc[p] = "check_target"
    /\ \/ /\ target[tgt[p]] # Absent
          /\ Return(p)
       \/ /\ target[tgt[p]] = Absent \/ "stat_error" \in Interference
          /\ Goto(p, "check_nested")
    /\ UNCHANGED <<target, staging, open>>

\* A plausible bug: the walk up the tree starts above every ancestor.
NoEnclosingWorkspaces(t) == {}

\* The ancestors of t that hold a metadata record.
EnclosingWorkspaces(t) ==
    {o \in Outer[t] : target[o] # Absent /\ target[o].meta # None}

\* filesystem.workspace.nested
CheckNested(p) ==
    /\ pc[p] = "check_nested"
    /\ \/ /\ EnclosingWorkspaces(tgt[p]) # {}
          /\ Return(p)
       \/ /\ EnclosingWorkspaces(tgt[p]) = {} \/ "stat_error" \in Interference
          /\ Goto(p, "check_staging")
    /\ UNCHANGED <<target, staging, open>>

\* A plausible bug: the staging directory of an earlier run is built upon.
IgnoreLeftover(t) == FALSE
Leftover(t) == staging[t] # Absent

CheckStaging(p) ==
    /\ pc[p] = "check_staging"
    /\ \/ /\ Leftover(tgt[p])
          /\ Goto(p, "clearing")
       \/ /\ ~Leftover(tgt[p]) \/ "stat_error" \in Interference
          /\ Goto(p, "make_staging")
    /\ UNCHANGED <<target, staging, open>>

\* `create_directories(staging)`.  On failure apply() returns at once, or an
\* exception leaves it, and the ancestors it has made stay.
MakeStaging(p) ==
    /\ pc[p] = "make_staging"
    /\ \/ /\ target'  = WithParents(tgt[p])
          /\ staging' = [staging EXCEPT ![tgt[p]] = StagingRoot(tgt[p])]
          /\ Goto(p, "steps")
       \/ /\ \E made \in SUBSET Outer[tgt[p]] :
                /\ \A o \in made : Outer[o] \subseteq made
                /\ target' = Made(made)
          /\ staging' = staging
          /\ Return(p)
    /\ UNCHANGED open

\* A step that creates a directory.
MakeDirectory(p) ==
    /\ pc[p] = "steps" /\ next[p] <= Len(plan[p]) /\ Step(p).node = Dir
    /\ LET t == tgt[p]  root == StagingRoot(t)  x == Step(p).path IN
       /\ Creatable(root.nodes, x, Dir)
       /\ target'  = WithParents(t)
       /\ staging' = Created(t, x, Dir)
    /\ next' = [next EXCEPT ![p] = NextStep(p)]
    /\ UNCHANGED <<pc, tgt, plan, open>>

\* write_file, first half: the directories above the file are made and the
\* file is opened with std::ios::trunc.
OpenFile(p) ==
    /\ pc[p] = "steps" /\ next[p] <= Len(plan[p]) /\ Step(p).node # Dir
    /\ LET t == tgt[p]  root == StagingRoot(t)  x == Step(p).path IN
       /\ Creatable(root.nodes, x, Truncated)
       /\ target'  = WithParents(t)
       /\ staging' = Created(t, x, Truncated)
    /\ open' = [open EXCEPT ![p] = "staging"]
    /\ Goto(p, "writing")

\* What a closed stream leaves in its file: the check of the stream state is
\* before the close, and a small content reaches the file in the close.
Flushed(content) ==
    {content} \cup (IF "lost_flush" \in Interference THEN {Truncated} ELSE {})

\* write_file, second half: the content goes to the file that is open,
\* wherever it lies by now.
WriteFile(p) ==
    /\ pc[p] = "writing"
    /\ \E c \in Flushed(Step(p).node) :
         /\ staging' = IF open[p] = "staging"
                       THEN Written(staging, tgt[p], Step(p).path, c) ELSE staging
         /\ target'  = IF open[p] = "target"
                       THEN Written(target, tgt[p], Step(p).path, c) ELSE target
    /\ next' = [next EXCEPT ![p] = NextStep(p)]
    /\ open' = [open EXCEPT ![p] = "closed"]
    /\ pc'   = [pc EXCEPT ![p] = "steps"]
    /\ UNCHANGED <<tgt, plan>>

\* The metadata record is opened when every step is done.
OpenRecord(p) ==
    /\ pc[p] = "steps" /\ next[p] > Len(plan[p])
    /\ target'  = WithParents(tgt[p])
    /\ staging' = [staging EXCEPT ![tgt[p]] =
                     [StagingRoot(tgt[p]) EXCEPT !.meta = Truncated]]
    /\ open' = [open EXCEPT ![p] = "staging"]
    /\ Goto(p, "recording")

WriteRecord(p) ==
    /\ pc[p] = "recording"
    /\ \E rows \in Flushed(Rows(plan[p])) :
         /\ staging' = IF open[p] = "staging" THEN Recorded(staging, tgt[p], rows) ELSE staging
         /\ target'  = IF open[p] = "target" THEN Recorded(target, tgt[p], rows) ELSE target
    /\ open' = [open EXCEPT ![p] = "closed"]
    /\ Goto(p, "landing")

\* rename(2) puts a directory where there is nothing or an empty directory.
Vacant(t) == target[t] = Absent \/ ~Occupied(t)

\* A file another process has open moves with its directory.
Moved(p) ==
    /\ target'  = [target EXCEPT ![tgt[p]] = staging[tgt[p]]]
    /\ staging' = [staging EXCEPT ![tgt[p]] = Absent]
    /\ open' = [q \in Process |-> IF tgt[q] = tgt[p] /\ open[q] = "staging"
                                  THEN "target" ELSE open[q]]
    /\ Return(p)

\* The rename.
Land(p) ==
    /\ pc[p] = "landing"
    /\ staging[tgt[p]] # Absent
    /\ Vacant(tgt[p])
    /\ Moved(p)

\* A call fails, or cannot succeed: abort_with.
CallFails(p) ==
    /\ pc[p] \in {"steps", "writing", "recording", "landing"}
    /\ Goto(p, "aborting")
    /\ open' = [open EXCEPT ![p] = "closed"]
    /\ UNCHANGED <<target, staging>>

\* A call throws: std::filesystem::absolute, or is_directory(path) once
\* create_directories has failed, of a path that cannot be reached.  The
\* exception passes abort_with by, so the staging directory stays.
CallThrows(p) ==
    /\ pc[p] \in {"check_target", "steps"}
    /\ Return(p)
    /\ open' = [open EXCEPT ![p] = "closed"]
    /\ UNCHANGED <<target, staging>>

-----------------------------------------------------------------------------
(* remove_all(staging): of an interrupted run, or of a run that failed.    *)

\* A plausible bug: a failed run starts over.
RetryAfterRemoval(p) == Goto(p, "make_staging")
AfterRemoval(p) == IF pc[p] = "clearing" THEN Goto(p, "make_staging") ELSE Return(p)

\* One entry of the staging directory goes.  The file a process has open at
\* it stays open, with no name.
RemoveEntry(p) ==
    LET t == tgt[p]
        Unlinked(where, at(_)) ==
            open' = [q \in Process |->
                       IF tgt[q] = t /\ open[q] = "staging" /\ pc[q] = where /\ at(q)
                       THEN "unlinked" ELSE open[q]]
    IN
    /\ pc[p] \in {"clearing", "aborting"}
    /\ staging[t] # Absent
    /\ \/ \E x \in Path :
             /\ staging[t].nodes[x] # None
             /\ \A y \in Path : x \in Under[y] => staging[t].nodes[y] = None
             /\ staging' = [staging EXCEPT ![t].nodes[x] = None]
             /\ Unlinked("writing", LAMBDA q : Step(q).path = x)
       \/ /\ staging[t].meta # None
          /\ staging' = [staging EXCEPT ![t].meta = None]
          /\ Unlinked("recording", LAMBDA q : TRUE)
    /\ UNCHANGED <<target, pc, tgt, plan, next>>

\* The staging directory itself goes, or is gone already.
RemoveRoot(p) ==
    /\ pc[p] \in {"clearing", "aborting"}
    /\ staging[tgt[p]] \in {Absent, EmptyTree}
    /\ staging' = [staging EXCEPT ![tgt[p]] = Absent]
    /\ AfterRemoval(p)
    /\ UNCHANGED <<target, open>>

\* The removal fails: reported when clearing, ignored when aborting.  What is
\* left stays.
RemoveFails(p) ==
    /\ pc[p] \in {"clearing", "aborting"}
    /\ Return(p)
    /\ UNCHANGED <<target, staging, open>>

-----------------------------------------------------------------------------
(* The environment.                                                        *)

Crash(p) ==
    /\ Live(p)
    /\ Return(p)
    /\ open' = [open EXCEPT ![p] = "closed"]
    /\ UNCHANGED <<target, staging>>

\* The user makes a directory at t, empty or with files, or fills one.
UserCreate(t) ==
    /\ target[t] \in {Absent, EmptyTree}
    /\ \E tree \in {EmptyTree, UserTree} :
          target' = [WithParents(t) EXCEPT ![t] = tree]
    /\ UNCHANGED <<staging, pc, tgt, plan, next, open>>

\* No live run works in the locations of ts, or the user does not care.
MayDelete(ts) ==
    "sweep" \in Interference \/ \A p \in Process : Live(p) => tgt[p] \notin ts

\* The user removes the directory at t and everything in it.
UserRemove(t) ==
    LET within == Inside(t) IN
    /\ target[t] # Absent
    /\ MayDelete(within)
    /\ target'  = [u \in Target |-> IF u \in within \cup {t} THEN Absent ELSE target[u]]
    /\ staging' = [u \in Target |-> IF u \in within THEN Absent ELSE staging[u]]
    /\ open' = [q \in Process |->
                  IF \/ tgt[q] \in within /\ open[q] # "closed"
                     \/ tgt[q] = t /\ open[q] = "target"
                  THEN "unlinked" ELSE open[q]]
    /\ UNCHANGED <<pc, tgt, plan, next>>

\* The user removes the staging directory beside t.
UserSweep(t) ==
    /\ staging[t] # Absent
    /\ MayDelete({t})
    /\ staging' = [staging EXCEPT ![t] = Absent]
    /\ open' = [q \in Process |-> IF tgt[q] = t /\ open[q] = "staging"
                                  THEN "unlinked" ELSE open[q]]
    /\ UNCHANGED <<target, pc, tgt, plan, next>>

-----------------------------------------------------------------------------
\* What process p does once apply() has been called.
RunStep(p) ==
    \/ CheckTarget(p) \/ CheckNested(p) \/ CheckStaging(p) \/ MakeStaging(p)
    \/ MakeDirectory(p) \/ OpenFile(p) \/ WriteFile(p)
    \/ OpenRecord(p) \/ WriteRecord(p) \/ Land(p) \/ CallFails(p) \/ CallThrows(p)
    \/ RemoveEntry(p) \/ RemoveRoot(p) \/ RemoveFails(p)

Next ==
    \/ \E p \in Process : Start(p) \/ RunStep(p) \/ Crash(p)
    \/ \E t \in Target : UserCreate(t) \/ UserRemove(t) \/ UserSweep(t)

Spec == Init /\ [][Next]_vars

\* apply() is straight-line code on a scheduled thread: its next system call
\* is issued and returns.  Nothing is assumed of starts, crashes or the user.
FairSpec == Spec /\ \A p \in Process : WF_vars(RunStep(p))

-----------------------------------------------------------------------------
(* Properties.                                                             *)

DiskType ==
    /\ target  \in [Target -> Tree \cup {Absent}]
    /\ staging \in [Target -> Tree \cup {Absent}]

\* A live run has a location and a plan, and is at a step of it or past all.
RunType ==
    /\ pc   \in [Process -> AtWork \cup {"idle"}]
    /\ tgt  \in [Process -> Target \cup {Absent}]
    /\ plan \in [Process -> Plans \cup {<<>>}]
    /\ next \in [Process -> Nat]
    /\ open \in [Process -> {"closed", "staging", "target", "unlinked"}]
    /\ \A p \in Process : next[p] \in 1 .. Len(plan[p]) + 1
    /\ \A p \in Process : IF Live(p) THEN tgt[p] \in Target /\ plan[p] \in Plans
                                    ELSE next[p] = 1

TypeOK == DiskType /\ RunType

\* A complete workspace: all a plan says, nothing else, and its record.
Workspaces ==
    {tree \in Tree : \E pl \in Plans : /\ Built(tree.nodes, pl, Len(pl))
                                       /\ tree.meta = Rows(pl)}

IsWorkspace(t) == target[t] # Absent /\ target[t].meta # None

\* Whatever carries a metadata record is a complete workspace: nothing of it
\* is missing, half written or left over from another run
\* (transaction_service.cpp: "either the workspace exists complete and
\* user-owned, or it does not exist at all").
WorkspaceComplete == \A t \in Target : IsWorkspace(t) => target[t] \in Workspaces

\* The rows of a record whose path no other row has.
SingleRows(meta) ==
    {i \in DOMAIN meta : \A j \in DOMAIN meta : meta[j].path = meta[i].path => j = i}

\* What the record says of a file that the plan writes once is what is in the
\* file, whatever the run failed at, found or was interfered with: such a file
\* has no drift until somebody edits it (provenance table of apply(), read by
\* workspace.verify).  Of a file that a kit overrides the record holds the hash
\* of the first write, which is not what is in the file (gen_override).
RecordDescribesDisk ==
    \A t \in Target : IsWorkspace(t) =>
        LET meta == target[t].meta IN
        /\ meta # Truncated
        /\ \A i \in SingleRows(meta) : target[t].nodes[meta[i].path] = meta[i].sha256

\* No workspace lies inside another (the filesystem.workspace.nested check).
NoNestedWorkspace ==
    \A t \in Target : IsWorkspace(t) => \A o \in Outer[t] : ~IsWorkspace(o)

\* Only the user changes or removes the user's files: what the user has put at
\* an output location stays as it is until the user removes it or a directory
\* above it.  A run never writes into it, replaces it or clears it away,
\* whenever the user puts it there (apply() removes nothing but staging).
UserFilesKept ==
    [][\A t \in Target : target[t] = UserTree /\ target'[t] # UserTree
          => \E u \in {t} \cup Outer[t] : UserRemove(u)]_vars

\* Every run comes to an end: it lands, fails or is killed.
RunEnds == \A p \in Process : Live(p) ~> ~Live(p)

Lands == INSTANCE Landing
           WITH workspace <- target, Above <- Outer, Empty <- EmptyTree,
                UserTrees <- {EmptyTree, UserTree}

\* apply() implements the promise of module Landing, and each of its runs
\* keeps to its own part of it: a run changes no output location but by making
\* missing directories above its own, and by a complete workspace landing there
\* where there was nothing or an empty directory.  It never removes anything.
LandsAtOnce ==
    /\ Lands!Spec
    /\ [][\A p \in Process : RunStep(p) => [Lands!Generate(tgt[p])]_target]_vars
=============================================================================
