------------------------- MODULE TransactionProofs -------------------------
(***************************************************************************)
(* Theorems about apply(), for any processes, locations, paths and plans.  *)
(***************************************************************************)
EXTENDS Transaction, TLAPS

(***************************************************************************)
(* First inductive invariant, under every interference.  A file that is    *)
(* being written still lies where `open` says: its entry is there, and is  *)
(* not the user's.  Without it a write could not be shown to find a tree.  *)
(***************************************************************************)

\* The file p is writing is an entry of this tree.
Holds(tree, p) ==
    /\ tree # Absent
    /\ pc[p] = "writing" => tree.nodes[Step(p).path] \notin {None, Foreign}
    /\ pc[p] = "recording" => tree.meta # None

OpenOf(p) ==
    /\ open[p] # "closed" => pc[p] \in {"writing", "recording"}
    /\ open[p] = "staging" => Holds(staging[tgt[p]], p)
    /\ open[p] = "target" => Holds(target[tgt[p]], p)
    /\ pc[p] = "writing" => next[p] <= Len(plan[p]) /\ Step(p).node # Dir

OpenOK == \A p \in Process : OpenOf(p)

StagingOK ==
    \A t \in Target, x \in Path : staging[t] # Absent => staging[t].nodes[x] # Foreign

Inv1 == TypeOK /\ OpenOK /\ StagingOK

LEMMA Trees == EmptyTree \in Tree /\ UserTree \in Tree
  BY DEF EmptyTree, UserTree, Tree, Node, Marks

LEMMA MarkFacts ==
    /\ None \notin Content \cup {Dir, Truncated, Foreign}
    /\ Foreign \notin Content \cup {Dir, Truncated, None}
    /\ Dir \notin Content
    /\ Absent # EmptyTree /\ Absent # UserTree
  BY ContentAssumption, MarksAssumption, SortAssumption, Trees DEF Marks

LEMMA PutType ==
    ASSUME NEW nodes \in [Path -> Node], NEW x \in Path, NEW node \in Node
    PROVE  Put(nodes, x, node) \in [Path -> Node]
  BY DEF Put, Node, Marks

\* Creating something removes nothing and leaves no trace of the user.
LEMMA PutKeeps ==
    ASSUME NEW nodes \in [Path -> Node], NEW x \in Path,
           NEW node \in Content \cup {Dir, Truncated},
           NEW y \in Path
    PROVE  /\ Put(nodes, x, node)[y] = None => nodes[y] = None
           /\ Put(nodes, x, node)[y] = Foreign => nodes[y] = Foreign
           /\ Put(nodes, x, node)[x] = node
  BY MarkFacts DEF Put

LEMMA MadeType ==
    ASSUME DiskType, NEW made \in SUBSET Target
    PROVE  /\ Made(made) \in [Target -> Tree \cup {Absent}]
           /\ \A t \in Target : target[t] # Absent => Made(made)[t] = target[t]
           /\ \A t \in Target : Made(made)[t] \in {target[t], EmptyTree}
  BY Trees DEF Made, DiskType

LEMMA ParentsType ==
    ASSUME DiskType, NEW t \in Target
    PROVE  /\ WithParents(t) \in [Target -> Tree \cup {Absent}]
           /\ \A u \in Target : target[u] # Absent => WithParents(t)[u] = target[u]
           /\ \A u \in Target : WithParents(t)[u] \in {target[u], EmptyTree}
  <1>1. Outer[t] \in SUBSET Target
    BY TargetAssumption
  <1>2. QED
    BY <1>1, MadeType DEF WithParents

LEMMA TreeNodes ==
    ASSUME NEW tree \in Tree
    PROVE  /\ tree.nodes \in [Path -> Node]
           /\ tree.meta \in {None, Truncated} \cup {Rows(pl) : pl \in Plans}
           /\ tree # Absent
  BY SortAssumption DEF Tree

LEMMA RootType ==
    ASSUME DiskType, NEW t \in Target
    PROVE  /\ StagingRoot(t) \in Tree
           /\ staging[t] # Absent => StagingRoot(t) = staging[t]
           /\ staging[t] = Absent => StagingRoot(t) = EmptyTree
  BY Trees DEF StagingRoot, DiskType

\* The step a process is at.
LEMMA StepType ==
    ASSUME RunType, NEW p \in Process, Live(p), next[p] <= Len(plan[p])
    PROVE  /\ Step(p).path \in Path
           /\ Step(p).node \in Content \cup {Dir}
           /\ plan[p] \in Plans
           /\ Len(plan[p]) \in Nat
           /\ next[p] \in 1 .. Len(plan[p])
  <1>1. plan[p] \in Plans /\ plan[p] \in Seq(Steps)
    BY PlansAssumption DEF RunType
  <1>2. Len(plan[p]) \in Nat
    BY <1>1
  <1>3. next[p] \in 1 .. Len(plan[p]) + 1
    BY DEF RunType
  <1>4. next[p] \in 1 .. Len(plan[p])
    BY <1>2, <1>3
  <1>5. plan[p][next[p]] \in Steps
    BY <1>1, <1>4
  <1>6. QED
    BY <1>1, <1>2, <1>4, <1>5 DEF Step, Steps

LEMMA InitInv1 == Init => Inv1
  <1> SUFFICES ASSUME Init PROVE Inv1
    OBVIOUS
  <1>1. TypeOK
    BY DEF Init, TypeOK, DiskType, RunType, Live
  <1>2. OpenOK
    BY DEF Init, OpenOK, OpenOf
  <1>3. StagingOK
    BY DEF Init, StagingOK
  <1>4. QED
    BY <1>1, <1>2, <1>3 DEF Inv1

\* What an action may do to a tree that leaves every file in it in place.
Grown(old, new) ==
    old \notin {Absent, EmptyTree} =>
        /\ new # Absent
        /\ old.meta # None => new.meta # None
        /\ \A x \in Path : old.nodes[x] \notin {None, Foreign} =>
                             new.nodes[x] \notin {None, Foreign}

Grows == \A t \in Target : Grown(staging[t], staging'[t]) /\ Grown(target[t], target'[t])

SameRun(q) ==
    /\ pc'[q] = pc[q] /\ open'[q] = open[q]
    /\ tgt'[q] = tgt[q] /\ plan'[q] = plan[q] /\ next'[q] = next[q]

\* An empty directory holds no open file.
LEMMA HoldsFile ==
    ASSUME NEW q \in Process, pc[q] \in {"writing", "recording"},
           pc[q] = "writing" => Step(q).path \in Path,
           NEW tree, Holds(tree, q)
    PROVE  tree \notin {Absent, EmptyTree}
  BY DEF Holds, EmptyTree

\* A process that does not move keeps its file while trees only grow.
LEMMA OthersKeep ==
    ASSUME RunType, Grows, NEW q \in Process, OpenOf(q), SameRun(q)
    PROVE  OpenOf(q)'
  <1>1. CASE open[q] = "closed" \/ open[q] = "unlinked"
    BY <1>1 DEF OpenOf, SameRun, Step
  <1>2. CASE open[q] \in {"staging", "target"}
    <2>1. pc[q] \in {"writing", "recording"} /\ Live(q) /\ tgt[q] \in Target
      BY <1>2 DEF OpenOf, RunType, Live
    <2>2. pc[q] = "writing" => Step(q).path \in Path
      BY <2>1, StepType DEF OpenOf
    <2>3. Step(q)' = Step(q)
      BY DEF SameRun, Step
    <2>4. ASSUME NEW old, NEW new, Grown(old, new), Holds(old, q)
          PROVE  /\ new # Absent
                 /\ pc[q] = "writing" => new.nodes[Step(q).path] \notin {None, Foreign}
                 /\ pc[q] = "recording" => new.meta # None
      BY <2>1, <2>2, <2>4, HoldsFile DEF Grown, Holds
    <2>5. open[q] = "staging" => Holds(staging[tgt[q]], q)'
      BY <2>1, <2>3, <2>4 DEF Grows, OpenOf, SameRun, Holds
    <2>6. open[q] = "target" => Holds(target[tgt[q]], q)'
      BY <2>1, <2>3, <2>4 DEF Grows, OpenOf, SameRun, Holds
    <2>7. QED
      BY <1>2, <2>3, <2>5, <2>6 DEF OpenOf, SameRun
  <1>3. QED
    BY <1>1, <1>2 DEF RunType

LEMMA SameTreesGrow == UNCHANGED <<target, staging>> => Grows
  BY DEF Grows, Grown

LEMMA ParentsGrow ==
    ASSUME DiskType, NEW t \in Target, target' = WithParents(t)
    PROVE  \A u \in Target : Grown(target[u], target'[u])
  BY ParentsType DEF Grown

\* A staging directory that keeps its files, or is new, has none of the user's.
LEMMA RootNotForeign ==
    ASSUME StagingOK, NEW t \in Target, NEW x \in Path
    PROVE  StagingRoot(t).nodes[x] # Foreign
  <1>1. CASE staging[t] = Absent
    <2>1. StagingRoot(t).nodes = [y \in Path |-> None]
      BY <1>1 DEF StagingRoot, EmptyTree
    <2>2. None # Foreign
      BY MarksAssumption
    <2>3. QED
      BY <2>1, <2>2
  <1>2. CASE staging[t] # Absent
    <2>1. StagingRoot(t) = staging[t]
      BY <1>2 DEF StagingRoot
    <2>2. QED
      BY <1>2, <2>1 DEF StagingOK
  <1>3. QED
    BY <1>1, <1>2

LEMMA StagingStep ==
    ASSUME StagingOK, NEW t \in Target,
           \A u \in Target \ {t} : staging'[u] = staging[u],
           \A x \in Path : staging'[t].nodes[x] # Foreign
    PROVE  StagingOK'
  <1> SUFFICES ASSUME NEW u \in Target, NEW x \in Path, staging'[u] # Absent
               PROVE  staging'[u].nodes[x] # Foreign
    BY DEF StagingOK
  <1>1. CASE u = t
    BY <1>1
  <1>2. CASE u # t
    <2>1. staging'[u] = staging[u]
      BY <1>2
    <2>2. QED
      BY <2>1 DEF StagingOK
  <1>3. QED
    BY <1>1, <1>2

\* Creating something in a staging directory.
LEMMA PutGrows ==
    ASSUME DiskType, NEW t \in Target, NEW x \in Path,
           NEW node \in Content \cup {Dir, Truncated},
           staging' = Created(t, x, node)
    PROVE  /\ staging' \in [Target -> Tree \cup {Absent}]
           /\ staging'[t] # Absent
           /\ staging'[t].meta = StagingRoot(t).meta
           /\ staging'[t].nodes = Put(StagingRoot(t).nodes, x, node)
           /\ \A u \in Target : Grown(staging[u], staging'[u])
           /\ StagingOK => StagingOK'
  <1> DEFINE root == StagingRoot(t)
             new  == [root EXCEPT !.nodes = Put(@, x, node)]
  <1>1. root \in Tree
    BY RootType
  <1>2. /\ new.nodes = Put(root.nodes, x, node) /\ new.meta = root.meta
        /\ new \in Tree
    <2>1. Put(root.nodes, x, node) \in [Path -> Node]
      BY <1>1, PutType, TreeNodes DEF Node, Marks
    <2>2. QED
      BY <1>1, <2>1 DEF Tree
  <1>3. new # Absent /\ staging'[t] = new /\ \A u \in Target \ {t} : staging'[u] = staging[u]
    BY <1>2, TreeNodes DEF DiskType, Created
  <1>4. \A y \in Path : /\ new.nodes[y] = None => root.nodes[y] = None
                        /\ new.nodes[y] = Foreign => root.nodes[y] = Foreign
    BY <1>1, <1>2, PutKeeps, TreeNodes
  <1>5. Grown(staging[t], new)
    BY <1>2, <1>3, <1>4, RootType DEF Grown
  <1>6. \A u \in Target : Grown(staging[u], staging'[u])
    BY <1>3, <1>5 DEF Grown
  <1>7. ASSUME StagingOK PROVE StagingOK'
    <2>1. \A y \in Path : staging'[t].nodes[y] # Foreign
      BY <1>3, <1>4, <1>7, RootNotForeign
    <2>2. QED
      BY <1>3, <1>7, <2>1, StagingStep
  <1>8. staging' \in [Target -> Tree \cup {Absent}]
    BY <1>2 DEF DiskType, Created
  <1>9. QED
    BY <1>2, <1>3, <1>6, <1>7, <1>8

OpenValues == {"closed", "staging", "target", "unlinked"}

LEMMA GotoType ==
    ASSUME RunType, NEW p \in Process, NEW to \in AtWork, Live(p), Goto(p, to),
           open' \in [Process -> OpenValues]
    PROVE  /\ RunType'
           /\ pc'[p] = to /\ tgt' = tgt /\ plan' = plan /\ next' = next
           /\ \A q \in Process \ {p} : open'[q] = open[q] => SameRun(q)
  <1>1. to # "idle"
    BY DEF AtWork
  <1>2. QED
    BY <1>1 DEF RunType, Goto, run, Live, OpenValues, SameRun

LEMMA ReturnType ==
    ASSUME RunType, NEW p \in Process, Return(p), open' \in [Process -> OpenValues]
    PROVE  /\ RunType'
           /\ pc'[p] = "idle"
           /\ \A q \in Process \ {p} : open'[q] = open[q] => SameRun(q)
  <1>1. /\ pc'   = [pc EXCEPT ![p] = "idle"]
        /\ tgt'  = [tgt EXCEPT ![p] = Absent]
        /\ plan' = [plan EXCEPT ![p] = <<>>]
        /\ next' = [next EXCEPT ![p] = 1]
    BY DEF Return
  <1>2. \A q \in Process : next'[q] \in 1 .. Len(plan'[q]) + 1
    BY <1>1 DEF RunType
  <1>3. \A q \in Process : IF Live(q)' THEN tgt'[q] \in Target /\ plan'[q] \in Plans
                                        ELSE next'[q] = 1
    BY <1>1 DEF RunType, Live
  <1>4. QED
    BY <1>1, <1>2, <1>3 DEF RunType, OpenValues, SameRun

\* The next step of the plan is reached.
LEMMA AdvanceType ==
    ASSUME RunType, NEW p \in Process, Live(p), next[p] <= Len(plan[p]),
           next' = [next EXCEPT ![p] = NextStep(p)],
           pc' = [pc EXCEPT ![p] = "steps"],
           UNCHANGED <<tgt, plan>>,
           open' \in [Process -> OpenValues]
    PROVE  /\ RunType'
           /\ pc'[p] = "steps" /\ next'[p] = next[p] + 1
           /\ \A q \in Process \ {p} : open'[q] = open[q] => SameRun(q)
  <1>1. next[p] \in 1 .. Len(plan[p]) /\ Len(plan[p]) \in Nat
    BY StepType
  <1>2. next[p] + 1 \in 1 .. Len(plan[p]) + 1 /\ next[p] + 1 \in Nat
    BY <1>1
  <1>3. \A q \in Process : next'[q] \in 1 .. Len(plan'[q]) + 1
    BY <1>2 DEF RunType, NextStep
  <1>4. "steps" \in AtWork
    BY DEF AtWork
  <1>5. QED
    BY <1>2, <1>3, <1>4 DEF RunType, OpenValues, NextStep, Live, SameRun

\* Actions that leave the trees alone, and every open file but p's.
LEMMA QuietStep ==
    ASSUME Inv1, NEW p \in Process, UNCHANGED <<target, staging>>, RunType',
           \A q \in Process \ {p} : SameRun(q),
           OpenOf(p)'
    PROVE  Inv1'
  <1>1. DiskType' /\ StagingOK'
    BY DEF Inv1, TypeOK, DiskType, StagingOK
  <1>2. ASSUME NEW q \in Process PROVE OpenOf(q)'
    <2>1. Grows
      BY SameTreesGrow
    <2>2. CASE q # p
      BY <2>1, <2>2, OthersKeep DEF Inv1, TypeOK, OpenOK
    <2>3. QED
      BY <2>2
  <1>3. QED
    BY <1>1, <1>2 DEF Inv1, TypeOK, OpenOK

\* A process at a point where it has no file open.
LEMMA ClosedOpen ==
    ASSUME Inv1, NEW p \in Process, pc[p] \notin {"writing", "recording"}
    PROVE  open[p] = "closed"
  BY DEF Inv1, OpenOK, OpenOf

LEMMA ClosedAfter ==
    ASSUME NEW p \in Process, open'[p] = "closed", pc'[p] # "writing"
    PROVE  OpenOf(p)'
  BY DEF OpenOf

LEMMA StartInv1 == ASSUME Inv1, NEW p \in Process, Start(p) PROVE Inv1'
  <1>1. PICK t \in Target, pl \in Plans : /\ tgt'  = [tgt EXCEPT ![p] = t]
                                         /\ plan' = [plan EXCEPT ![p] = pl]
    BY DEF Start
  <1>2. /\ pc[p] = "idle" /\ pc' = [pc EXCEPT ![p] = "check_target"]
        /\ UNCHANGED <<target, staging, next, open>>
    BY DEF Start
  <1>3. RunType'
    <2>1. next[p] = 1 /\ next' = next
      BY <1>2 DEF Inv1, TypeOK, RunType, Live
    <2>2. Len(pl) \in Nat
      BY PlansAssumption
    <2>3. \A q \in Process : next'[q] \in 1 .. Len(plan'[q]) + 1
      BY <1>1, <2>1, <2>2 DEF Inv1, TypeOK, RunType
    <2>4. \A q \in Process : IF Live(q)' THEN tgt'[q] \in Target /\ plan'[q] \in Plans
                                          ELSE next'[q] = 1
      BY <1>1, <1>2 DEF Inv1, TypeOK, RunType, Live
    <2>5. QED
      BY <1>1, <1>2, <2>3, <2>4 DEF Inv1, TypeOK, RunType, AtWork
  <1>4. \A q \in Process \ {p} : SameRun(q)
    BY <1>1, <1>2 DEF SameRun, Inv1, TypeOK, RunType
  <1>5. OpenOf(p)'
    <2>1. open'[p] = "closed" /\ pc'[p] = "check_target"
      BY <1>2, ClosedOpen DEF Inv1, TypeOK, RunType
    <2>2. QED
      BY <2>1, ClosedAfter
  <1>6. QED
    BY <1>2, <1>3, <1>4, <1>5, QuietStep

\* CheckTarget, CheckNested, CheckStaging and RemoveFails: apply() goes on or
\* returns, and the trees stay as they are.
LEMMA MoveInv1 ==
    ASSUME Inv1, NEW p \in Process, Live(p), UNCHANGED <<target, staging>>,
           pc[p] \notin {"writing", "recording"}, open' = open,
           Return(p) \/ \E to \in AtWork \ {"writing", "recording"} : Goto(p, to)
    PROVE  Inv1'
  <1>1. open' \in [Process -> OpenValues] /\ open'[p] = "closed"
    BY ClosedOpen DEF Inv1, TypeOK, RunType, OpenValues
  <1>2. CASE Return(p)
    <2>1. RunType' /\ pc'[p] = "idle" /\ \A q \in Process \ {p} : SameRun(q)
      BY <1>1, <1>2, ReturnType DEF Inv1, TypeOK
    <2>2. QED
      BY <1>1, <2>1, ClosedAfter, QuietStep
  <1>3. ASSUME NEW to \in AtWork \ {"writing", "recording"}, Goto(p, to) PROVE Inv1'
    <2>1. RunType' /\ pc'[p] = to /\ \A q \in Process \ {p} : SameRun(q)
      BY <1>1, <1>3, GotoType DEF Inv1, TypeOK
    <2>2. QED
      BY <1>1, <2>1, ClosedAfter, QuietStep
  <1>4. QED
    BY <1>2, <1>3

LEMMA CheckInv1 ==
    ASSUME Inv1, NEW p \in Process,
           CheckTarget(p) \/ CheckNested(p) \/ CheckStaging(p) \/ RemoveFails(p)
    PROVE  Inv1'
  <1>1. /\ pc[p] \in {"check_target", "check_nested", "check_staging", "clearing", "aborting"}
        /\ UNCHANGED <<target, staging, open>>
        /\ \/ Return(p)
           \/ \E to \in {"check_nested", "check_staging", "clearing", "make_staging"} : Goto(p, to)
    BY DEF CheckTarget, CheckNested, CheckStaging, RemoveFails
  <1>2. {"check_nested", "check_staging", "clearing", "make_staging"}
          \subseteq AtWork \ {"writing", "recording"}
    BY DEF AtWork
  <1>3. QED
    BY <1>1, <1>2, MoveInv1 DEF Live

LEMMA CallFailsInv1 == ASSUME Inv1, NEW p \in Process, CallFails(p) PROVE Inv1'
  <1>1. /\ Live(p) /\ Goto(p, "aborting") /\ UNCHANGED <<target, staging>>
        /\ open' = [open EXCEPT ![p] = "closed"]
    BY DEF CallFails, Live
  <1>2. open' \in [Process -> OpenValues] /\ open'[p] = "closed"
        /\ \A q \in Process \ {p} : open'[q] = open[q]
    BY <1>1 DEF Inv1, TypeOK, RunType, OpenValues
  <1>3. RunType' /\ pc'[p] = "aborting" /\ \A q \in Process \ {p} : SameRun(q)
    BY <1>1, <1>2, GotoType DEF Inv1, TypeOK, AtWork
  <1>4. QED
    BY <1>1, <1>2, <1>3, ClosedAfter, QuietStep

LEMMA CrashInv1 == ASSUME Inv1, NEW p \in Process, Crash(p) PROVE Inv1'
  <1>1. /\ Return(p) /\ UNCHANGED <<target, staging>>
        /\ open' = [open EXCEPT ![p] = "closed"]
    BY DEF Crash
  <1>2. open' \in [Process -> OpenValues] /\ open'[p] = "closed"
        /\ \A q \in Process \ {p} : open'[q] = open[q]
    BY <1>1 DEF Inv1, TypeOK, RunType, OpenValues
  <1>3. RunType' /\ pc'[p] = "idle" /\ \A q \in Process \ {p} : SameRun(q)
    BY <1>1, <1>2, ReturnType DEF Inv1, TypeOK
  <1>4. QED
    BY <1>1, <1>2, <1>3, ClosedAfter, QuietStep

\* A call that throws ends the run where it is, as a kill does.
LEMMA ThrowIsCrash == ASSUME NEW p \in Process, CallThrows(p) PROVE Crash(p)
  BY DEF CallThrows, Crash, Live

-----------------------------------------------------------------------------
\* Actions that only add to the trees.
LEMMA GrowStep ==
    ASSUME Inv1, NEW p \in Process, DiskType', StagingOK', Grows, RunType',
           \A q \in Process \ {p} : SameRun(q),
           OpenOf(p)'
    PROVE  Inv1'
  <1>1. ASSUME NEW q \in Process PROVE OpenOf(q)'
    <2>1. CASE q # p
      BY <2>1, OthersKeep DEF Inv1, TypeOK, OpenOK
    <2>2. QED
      BY <2>1
  <1>2. QED
    BY <1>1 DEF Inv1, TypeOK, OpenOK

\* The staging directory of t is made, or is there already.
LEMMA RootGrows ==
    ASSUME DiskType, NEW t \in Target,
           staging' = [staging EXCEPT ![t] = StagingRoot(t)]
    PROVE  /\ staging' \in [Target -> Tree \cup {Absent}]
           /\ \A u \in Target : Grown(staging[u], staging'[u])
           /\ StagingOK => StagingOK'
  <1>1. staging'[t] = StagingRoot(t) /\ \A u \in Target \ {t} : staging'[u] = staging[u]
    BY DEF DiskType
  <1>2. \A u \in Target : Grown(staging[u], staging'[u])
    BY <1>1, RootType DEF Grown
  <1>3. ASSUME StagingOK PROVE StagingOK'
    <2>1. \A x \in Path : StagingRoot(t).nodes[x] # Foreign
      BY <1>3, RootType, MarkFacts DEF StagingOK, EmptyTree
    <2>2. QED
      BY <1>1, <1>3, <2>1 DEF StagingOK
  <1>4. QED
    BY <1>2, <1>3, RootType DEF DiskType

LEMMA MakeStagingInv1 == ASSUME Inv1, NEW p \in Process, MakeStaging(p) PROVE Inv1'
  <1>1. /\ pc[p] = "make_staging" /\ Live(p) /\ open' = open
        /\ tgt[p] \in Target /\ Outer[tgt[p]] \in SUBSET Target
    BY TargetAssumption DEF MakeStaging, Live, Inv1, TypeOK, RunType
  <1>2. open' \in [Process -> OpenValues] /\ open'[p] = "closed"
    BY <1>1, ClosedOpen DEF Inv1, TypeOK, RunType, OpenValues
  <1>3. CASE /\ target'  = WithParents(tgt[p])
             /\ staging' = [staging EXCEPT ![tgt[p]] = StagingRoot(tgt[p])]
             /\ Goto(p, "steps")
    <2>1. DiskType' /\ StagingOK' /\ Grows
      BY <1>1, <1>3, RootGrows, ParentsType, ParentsGrow DEF Inv1, TypeOK, DiskType, Grows
    <2>2. RunType' /\ pc'[p] = "steps" /\ \A q \in Process \ {p} : SameRun(q)
      BY <1>1, <1>2, <1>3, GotoType DEF Inv1, TypeOK, AtWork
    <2>3. QED
      BY <1>2, <2>1, <2>2, ClosedAfter, GrowStep
  <1>4. ASSUME NEW made \in SUBSET Outer[tgt[p]], target' = Made(made),
               staging' = staging, Return(p)
        PROVE  Inv1'
    <2>1. made \in SUBSET Target
      BY <1>1
    <2>2. DiskType' /\ StagingOK' /\ Grows
      BY <2>1, <1>4, MadeType DEF Inv1, TypeOK, DiskType, StagingOK, Grows, Grown
    <2>3. RunType' /\ pc'[p] = "idle" /\ \A q \in Process \ {p} : SameRun(q)
      BY <1>1, <1>2, <1>4, ReturnType DEF Inv1, TypeOK
    <2>4. QED
      BY <1>2, <2>2, <2>3, ClosedAfter, GrowStep
  <1>5. QED
    BY <1>3, <1>4 DEF MakeStaging

\* What a step of the plan does to the trees: it creates `node` at its path.
LEMMA CreateAtStep ==
    ASSUME Inv1, NEW p \in Process, pc[p] = "steps", next[p] <= Len(plan[p]),
           NEW node \in Content \cup {Dir, Truncated},
           target' = WithParents(tgt[p]),
           staging' = Created(tgt[p], Step(p).path, node)
    PROVE  /\ Live(p) /\ tgt[p] \in Target /\ Step(p).path \in Path
           /\ DiskType' /\ StagingOK' /\ Grows
           /\ staging'[tgt[p]] # Absent
           /\ staging'[tgt[p]].meta = StagingRoot(tgt[p]).meta
           /\ staging'[tgt[p]].nodes = Put(StagingRoot(tgt[p]).nodes, Step(p).path, node)
           /\ staging'[tgt[p]].nodes[Step(p).path] = node
  <1>1. Live(p) /\ tgt[p] \in Target /\ Step(p).path \in Path
    BY StepType DEF Live, Inv1, TypeOK, RunType
  <1>2. DiskType /\ StagingOK
    BY DEF Inv1, TypeOK
  <1>3. /\ staging' \in [Target -> Tree \cup {Absent}]
        /\ staging'[tgt[p]] # Absent
        /\ staging'[tgt[p]].meta = StagingRoot(tgt[p]).meta
        /\ staging'[tgt[p]].nodes = Put(StagingRoot(tgt[p]).nodes, Step(p).path, node)
        /\ \A u \in Target : Grown(staging[u], staging'[u])
        /\ StagingOK'
    <2> DEFINE t == tgt[p]
               x == Step(p).path
    <2>1. staging' = Created(t, x, node)
      OBVIOUS
    <2>2. t \in Target /\ x \in Path
      BY <1>1
    <2> HIDE DEF t, x
    <2>3. /\ staging' \in [Target -> Tree \cup {Absent}]
          /\ staging'[t] # Absent
          /\ staging'[t].meta = StagingRoot(t).meta
          /\ staging'[t].nodes = Put(StagingRoot(t).nodes, x, node)
          /\ \A u \in Target : Grown(staging[u], staging'[u])
          /\ StagingOK'
      BY <1>2, <2>1, <2>2, PutGrows
    <2>4. QED
      BY <2>3 DEF t, x
  <1>4. /\ target' \in [Target -> Tree \cup {Absent}]
        /\ \A u \in Target : Grown(target[u], target'[u])
    BY <1>1, <1>2, ParentsType, ParentsGrow
  <1>5. Put(StagingRoot(tgt[p]).nodes, Step(p).path, node)[Step(p).path] = node
    BY <1>1 DEF Put
  <1>6. QED
    BY <1>1, <1>3, <1>4, <1>5 DEF DiskType, Grows

LEMMA MakeDirectoryInv1 == ASSUME Inv1, NEW p \in Process, MakeDirectory(p) PROVE Inv1'
  <1>1. /\ pc[p] = "steps" /\ next[p] <= Len(plan[p])
        /\ target' = WithParents(tgt[p])
        /\ staging' = Created(tgt[p], Step(p).path, Dir)
        /\ next' = [next EXCEPT ![p] = NextStep(p)]
        /\ pc' = [pc EXCEPT ![p] = "steps"]
        /\ UNCHANGED <<tgt, plan, open>>
    BY DEF MakeDirectory, Inv1, TypeOK, RunType
  <1>2. Live(p) /\ DiskType' /\ StagingOK' /\ Grows
    BY <1>1, CreateAtStep
  <1>3. open' \in [Process -> OpenValues] /\ open'[p] = "closed"
    BY <1>1, ClosedOpen DEF Inv1, TypeOK, RunType, OpenValues
  <1>4. RunType' /\ pc'[p] = "steps" /\ \A q \in Process \ {p} : SameRun(q)
    BY <1>1, <1>2, <1>3, AdvanceType DEF Inv1, TypeOK
  <1>5. QED
    BY <1>2, <1>3, <1>4, ClosedAfter, GrowStep

LEMMA OpenFileInv1 == ASSUME Inv1, NEW p \in Process, OpenFile(p) PROVE Inv1'
  <1>1. /\ pc[p] = "steps" /\ next[p] <= Len(plan[p]) /\ Step(p).node # Dir
        /\ target' = WithParents(tgt[p])
        /\ staging' = Created(tgt[p], Step(p).path, Truncated)
        /\ open' = [open EXCEPT ![p] = "staging"]
        /\ Goto(p, "writing")
    BY DEF OpenFile
  <1>2. /\ Live(p) /\ DiskType' /\ StagingOK' /\ Grows
        /\ staging'[tgt[p]] # Absent
        /\ staging'[tgt[p]].nodes[Step(p).path] = Truncated
    BY <1>1, CreateAtStep
  <1>3. /\ open' \in [Process -> OpenValues] /\ open'[p] = "staging"
        /\ \A q \in Process \ {p} : open'[q] = open[q]
    BY <1>1 DEF Inv1, TypeOK, RunType, OpenValues
  <1>4. /\ RunType' /\ pc'[p] = "writing" /\ tgt' = tgt /\ plan' = plan /\ next' = next
        /\ \A q \in Process \ {p} : SameRun(q)
    BY <1>1, <1>2, <1>3, GotoType DEF Inv1, TypeOK, AtWork
  <1>5. Step(p)' = Step(p)
    BY <1>4 DEF Step
  <1>6. OpenOf(p)'
    BY <1>1, <1>2, <1>3, <1>4, <1>5, MarksAssumption DEF OpenOf, Holds
  <1>7. QED
    BY <1>2, <1>4, <1>6, GrowStep

-----------------------------------------------------------------------------
\* Content goes to a file that is there.
LEMMA WriteTree ==
    ASSUME NEW trees \in [Target -> Tree \cup {Absent}], NEW t \in Target,
           trees[t] # Absent, NEW x \in Path, NEW c \in Content \cup {Truncated}
    PROVE  /\ Written(trees, t, x, c) \in [Target -> Tree \cup {Absent}]
           /\ \A u \in Target : Grown(trees[u], Written(trees, t, x, c)[u])
           /\ Written(trees, t, x, c)[t].nodes = [trees[t].nodes EXCEPT ![x] = c]
           /\ Written(trees, t, x, c)[t].meta = trees[t].meta
           /\ \A u \in Target \ {t} : Written(trees, t, x, c)[u] = trees[u]
           /\ \A u \in Target : Written(trees, t, x, c)[u] # Absent => trees[u] # Absent
           /\ Written(trees, t, x, c)[t] \in Tree
  <1> DEFINE new == Written(trees, t, x, c)
             old   == trees[t]
             after == [old EXCEPT !.nodes = [old.nodes EXCEPT ![x] = c]]
  <1>1. old \in Tree
    OBVIOUS
  <1>2. old.nodes \in [Path -> Node] /\ [old.nodes EXCEPT ![x] = c] \in [Path -> Node]
    BY <1>1, TreeNodes DEF Node, Marks
  <1>3. /\ after \in Tree /\ after.meta = old.meta
        /\ after.nodes = [old.nodes EXCEPT ![x] = c]
    BY <1>1, <1>2 DEF Tree
  <1>4. new = [trees EXCEPT ![t] = after]
    BY DEF Written
  <1>5. new[t] = after /\ \A u \in Target \ {t} : new[u] = trees[u]
    BY <1>4
  <1>6. c \notin {None, Foreign} /\ after # Absent
    BY <1>3, MarkFacts, MarksAssumption, SortAssumption
  <1>7. Grown(old, after)
    BY <1>2, <1>3, <1>6 DEF Grown
  <1> HIDE DEF after, old, new
  <1>8. \A u \in Target : Grown(trees[u], new[u])
    BY <1>5, <1>7 DEF Grown, old
  <1>9. new \in [Target -> Tree \cup {Absent}]
    BY <1>3, <1>4
  <1>10. QED
    BY <1>1, <1>3, <1>5, <1>8, <1>9 DEF old, new

\* The trees after WriteFile.
LEMMA WriteFileTrees ==
    ASSUME Inv1, NEW p \in Process, pc[p] = "writing",
           NEW c \in Content \cup {Truncated},
           staging' = IF open[p] = "staging"
                      THEN Written(staging, tgt[p], Step(p).path, c) ELSE staging,
           target' = IF open[p] = "target"
                     THEN Written(target, tgt[p], Step(p).path, c) ELSE target
    PROVE  DiskType' /\ StagingOK' /\ Grows
  <1>1. /\ Live(p) /\ tgt[p] \in Target /\ Step(p).path \in Path
        /\ DiskType /\ StagingOK
    BY StepType DEF Live, Inv1, TypeOK, RunType, OpenOK, OpenOf
  <1> DEFINE t == tgt[p]
             x == Step(p).path
  <1>2. open[p] = "staging" => staging[t] # Absent
    BY DEF Inv1, OpenOK, OpenOf, Holds
  <1>3. open[p] = "target" => target[t] # Absent
    BY DEF Inv1, OpenOK, OpenOf, Holds
  <1>4. t \in Target /\ x \in Path
    BY <1>1
  <1>5. staging' = IF open[p] = "staging" THEN Written(staging, t, x, c) ELSE staging
    OBVIOUS
  <1>6. target' = IF open[p] = "target" THEN Written(target, t, x, c) ELSE target
    OBVIOUS
  <1> HIDE DEF t, x
  <1>7. /\ staging' \in [Target -> Tree \cup {Absent}]
        /\ \A u \in Target : Grown(staging[u], staging'[u])
    <2>1. CASE open[p] = "staging"
      <3>1. staging \in [Target -> Tree \cup {Absent}] /\ staging[t] # Absent
        BY <1>1, <1>2, <2>1 DEF DiskType
      <3>2. staging' = Written(staging, t, x, c)
        BY <1>5, <2>1
      <3>3. /\ Written(staging, t, x, c) \in [Target -> Tree \cup {Absent}]
            /\ \A u \in Target : Grown(staging[u], Written(staging, t, x, c)[u])
        BY <1>4, <3>1, WriteTree
      <3>4. QED
        BY <3>2, <3>3
    <2>2. CASE open[p] # "staging"
      BY <1>1, <1>5, <2>2 DEF DiskType, Grown
    <2>3. QED
      BY <2>1, <2>2
  <1>8. StagingOK'
    <2>1. CASE open[p] = "staging"
      <3>1. /\ staging'[t].nodes = [staging[t].nodes EXCEPT ![x] = c]
            /\ \A u \in Target \ {t} : staging'[u] = staging[u]
            /\ staging[t] \in Tree
        BY <1>1, <1>2, <1>4, <1>5, <2>1, WriteTree DEF DiskType
      <3>2. staging[t].nodes \in [Path -> Node]
        BY <3>1, TreeNodes
      <3>3. c # Foreign
        BY MarkFacts, MarksAssumption
      <3>4. QED
        BY <1>1, <1>2, <1>4, <2>1, <3>1, <3>2, <3>3 DEF StagingOK
    <2>2. CASE open[p] # "staging"
      BY <1>1, <1>5, <2>2 DEF StagingOK
    <2>3. QED
      BY <2>1, <2>2
  <1>9. /\ target' \in [Target -> Tree \cup {Absent}]
        /\ \A u \in Target : Grown(target[u], target'[u])
    <2>1. CASE open[p] = "target"
      <3>1. target \in [Target -> Tree \cup {Absent}] /\ target[t] # Absent
        BY <1>1, <1>3, <2>1 DEF DiskType
      <3>2. target' = Written(target, t, x, c)
        BY <1>6, <2>1
      <3>3. /\ Written(target, t, x, c) \in [Target -> Tree \cup {Absent}]
            /\ \A u \in Target : Grown(target[u], Written(target, t, x, c)[u])
        BY <1>4, <3>1, WriteTree
      <3>4. QED
        BY <3>2, <3>3
    <2>2. CASE open[p] # "target"
      BY <1>1, <1>6, <2>2 DEF DiskType, Grown
    <2>3. QED
      BY <2>1, <2>2
  <1>10. QED
    BY <1>7, <1>8, <1>9 DEF DiskType, Grows

LEMMA WriteFileInv1 == ASSUME Inv1, NEW p \in Process, WriteFile(p) PROVE Inv1'
  <1>1. /\ pc[p] = "writing"
        /\ next' = [next EXCEPT ![p] = NextStep(p)]
        /\ open' = [open EXCEPT ![p] = "closed"]
        /\ pc'   = [pc EXCEPT ![p] = "steps"]
        /\ UNCHANGED <<tgt, plan>>
    BY DEF WriteFile
  <1>2. /\ Live(p) /\ next[p] <= Len(plan[p])
        /\ Step(p).node \in Content
    BY <1>1, StepType DEF Live, Inv1, TypeOK, OpenOK, OpenOf
  <1>3. PICK c \in Flushed(Step(p).node) :
          /\ staging' = IF open[p] = "staging"
                        THEN Written(staging, tgt[p], Step(p).path, c) ELSE staging
          /\ target' = IF open[p] = "target"
                       THEN Written(target, tgt[p], Step(p).path, c) ELSE target
    BY DEF WriteFile
  <1>4. c \in Content \cup {Truncated}
    BY <1>2 DEF Flushed
  <1>5. DiskType' /\ StagingOK' /\ Grows
    BY <1>1, <1>3, <1>4, WriteFileTrees
  <1>6. /\ open' \in [Process -> OpenValues] /\ open'[p] = "closed"
        /\ \A q \in Process \ {p} : open'[q] = open[q]
    BY <1>1 DEF Inv1, TypeOK, RunType, OpenValues
  <1>7. RunType' /\ pc'[p] = "steps" /\ \A q \in Process \ {p} : SameRun(q)
    BY <1>1, <1>2, <1>6, AdvanceType DEF Inv1, TypeOK
  <1>8. QED
    BY <1>5, <1>6, <1>7, ClosedAfter, GrowStep

\* The record of the tree at t is opened or written.
WithRecord(trees, t, root, m) == [trees EXCEPT ![t] = [root EXCEPT !.meta = m]]

LEMMA RecordTree ==
    ASSUME NEW trees \in [Target -> Tree \cup {Absent}], NEW t \in Target,
           NEW root \in Tree, trees[t] \in {Absent, root},
           NEW m \in {Truncated} \cup {Rows(pl) : pl \in Plans}
    PROVE  /\ WithRecord(trees, t, root, m) \in [Target -> Tree \cup {Absent}]
           /\ \A u \in Target : Grown(trees[u], WithRecord(trees, t, root, m)[u])
           /\ WithRecord(trees, t, root, m)[t] # Absent
           /\ WithRecord(trees, t, root, m)[t].nodes = root.nodes
           /\ WithRecord(trees, t, root, m)[t].meta = m
           /\ \A u \in Target \ {t} : WithRecord(trees, t, root, m)[u] = trees[u]
  <1> DEFINE after == [root EXCEPT !.meta = m]
             new   == [trees EXCEPT ![t] = after]
  <1>0. WithRecord(trees, t, root, m) = new
    BY DEF WithRecord
  <1>1. after \in Tree /\ after.nodes = root.nodes /\ after.meta = m
    BY DEF Tree
  <1>2. m # None /\ after # Absent
    BY <1>1, MarksAssumption, SortAssumption
  <1> HIDE DEF after
  <1>3. new \in [Target -> Tree \cup {Absent}]
    BY <1>1
  <1>4. new[t] = after /\ \A u \in Target \ {t} : new[u] = trees[u]
    OBVIOUS
  <1>5. \A u \in Target : Grown(trees[u], new[u])
    BY <1>1, <1>2, <1>4 DEF Grown
  <1>6. QED
    BY <1>0, <1>1, <1>2, <1>3, <1>4, <1>5 DEF after

LEMMA OpenRecordInv1 == ASSUME Inv1, NEW p \in Process, OpenRecord(p) PROVE Inv1'
  <1>1. /\ pc[p] = "steps" /\ target' = WithParents(tgt[p])
        /\ open' = [open EXCEPT ![p] = "staging"]
        /\ Goto(p, "recording")
    BY DEF OpenRecord
  <1>2. Live(p) /\ tgt[p] \in Target /\ DiskType /\ StagingOK
    BY <1>1 DEF Live, Inv1, TypeOK, RunType
  <1> DEFINE t == tgt[p]
             root == StagingRoot(t)
  <1>3. staging' = WithRecord(staging, t, root, Truncated)
    BY DEF OpenRecord, WithRecord
  <1>4. t \in Target /\ root \in Tree /\ staging[t] \in {Absent, root}
        /\ root \in {staging[t], EmptyTree}
        /\ \A x \in Path : root.nodes[x] # Foreign
    BY <1>2, RootType, RootNotForeign
  <1> HIDE DEF t, root
  <1>5. /\ staging' \in [Target -> Tree \cup {Absent}]
        /\ \A u \in Target : Grown(staging[u], staging'[u])
        /\ staging'[t] # Absent /\ staging'[t].nodes = root.nodes
        /\ staging'[t].meta = Truncated
        /\ \A u \in Target \ {t} : staging'[u] = staging[u]
    BY <1>2, <1>3, <1>4, RecordTree DEF DiskType
  <1>6. StagingOK'
    BY <1>2, <1>4, <1>5, StagingStep
  <1>7. DiskType' /\ Grows
    <2>1. /\ target' \in [Target -> Tree \cup {Absent}]
          /\ \A u \in Target : Grown(target[u], target'[u])
      BY <1>1, <1>2, ParentsType, ParentsGrow
    <2>2. QED
      BY <1>5, <2>1 DEF DiskType, Grows
  <1>8. /\ open' \in [Process -> OpenValues] /\ open'[p] = "staging"
        /\ \A q \in Process \ {p} : open'[q] = open[q]
    BY <1>1 DEF Inv1, TypeOK, RunType, OpenValues
  <1>9. /\ RunType' /\ pc'[p] = "recording" /\ tgt' = tgt
        /\ \A q \in Process \ {p} : SameRun(q)
    BY <1>1, <1>2, <1>8, GotoType DEF Inv1, TypeOK, AtWork
  <1>10. OpenOf(p)'
    BY <1>5, <1>8, <1>9, MarksAssumption DEF OpenOf, Holds, t
  <1>11. QED
    BY <1>6, <1>7, <1>9, <1>10, GrowStep

LEMMA WriteRecordInv1 == ASSUME Inv1, NEW p \in Process, WriteRecord(p) PROVE Inv1'
  <1>1. /\ pc[p] = "recording" /\ Goto(p, "landing")
        /\ open' = [open EXCEPT ![p] = "closed"]
    BY DEF WriteRecord
  <1>2. /\ Live(p) /\ tgt[p] \in Target /\ plan[p] \in Plans
        /\ DiskType /\ StagingOK
    BY <1>1 DEF Live, Inv1, TypeOK, RunType
  <1> DEFINE t == tgt[p]
  <1>3. PICK rows \in Flushed(Rows(plan[p])) :
          /\ staging' = IF open[p] = "staging" THEN Recorded(staging, t, rows) ELSE staging
          /\ target'  = IF open[p] = "target" THEN Recorded(target, t, rows) ELSE target
    BY DEF WriteRecord
  <1>4. t \in Target /\ rows \in {Truncated} \cup {Rows(pl) : pl \in Plans}
    BY <1>2 DEF Flushed
  <1>5. /\ open[p] = "staging" => staging[t] # Absent
        /\ open[p] = "target" => target[t] # Absent
    BY DEF Inv1, OpenOK, OpenOf, Holds
  <1> HIDE DEF t
  <1>6. /\ staging' \in [Target -> Tree \cup {Absent}]
        /\ \A u \in Target : Grown(staging[u], staging'[u])
        /\ StagingOK'
    <2>1. CASE open[p] = "staging"
      <3>1. staging[t] \in Tree
        BY <1>2, <1>4, <1>5, <2>1 DEF DiskType
      <3>2. staging' = WithRecord(staging, t, staging[t], rows)
        BY <1>3, <2>1 DEF Recorded, WithRecord
      <3>3. /\ staging' \in [Target -> Tree \cup {Absent}]
            /\ \A u \in Target : Grown(staging[u], staging'[u])
            /\ staging'[t].nodes = staging[t].nodes
            /\ \A u \in Target \ {t} : staging'[u] = staging[u]
        BY <1>2, <1>4, <3>1, <3>2, RecordTree DEF DiskType
      <3>4. StagingOK'
        BY <1>2, <1>5, <2>1, <3>3 DEF StagingOK
      <3>5. QED
        BY <3>3, <3>4
    <2>2. CASE open[p] # "staging"
      BY <1>2, <1>3, <2>2 DEF DiskType, Grown, StagingOK
    <2>3. QED
      BY <2>1, <2>2
  <1>7. /\ target' \in [Target -> Tree \cup {Absent}]
        /\ \A u \in Target : Grown(target[u], target'[u])
    <2>1. CASE open[p] = "target"
      <3>1. target[t] \in Tree
        BY <1>2, <1>4, <1>5, <2>1 DEF DiskType
      <3>2. target' = WithRecord(target, t, target[t], rows)
        BY <1>3, <2>1 DEF Recorded, WithRecord
      <3>3. QED
        BY <1>2, <1>4, <3>1, <3>2, RecordTree DEF DiskType
    <2>2. CASE open[p] # "target"
      BY <1>2, <1>3, <2>2 DEF DiskType, Grown
    <2>3. QED
      BY <2>1, <2>2
  <1>8. DiskType' /\ Grows
    BY <1>6, <1>7 DEF DiskType, Grows
  <1>9. /\ open' \in [Process -> OpenValues] /\ open'[p] = "closed"
        /\ \A q \in Process \ {p} : open'[q] = open[q]
    BY <1>1 DEF Inv1, TypeOK, RunType, OpenValues
  <1>10. RunType' /\ pc'[p] = "landing" /\ \A q \in Process \ {p} : SameRun(q)
    BY <1>1, <1>2, <1>9, GotoType DEF Inv1, TypeOK, AtWork
  <1>11. QED
    BY <1>6, <1>8, <1>9, <1>10, ClosedAfter, GrowStep

LEMMA RemoveRootInv1 == ASSUME Inv1, NEW p \in Process, RemoveRoot(p) PROVE Inv1'
  <1>1. /\ Live(p) /\ pc[p] \in {"clearing", "aborting"} /\ open' = open
        /\ staging[tgt[p]] \in {Absent, EmptyTree} /\ target' = target
        /\ staging' = [staging EXCEPT ![tgt[p]] = Absent]
        /\ Goto(p, "make_staging") \/ Return(p)
    BY DEF RemoveRoot, AfterRemoval, Live
  <1>2. DiskType /\ StagingOK /\ RunType
    BY DEF Inv1, TypeOK
  <1>3. DiskType' /\ StagingOK' /\ Grows
    BY <1>1, <1>2 DEF DiskType, StagingOK, Grows, Grown
  <1>4. open' \in [Process -> OpenValues] /\ open'[p] = "closed"
    BY <1>1, ClosedOpen DEF Inv1, TypeOK, RunType, OpenValues
  <1>5. /\ RunType' /\ pc'[p] \in {"make_staging", "idle"}
        /\ \A q \in Process \ {p} : SameRun(q)
    BY <1>1, <1>2, <1>4, GotoType, ReturnType DEF AtWork
  <1>6. QED
    BY <1>3, <1>4, <1>5, ClosedAfter, GrowStep

LEMMA UserCreateInv1 == ASSUME Inv1, NEW t \in Target, UserCreate(t) PROVE Inv1'
  <1>1. PICK tree \in {EmptyTree, UserTree} : target' = [WithParents(t) EXCEPT ![t] = tree]
    BY DEF UserCreate
  <1>2. /\ target[t] \in {Absent, EmptyTree}
        /\ UNCHANGED <<staging, pc, tgt, plan, next, open>>
    BY DEF UserCreate
  <1>3. DiskType /\ StagingOK /\ RunType
    BY DEF Inv1, TypeOK
  <1>4. DiskType' /\ \A u \in Target : Grown(target[u], target'[u])
    <2>1. \A u \in Target \ {t} : target[u] # Absent => target'[u] = target[u]
      BY <1>1, <1>3, ParentsType
    <2>2. \A u \in Target : Grown(target[u], target'[u])
      BY <1>2, <2>1 DEF Grown
    <2>3. target' \in [Target -> Tree \cup {Absent}]
      BY <1>1, <1>3, ParentsType, Trees
    <2>4. QED
      BY <1>2, <1>3, <2>2, <2>3 DEF DiskType
  <1>5. StagingOK' /\ Grows /\ RunType'
    BY <1>2, <1>3, <1>4 DEF StagingOK, Grows, Grown, RunType, Live
  <1>6. \A q \in Process : OpenOf(q)'
    BY <1>2, <1>3, <1>5, OthersKeep DEF SameRun, Inv1, OpenOK
  <1>7. QED
    BY <1>4, <1>5, <1>6 DEF Inv1, TypeOK, OpenOK

-----------------------------------------------------------------------------
\* The rename moves every open file with its directory, and replaces nothing
\* that holds one.
LEMMA LandInv1 == ASSUME Inv1, NEW p \in Process, Land(p) PROVE Inv1'
  <1>1. /\ pc[p] = "landing" /\ Live(p) /\ Return(p)
        /\ staging[tgt[p]] # Absent
        /\ target[tgt[p]] \in {Absent, EmptyTree}
        /\ target'  = [target EXCEPT ![tgt[p]] = staging[tgt[p]]]
        /\ staging' = [staging EXCEPT ![tgt[p]] = Absent]
        /\ open' = [q \in Process |-> IF tgt[q] = tgt[p] /\ open[q] = "staging"
                                      THEN "target" ELSE open[q]]
    BY DEF Land, Moved, Live, Vacant, Occupied
  <1>2. tgt[p] \in Target /\ DiskType /\ StagingOK /\ RunType
    BY <1>1 DEF Inv1, TypeOK, RunType
  <1>3. DiskType' /\ StagingOK'
    BY <1>1, <1>2 DEF DiskType, StagingOK
  <1>4. open[p] = "closed" /\ open'[p] = "closed" /\ open' \in [Process -> OpenValues]
    BY <1>1, <1>2, ClosedOpen DEF RunType, OpenValues
  <1>5. RunType' /\ pc'[p] = "idle"
    BY <1>1, <1>2, <1>4, ReturnType
  <1>6. ASSUME NEW q \in Process \ {p} PROVE OpenOf(q)'
    <2>1. /\ pc'[q] = pc[q] /\ tgt'[q] = tgt[q] /\ plan'[q] = plan[q] /\ next'[q] = next[q]
          /\ Step(q)' = Step(q)
      BY <1>1, <1>2 DEF Return, RunType, Step
    <2>2. OpenOf(q)
      BY DEF Inv1, OpenOK
    <2>3. \A tree : Holds(tree, q) => Holds(tree, q)'
      BY <2>1 DEF Holds
    <2>4. ASSUME open[q] \in {"staging", "target"}
          PROVE  /\ open'[q] \in {"staging", "target"}
                 /\ open'[q] = "staging" => Holds(staging[tgt[q]], q) /\ tgt[q] # tgt[p]
                 /\ open'[q] = "target" => Holds(target'[tgt[q]], q)
      <3>1. pc[q] \in {"writing", "recording"} /\ tgt[q] \in Target
        BY <2>2, <2>4, <1>2 DEF OpenOf, RunType, Live
      <3>2. pc[q] = "writing" => Step(q).path \in Path
        BY <1>2, <2>2, StepType DEF OpenOf, Live
      <3>3. open[q] = "target" => tgt[q] # tgt[p]
        BY <1>1, <2>2, <3>1, <3>2, HoldsFile DEF OpenOf
      <3>4. QED
        BY <1>1, <1>2, <2>2, <2>4, <3>1, <3>3 DEF OpenOf, DiskType
    <2>5. open'[q] = "staging" => Holds(staging[tgt[q]], q) /\ tgt[q] # tgt[p] /\ tgt[q] \in Target
      BY <1>1, <1>2, <2>2, <2>4 DEF RunType, OpenOf, Live
    <2>6. open'[q] = "staging" => Holds(staging[tgt[q]], q)' /\ staging'[tgt[q]] = staging[tgt[q]]
      BY <1>1, <1>2, <2>1, <2>5 DEF DiskType, Holds
    <2>7. open'[q] = "target" => Holds(target'[tgt[q]], q)
      BY <1>1, <2>4
    <2>8. open'[q] = "target" => Holds(target[tgt[q]], q)'
      BY <2>1, <2>7 DEF Holds
    <2>9. open'[q] = "staging" => Holds(staging[tgt[q]], q)'
      BY <2>6
    <2>10. open'[q] # "closed" => pc'[q] \in {"writing", "recording"}
      BY <1>1, <2>1, <2>2 DEF OpenOf
    <2>11. pc'[q] = "writing" => next'[q] <= Len(plan'[q]) /\ Step(q)'.node # Dir
      BY <2>1, <2>2 DEF OpenOf
    <2>12. QED
      BY <2>8, <2>9, <2>10, <2>11 DEF OpenOf
  <1>7. OpenOf(p)'
    BY <1>4, <1>5, ClosedAfter
  <1>8. QED
    BY <1>3, <1>5, <1>6, <1>7 DEF Inv1, TypeOK, OpenOK

-----------------------------------------------------------------------------
\* Removals: the processes of `lost` go on with a file that has no name, and
\* the file of every other one stays where it is.
LEMMA LoseStep ==
    ASSUME Inv1, DiskType', StagingOK', UNCHANGED <<pc, tgt, plan, next>>,
           NEW lost \in SUBSET Process,
           \A q \in lost : open[q] # "closed",
           open' = [q \in Process |-> IF q \in lost THEN "unlinked" ELSE open[q]],
           \A q \in Process \ lost :
              /\ open[q] = "staging" => Holds(staging'[tgt[q]], q)
              /\ open[q] = "target" => Holds(target'[tgt[q]], q)
    PROVE  Inv1'
  <1>1. RunType'
    BY DEF Inv1, TypeOK, RunType, Live
  <1>2. ASSUME NEW q \in Process PROVE OpenOf(q)'
    <2>1. Step(q)' = Step(q) /\ OpenOf(q)
      BY DEF Step, Inv1, OpenOK
    <2>2. \A tree : Holds(tree, q) => Holds(tree, q)'
      BY <2>1 DEF Holds
    <2>3. open'[q] # "closed" => pc'[q] \in {"writing", "recording"}
      BY <2>1 DEF OpenOf
    <2>4. pc'[q] = "writing" => next'[q] <= Len(plan'[q]) /\ Step(q)'.node # Dir
      BY <2>1 DEF OpenOf
    <2>5. /\ open'[q] = "staging" => Holds(staging'[tgt[q]], q)
          /\ open'[q] = "target" => Holds(target'[tgt[q]], q)
      OBVIOUS
    <2>6. /\ open'[q] = "staging" => Holds(staging[tgt[q]], q)'
          /\ open'[q] = "target" => Holds(target[tgt[q]], q)'
      BY <2>1, <2>5 DEF Holds
    <2>7. QED
      BY <2>3, <2>4, <2>6 DEF OpenOf
  <1>3. QED
    BY <1>1, <1>2 DEF Inv1, TypeOK, OpenOK

\* An open file is in a tree of its run's location.
LEMMA OpenWhere ==
    ASSUME Inv1, NEW q \in Process, open[q] \in {"staging", "target"}
    PROVE  /\ tgt[q] \in Target /\ pc[q] \in {"writing", "recording"}
           /\ pc[q] = "writing" => Step(q).path \in Path
           /\ open[q] = "staging" => Holds(staging[tgt[q]], q)
           /\ open[q] = "target" => Holds(target[tgt[q]], q)
  <1>1. OpenOf(q) /\ RunType
    BY DEF Inv1, TypeOK, OpenOK
  <1>2. pc[q] \in {"writing", "recording"} /\ Live(q)
    BY <1>1 DEF OpenOf, Live
  <1>3. QED
    BY <1>1, <1>2, StepType DEF OpenOf, RunType

LEMMA UserSweepInv1 == ASSUME Inv1, NEW t \in Target, UserSweep(t) PROVE Inv1'
  <1> DEFINE lost == {q \in Process : tgt[q] = t /\ open[q] = "staging"}
  <1>1. /\ UNCHANGED <<target, pc, tgt, plan, next>>
        /\ staging' = [staging EXCEPT ![t] = Absent]
        /\ open' = [q \in Process |-> IF q \in lost THEN "unlinked" ELSE open[q]]
    BY DEF UserSweep
  <1>2. DiskType' /\ StagingOK'
    BY <1>1 DEF Inv1, TypeOK, DiskType, StagingOK
  <1>3. \A q \in lost : open[q] # "closed"
    OBVIOUS
  <1>4. \A q \in Process \ lost :
              /\ open[q] = "staging" => Holds(staging'[tgt[q]], q)
              /\ open[q] = "target" => Holds(target'[tgt[q]], q)
    BY <1>1, OpenWhere DEF Inv1, TypeOK, DiskType
  <1> HIDE DEF lost
  <1>5. lost \in SUBSET Process
    BY DEF lost
  <1>6. QED
    BY <1>1, <1>2, <1>3, <1>4, <1>5, LoseStep

LEMMA UserRemoveInv1 == ASSUME Inv1, NEW t \in Target, UserRemove(t) PROVE Inv1'
  <1> DEFINE inner == Inside(t)
             lost  == {q \in Process : \/ tgt[q] \in inner /\ open[q] # "closed"
                                       \/ tgt[q] = t /\ open[q] = "target"}
  <1>1. /\ UNCHANGED <<pc, tgt, plan, next>>
        /\ target'  = [u \in Target |-> IF u \in inner \cup {t} THEN Absent ELSE target[u]]
        /\ staging' = [u \in Target |-> IF u \in inner THEN Absent ELSE staging[u]]
        /\ open' = [q \in Process |-> IF q \in lost THEN "unlinked" ELSE open[q]]
    BY DEF UserRemove
  <1>2. DiskType' /\ StagingOK'
    BY <1>1 DEF Inv1, TypeOK, DiskType, StagingOK
  <1>3. \A q \in lost : open[q] # "closed"
    OBVIOUS
  <1>4. \A q \in Process \ lost :
              /\ open[q] = "staging" => Holds(staging'[tgt[q]], q)
              /\ open[q] = "target" => Holds(target'[tgt[q]], q)
    BY <1>1, OpenWhere
  <1> HIDE DEF lost
  <1>5. lost \in SUBSET Process
    BY DEF lost
  <1>6. QED
    BY <1>1, <1>2, <1>3, <1>4, <1>5, LoseStep

\* The tree at t without its entry x, and without its record.
NoEntry(t, x) == [staging EXCEPT ![t].nodes[x] = None]
NoRecord(t) == [staging EXCEPT ![t].meta = None]

LEMMA NoEntryType ==
    ASSUME DiskType, StagingOK, NEW t \in Target, staging[t] # Absent, NEW x \in Path,
           staging' = NoEntry(t, x), target' = target
    PROVE  /\ DiskType' /\ StagingOK'
           /\ \A u \in Target \ {t} : staging'[u] = staging[u]
           /\ staging'[t] # Absent /\ staging'[t].meta = staging[t].meta
           /\ \A y \in Path \ {x} : staging'[t].nodes[y] = staging[t].nodes[y]
  <1> DEFINE old == staging[t]
             after == [old EXCEPT !.nodes = [old.nodes EXCEPT ![x] = None]]
  <1>1. old \in Tree
    BY DEF DiskType
  <1>2. old.nodes \in [Path -> Node] /\ [old.nodes EXCEPT ![x] = None] \in [Path -> Node]
    BY <1>1, TreeNodes DEF Node, Marks
  <1>3. /\ after \in Tree /\ after.meta = old.meta
        /\ after.nodes = [old.nodes EXCEPT ![x] = None]
    BY <1>1, <1>2 DEF Tree
  <1>4. staging' = [staging EXCEPT ![t] = after]
    BY DEF NoEntry
  <1>5. staging'[t] = after /\ \A u \in Target \ {t} : staging'[u] = staging[u]
    BY <1>4 DEF DiskType
  <1>6. \A y \in Path : after.nodes[y] \in {None, old.nodes[y]}
    BY <1>2, <1>3
  <1>7. \A y \in Path \ {x} : after.nodes[y] = old.nodes[y]
    BY <1>2, <1>3
  <1> HIDE DEF after
  <1>8. DiskType'
    BY <1>3, <1>4 DEF DiskType
  <1>9. StagingOK'
    BY <1>5, <1>6, MarkFacts DEF StagingOK
  <1>10. after # Absent
    BY <1>3, SortAssumption
  <1>11. QED
    BY <1>3, <1>5, <1>7, <1>8, <1>9, <1>10

LEMMA NoRecordType ==
    ASSUME DiskType, StagingOK, NEW t \in Target, staging[t] # Absent,
           staging' = NoRecord(t), target' = target
    PROVE  /\ DiskType' /\ StagingOK'
           /\ \A u \in Target \ {t} : staging'[u] = staging[u]
           /\ staging'[t] # Absent /\ staging'[t].nodes = staging[t].nodes
  <1> DEFINE after == [staging[t] EXCEPT !.meta = None]
  <1>1. after \in Tree /\ after.nodes = staging[t].nodes
    BY DEF DiskType, Tree
  <1>2. staging' = [staging EXCEPT ![t] = after]
    BY DEF NoRecord
  <1> HIDE DEF after
  <1>3. staging'[t] = after /\ \A u \in Target \ {t} : staging'[u] = staging[u]
    BY <1>2 DEF DiskType
  <1>4. DiskType'
    BY <1>1, <1>2 DEF DiskType
  <1>5. StagingOK'
    BY <1>1, <1>3 DEF StagingOK
  <1>6. QED
    BY <1>1, <1>3, <1>4, <1>5, SortAssumption

LEMMA RemoveEntryInv1 == ASSUME Inv1, NEW p \in Process, RemoveEntry(p) PROVE Inv1'
  <1> DEFINE t == tgt[p]
  <1>1. /\ UNCHANGED <<target, pc, tgt, plan, next>> /\ staging[t] # Absent
        /\ Live(p)
    BY DEF RemoveEntry, Live
  <1>2. t \in Target /\ DiskType /\ StagingOK
    BY <1>1 DEF Inv1, TypeOK, RunType
  <1>3. ASSUME NEW x \in Path,
               staging' = NoEntry(t, x),
               open' = [q \in Process |->
                          IF tgt[q] = t /\ open[q] = "staging" /\ pc[q] = "writing"
                               /\ Step(q).path = x
                          THEN "unlinked" ELSE open[q]]
        PROVE  Inv1'
    <2> DEFINE lost == {q \in Process : /\ tgt[q] = t /\ open[q] = "staging"
                                        /\ pc[q] = "writing" /\ Step(q).path = x}
    <2>1. /\ DiskType' /\ StagingOK'
          /\ \A u \in Target \ {t} : staging'[u] = staging[u]
          /\ staging'[t] # Absent /\ staging'[t].meta = staging[t].meta
          /\ \A y \in Path \ {x} : staging'[t].nodes[y] = staging[t].nodes[y]
      BY <1>1, <1>2, <1>3, NoEntryType
    <2>2. ASSUME NEW q \in Process \ lost
          PROVE  /\ open[q] = "staging" => Holds(staging'[tgt[q]], q)
                 /\ open[q] = "target" => Holds(target'[tgt[q]], q)
      BY <1>1, <2>1, OpenWhere DEF Holds
    <2>3. open' = [q \in Process |-> IF q \in lost THEN "unlinked" ELSE open[q]]
      BY <1>3
    <2>4. \A q \in lost : open[q] # "closed"
      OBVIOUS
    <2> HIDE DEF lost
    <2>5. lost \in SUBSET Process
      BY DEF lost
    <2>6. QED
      BY <1>1, <2>1, <2>2, <2>3, <2>4, <2>5, LoseStep
  <1>4. ASSUME staging' = NoRecord(t),
               open' = [q \in Process |->
                          IF tgt[q] = t /\ open[q] = "staging" /\ pc[q] = "recording"
                          THEN "unlinked" ELSE open[q]]
        PROVE  Inv1'
    <2> DEFINE lost == {q \in Process : /\ tgt[q] = t /\ open[q] = "staging"
                                        /\ pc[q] = "recording"}
    <2>1. /\ DiskType' /\ StagingOK'
          /\ \A u \in Target \ {t} : staging'[u] = staging[u]
          /\ staging'[t] # Absent /\ staging'[t].nodes = staging[t].nodes
      BY <1>1, <1>2, <1>4, NoRecordType
    <2>2. ASSUME NEW q \in Process \ lost
          PROVE  /\ open[q] = "staging" => Holds(staging'[tgt[q]], q)
                 /\ open[q] = "target" => Holds(target'[tgt[q]], q)
      BY <1>1, <2>1, OpenWhere DEF Holds
    <2>3. open' = [q \in Process |-> IF q \in lost THEN "unlinked" ELSE open[q]]
      BY <1>4
    <2>4. \A q \in lost : open[q] # "closed"
      OBVIOUS
    <2> HIDE DEF lost
    <2>5. lost \in SUBSET Process
      BY DEF lost
    <2>6. QED
      BY <1>1, <2>1, <2>2, <2>3, <2>4, <2>5, LoseStep
  <1> HIDE DEF t
  <1>5. QED
    BY <1>3, <1>4 DEF RemoveEntry, NoEntry, NoRecord, t

LEMMA StutterInv1 == ASSUME Inv1, UNCHANGED vars PROVE Inv1'
  <1>1. TypeOK' /\ StagingOK'
    BY DEF vars, Inv1, TypeOK, DiskType, RunType, Live, StagingOK
  <1>2. OpenOK'
    BY DEF vars, Inv1, OpenOK, OpenOf, Holds, Step
  <1>3. QED
    BY <1>1, <1>2 DEF Inv1

LEMMA NextInv1 == Inv1 /\ [Next]_vars => Inv1'
  <1> SUFFICES ASSUME Inv1, [Next]_vars PROVE Inv1'
    OBVIOUS
  <1>1. ASSUME NEW p \in Process, RunStep(p) PROVE Inv1'
    BY <1>1, CheckInv1, MakeStagingInv1, MakeDirectoryInv1, OpenFileInv1, WriteFileInv1,
       OpenRecordInv1, WriteRecordInv1, LandInv1, CallFailsInv1, RemoveEntryInv1,
       RemoveRootInv1, ThrowIsCrash, CrashInv1 DEF RunStep
  <1>2. ASSUME NEW p \in Process, Start(p) \/ Crash(p) PROVE Inv1'
    BY <1>2, StartInv1, CrashInv1
  <1>3. ASSUME NEW t \in Target, UserCreate(t) \/ UserRemove(t) \/ UserSweep(t) PROVE Inv1'
    BY <1>3, UserCreateInv1, UserRemoveInv1, UserSweepInv1
  <1>4. QED
    BY <1>1, <1>2, <1>3, StutterInv1 DEF Next

\* Whatever the environment does, every run keeps to its plan, every tree is a
\* tree, and no write ever goes to a file that is not there (apply()).
THEOREM TypeCorrect == Spec => []TypeOK
  <1>1. Inv1 => TypeOK
    BY DEF Inv1
  <1>2. QED
    BY <1>1, InitInv1, NextInv1, PTL DEF Spec

-----------------------------------------------------------------------------
\* A step that leaves the user's trees alone.
Keeps == \A t \in Target : target[t] = UserTree => target'[t] = UserTree

LEMMA UserTreeFacts ==
    /\ UserTree \notin {Absent, EmptyTree} /\ UserTree.meta = None
    /\ \A x \in Path : UserTree.nodes[x] = Foreign
    /\ \A q \in Process : /\ pc[q] \in {"writing", "recording"}
                          /\ pc[q] = "writing" => Step(q).path \in Path
                          => ~Holds(UserTree, q)
  <1>1. UserTree.meta = None /\ \A x \in Path : UserTree.nodes[x] = Foreign
    BY DEF UserTree
  <1>2. UserTree # EmptyTree
    <2>1. \A x \in Path : EmptyTree.nodes[x] = None
      BY DEF EmptyTree
    <2>2. QED
      BY <1>1, <2>1, PathAssumption, MarkFacts
  <1>3. QED
    BY <1>1, <1>2, MarkFacts DEF Holds

LEMMA ParentsKeep == ASSUME DiskType, NEW t \in Target, target' = WithParents(t) PROVE Keeps
  BY ParentsType, UserTreeFacts DEF Keeps

\* The trees after a write to the file p has open.
LEMMA WriteKeeps ==
    ASSUME Inv1, NEW p \in Process, pc[p] \in {"writing", "recording"},
           \/ target' = target
           \/ /\ open[p] = "target"
              /\ \A u \in Target \ {tgt[p]} : target'[u] = target[u]
    PROVE  Keeps
  <1>1. open[p] = "target" => target[tgt[p]] # UserTree
    BY OpenWhere, UserTreeFacts
  <1>2. QED
    BY <1>1 DEF Keeps

LEMMA NextKeeps ==
    Inv1 /\ [Next]_vars => Keeps \/ \E t \in Target : UserRemove(t)
  <1> SUFFICES ASSUME Inv1, [Next]_vars PROVE Keeps \/ \E t \in Target : UserRemove(t)
    OBVIOUS
  <1>1. ASSUME UNCHANGED target PROVE Keeps
    BY <1>1 DEF Keeps
  <1>2. DiskType /\ RunType
    BY DEF Inv1, TypeOK
  <1>3. ASSUME NEW p \in Process, MakeStaging(p) PROVE Keeps
    <2>1. tgt[p] \in Target /\ Outer[tgt[p]] \in SUBSET Target
      BY <1>2, <1>3, TargetAssumption DEF MakeStaging, RunType, Live
    <2>2. ASSUME NEW made \in SUBSET Outer[tgt[p]], target' = Made(made) PROVE Keeps
      BY <1>2, <2>1, <2>2, MadeType, UserTreeFacts DEF Keeps
    <2>3. QED
      BY <1>2, <1>3, <2>1, <2>2, ParentsKeep DEF MakeStaging
  <1>4. ASSUME NEW p \in Process, MakeDirectory(p) \/ OpenFile(p) \/ OpenRecord(p) PROVE Keeps
    <2>1. tgt[p] \in Target
      BY <1>2, <1>4 DEF MakeDirectory, OpenFile, OpenRecord, RunType, Live
    <2>2. target' = WithParents(tgt[p])
      BY <1>4 DEF MakeDirectory, OpenFile, OpenRecord
    <2>3. QED
      BY <1>2, <2>1, <2>2, ParentsKeep
  <1>5. ASSUME NEW p \in Process, WriteFile(p) PROVE Keeps
    <2>1. PICK c : target' = IF open[p] = "target"
                             THEN Written(target, tgt[p], Step(p).path, c) ELSE target
      BY <1>5 DEF WriteFile
    <2>2. \A u \in Target \ {tgt[p]} : Written(target, tgt[p], Step(p).path, c)[u] = target[u]
      BY <1>2 DEF Written, DiskType
    <2>3. QED
      BY <1>5, <2>1, <2>2, WriteKeeps DEF WriteFile
  <1>6. ASSUME NEW p \in Process, WriteRecord(p) PROVE Keeps
    <2>1. PICK rows : target' = IF open[p] = "target"
                                THEN Recorded(target, tgt[p], rows) ELSE target
      BY <1>6 DEF WriteRecord
    <2>2. \A u \in Target \ {tgt[p]} : Recorded(target, tgt[p], rows)[u] = target[u]
      BY <1>2 DEF Recorded, DiskType
    <2>3. QED
      BY <1>6, <2>1, <2>2, WriteKeeps DEF WriteRecord
  <1>7. ASSUME NEW p \in Process, Land(p) PROVE Keeps
    <2>1. /\ target[tgt[p]] \in {Absent, EmptyTree}
          /\ target' = [target EXCEPT ![tgt[p]] = staging[tgt[p]]]
      BY <1>7 DEF Land, Moved, Vacant, Occupied
    <2>2. QED
      BY <1>2, <2>1, UserTreeFacts DEF Keeps, DiskType
  <1>8. ASSUME NEW t \in Target, UserCreate(t) PROVE Keeps
    BY <1>2, <1>8, ParentsType, UserTreeFacts DEF Keeps, UserCreate
  <1>9. \A p \in Process :
           CheckTarget(p) \/ CheckNested(p) \/ CheckStaging(p) \/ CallFails(p) \/ Start(p)
             \/ RemoveEntry(p) \/ RemoveRoot(p) \/ RemoveFails(p) \/ Crash(p) => UNCHANGED target
    BY DEF CheckTarget, CheckNested, CheckStaging, CallFails, Start, RemoveEntry, RemoveRoot,
           RemoveFails, Crash
  <1>10. ASSUME NEW p \in Process, RunStep(p) PROVE Keeps
    BY <1>1, <1>3, <1>4, <1>5, <1>6, <1>7, <1>9, <1>10, ThrowIsCrash DEF RunStep
  <1>11. ASSUME NEW t \in Target, UserSweep(t) PROVE Keeps
    BY <1>1, <1>11 DEF UserSweep
  <1>12. QED
    BY <1>1, <1>8, <1>9, <1>10, <1>11 DEF Next, vars

\* What a removal by the user takes: the location itself and those inside it.
LEMMA RemovedBelow ==
    ASSUME NEW t \in Target, NEW u \in Target, UserRemove(u), target'[t] # target[t]
    PROVE  u \in {t} \cup Outer[t]
  BY DEF UserRemove, Inside

\* Whatever else happens on the host, what the user has put at an output
\* location stays as it is until a step of the user's that removes it, or a
\* directory it lies in; no run does (the existence check and the rename of
\* apply(), and the writes to a file that was opened in staging).
THEOREM NeverOverwrites == Spec => UserFilesKept
  <1> DEFINE Kept == \A t \in Target : target[t] = UserTree /\ target'[t] # UserTree
                       => \E u \in {t} \cup Outer[t] : UserRemove(u)
  <1>1. Inv1 /\ [Next]_vars => Kept
    BY NextKeeps, RemovedBelow DEF Keeps
  <1>2. Inv1 /\ [Next]_vars => [Kept]_vars
    BY <1>1
  <1>3. QED
    BY <1>2, InitInv1, NextInv1, PTL DEF Spec, UserFilesKept

-----------------------------------------------------------------------------
(***************************************************************************)
(* What apply() promises on a quiet host: the environment may fail every   *)
(* call, kill every process, create and delete directories and start runs  *)
(* inside the output location of other runs, and no more.                  *)
(***************************************************************************)
Quiet == Interference \subseteq {"nested_runs"}

\* Two live runs never share an output location.
Exclusive ==
    \A p, q \in Process : p # q /\ Live(p) /\ Live(q) => tgt[p] # tgt[q]

(***************************************************************************)
(* Second inductive invariant.  WorkspaceComplete is not inductive: what   *)
(* lands is what is in staging, so the staging directory of a live run     *)
(* must be what the steps done so far have built, from an empty start.     *)
(***************************************************************************)

\* The staging directory of p's run is there and its entries are what the
\* first n steps of its plan build.
Has(p, n) ==
    staging[tgt[p]] # Absent /\ Built(staging[tgt[p]].nodes, plan[p], n)

\* The same once the file p has open has its content.
HasButOne(p) ==
    /\ staging[tgt[p]] # Absent
    /\ Built([staging[tgt[p]].nodes EXCEPT ![Step(p).path] = Step(p).node],
             plan[p], next[p])

RunOK(p) ==
    /\ pc[p] \in {"check_target", "check_nested", "check_staging",
                  "clearing", "make_staging"} => next[p] = 1
    /\ pc[p] = "make_staging" => staging[tgt[p]] = Absent
    /\ pc[p] = "steps" => Has(p, next[p] - 1)
    /\ pc[p] = "writing" => HasButOne(p) /\ open[p] = "staging"
    /\ pc[p] = "recording" => Has(p, Len(plan[p])) /\ open[p] = "staging"
    /\ pc[p] = "landing" =>
          Has(p, Len(plan[p])) /\ staging[tgt[p]].meta = Rows(plan[p])

Inv2 ==
    /\ Inv1
    /\ Exclusive
    /\ \A p \in Process : RunOK(p)
    /\ WorkspaceComplete

-----------------------------------------------------------------------------
\* A directory with nothing in it is what no steps build.
LEMMA EmptyBuilt == \A pl : Built(EmptyTree.nodes, pl, 0)
  BY DEF Built, EmptyTree

\* Putting what step n of a plan creates where the first n - 1 steps have been
\* done gives what the first n steps build.
LEMMA PutBuilds ==
    ASSUME NEW nodes, NEW pl \in Seq(Steps), NEW n \in 1 .. Len(pl),
           Built(nodes, pl, n - 1)
    PROVE  Built(Put(nodes, pl[n].path, pl[n].node), pl, n)
  <1> DEFINE x == pl[n].path
             new == Put(nodes, x, pl[n].node)
             At(y, m) == {i \in 1 .. m : pl[i].path = y}
  <1>1. Len(pl) \in Nat /\ n \in Nat /\ 1 <= n /\ n <= Len(pl)
    OBVIOUS
  <1>2. \A i \in 1 .. n : pl[i].path \in Path /\ pl[i].node \in Content \cup {Dir}
    <2>1. \A i \in 1 .. n : pl[i] \in Steps
      BY <1>1
    <2>2. QED
      BY <2>1 DEF Steps
  <1>3. \A i : i \in 1 .. n <=> i \in 1 .. n - 1 \/ i = n
    BY <1>1
  <1>4. \A y \in Path : new[y] = IF y = x THEN pl[n].node
                                 ELSE IF y \in Under[x] /\ nodes[y] = None THEN Dir
                                 ELSE nodes[y]
    BY DEF Put
  <1>5. ASSUME NEW y \in Path
        PROVE  /\ \A i \in At(y, n) : (\A j \in At(y, n) : j <= i) => new[y] = pl[i].node
               /\ At(y, n) = {} => new[y] = IF \E i \in 1 .. n : y \in Under[pl[i].path]
                                            THEN Dir ELSE None
    <2>1. CASE y = x
      <3>1. n \in At(y, n) /\ new[y] = pl[n].node
        BY <1>1, <1>4, <2>1
      <3>2. ASSUME NEW i \in At(y, n), \A j \in At(y, n) : j <= i PROVE i = n
        BY <1>1, <3>1, <3>2
      <3>3. QED
        BY <3>1, <3>2
    <2>2. CASE y # x
      <3>1. At(y, n) = At(y, n - 1)
        BY <1>3, <2>2
      <3>2. /\ \A i \in At(y, n - 1) : (\A j \in At(y, n - 1) : j <= i) => nodes[y] = pl[i].node
            /\ At(y, n - 1) = {} => nodes[y] = IF \E i \in 1 .. n - 1 : y \in Under[pl[i].path]
                                               THEN Dir ELSE None
        BY DEF Built
      <3>3. ASSUME NEW i \in At(y, n), \A j \in At(y, n) : j <= i
            PROVE  new[y] = pl[i].node
        <4>1. nodes[y] = pl[i].node
          BY <3>1, <3>2, <3>3
        <4>2. nodes[y] # None
          BY <1>2, <4>1, MarkFacts
        <4>3. QED
          BY <1>4, <2>2, <4>1, <4>2
      <3>4. ASSUME At(y, n) = {}
            PROVE  new[y] = IF \E i \in 1 .. n : y \in Under[pl[i].path] THEN Dir ELSE None
        <4>1. nodes[y] = IF \E i \in 1 .. n - 1 : y \in Under[pl[i].path] THEN Dir ELSE None
          BY <3>1, <3>2, <3>4
        <4>2. (\E i \in 1 .. n : y \in Under[pl[i].path])
                <=> (\E i \in 1 .. n - 1 : y \in Under[pl[i].path]) \/ y \in Under[x]
          BY <1>3
        <4>3. QED
          BY <1>4, <2>2, <4>1, <4>2, MarksAssumption
      <3>5. QED
        BY <3>3, <3>4
    <2>3. QED
      BY <2>1, <2>2
  <1>6. QED
    BY <1>5 DEF Built

-----------------------------------------------------------------------------
LEMMA InitInv2 == Init => Inv2
  <1> SUFFICES ASSUME Init PROVE Inv2
    OBVIOUS
  <1>1. Inv1 /\ Exclusive /\ WorkspaceComplete
    BY InitInv1 DEF Init, Exclusive, Live, WorkspaceComplete, IsWorkspace
  <1>2. \A p \in Process : RunOK(p)
    BY DEF Init, RunOK
  <1>3. QED
    BY <1>1, <1>2 DEF Inv2

\* A process that does not move is where it was while its staging directory is.
LEMMA OthersOK ==
    ASSUME NEW q \in Process, RunOK(q), SameRun(q),
           Live(q) => staging'[tgt[q]] = staging[tgt[q]]
    PROVE  RunOK(q)'
  <1>1. CASE Live(q)
    BY <1>1 DEF RunOK, Has, HasButOne, SameRun, Step
  <1>2. CASE ~Live(q)
    BY <1>2 DEF RunOK, SameRun, Live
  <1>3. QED
    BY <1>1, <1>2

\* A step of p works in its own staging directory only, and what others have
\* open stays where it is.
LEMMA StepOK ==
    ASSUME Inv2, NEW p \in Process, Live(p), Inv1',
           \A q \in Process \ {p} : SameRun(q),
           Live(p)' => tgt'[p] = tgt[p],
           \A u \in Target \ {tgt[p]} : staging'[u] = staging[u],
           RunOK(p)',
           WorkspaceComplete'
    PROVE  Inv2'
  <1>1. Exclusive'
    BY DEF Inv2, Exclusive, Live, SameRun
  <1>2. ASSUME NEW q \in Process PROVE RunOK(q)'
    <2>1. CASE q # p
      <3>1. Live(q) => tgt[q] \in Target \ {tgt[p]}
        BY <2>1 DEF Inv2, Exclusive, Inv1, TypeOK, RunType
      <3>2. QED
        BY <2>1, <3>1, OthersOK DEF Inv2
    <2>2. QED
      BY <2>1
  <1>3. QED
    BY <1>1, <1>2 DEF Inv2

\* Output locations that stay, or become empty directories, or are the user's.
LEMMA StillComplete ==
    ASSUME WorkspaceComplete,
           \A t \in Target : target'[t] \in {target[t], Absent, EmptyTree, UserTree}
    PROVE  WorkspaceComplete'
  <1>1. EmptyTree.meta = None /\ UserTree.meta = None
    BY DEF EmptyTree, UserTree
  <1>2. ASSUME NEW t \in Target, IsWorkspace(t)' PROVE target'[t] \in Workspaces'
    <2>1. target'[t] = target[t] /\ IsWorkspace(t)
      BY <1>1, <1>2 DEF IsWorkspace
    <2>2. Workspaces' = Workspaces
      BY DEF Workspaces, Tree, Built, Rows, HashOf, FileSteps
    <2>3. QED
      BY <2>1, <2>2 DEF WorkspaceComplete
  <1>3. QED
    BY <1>2 DEF WorkspaceComplete

LEMMA Moves ==
    ASSUME Inv1, NEW p \in Process, NEW to, Goto(p, to),
           \/ open' = open
           \/ \E v \in {"closed", "staging"} : open' = [open EXCEPT ![p] = v]
    PROVE  /\ pc'[p] = to /\ tgt' = tgt /\ plan' = plan /\ next' = next
           /\ Step(p)' = Step(p)
           /\ \A q \in Process \ {p} : SameRun(q)
  BY DEF Goto, run, Inv1, TypeOK, RunType, SameRun, Step

LEMMA Leaves ==
    ASSUME Inv1, NEW p \in Process, Return(p),
           open' = open \/ open' = [open EXCEPT ![p] = "closed"]
    PROVE  /\ ~Live(p)' /\ pc'[p] = "idle"
           /\ \A q \in Process \ {p} : SameRun(q)
  BY DEF Return, Inv1, TypeOK, RunType, SameRun, Live

LEMMA NothingToKeep == ASSUME NEW p \in Process, pc'[p] \in {"idle", "aborting"} PROVE RunOK(p)'
  BY DEF RunOK

\* Nothing is at p's staging directory, and no step is done, before the plan
\* is executed.
LEMMA BeforeSteps ==
    ASSUME NEW p \in Process, next'[p] = 1,
           pc'[p] \in {"check_target", "check_nested", "check_staging", "clearing",
                      "make_staging"},
           pc'[p] = "make_staging" => staging'[tgt'[p]] = Absent
    PROVE  RunOK(p)'
  BY DEF RunOK

LEMMA StartInv2 == ASSUME Quiet, Inv2, Inv1', NEW p \in Process, Start(p) PROVE Inv2'
  <1>1. PICK t \in Target : /\ \A q \in Process : Live(q) => Compatible(q, t)
                            /\ tgt' = [tgt EXCEPT ![p] = t]
    BY DEF Start
  <1>2. /\ ~Live(p) /\ pc' = [pc EXCEPT ![p] = "check_target"]
        /\ UNCHANGED <<target, staging, next, open>>
    BY DEF Start, Live
  <1>3. next'[p] = 1 /\ pc'[p] = "check_target" /\ tgt'[p] = t
    BY <1>1, <1>2 DEF Inv2, Inv1, TypeOK, RunType
  <1>4. \A q \in Process \ {p} : SameRun(q)
    BY <1>1, <1>2 DEF Inv2, Inv1, TypeOK, RunType, SameRun, Start
  <1>5. \A q \in Process \ {p} : Live(q) => tgt[q] # t
    BY <1>1 DEF Compatible, Quiet
  <1>6. Exclusive'
    BY <1>3, <1>4, <1>5 DEF Exclusive, Inv2, SameRun, Live
  <1>7. \A q \in Process \ {p} : RunOK(q)'
    BY <1>2, <1>4, OthersOK DEF Inv2
  <1>8. RunOK(p)'
    BY <1>3, BeforeSteps
  <1>9. WorkspaceComplete'
    BY <1>2, StillComplete DEF Inv2
  <1>10. QED
    BY <1>6, <1>7, <1>8, <1>9 DEF Inv2

LEMMA CheckInv2 ==
    ASSUME Quiet, Inv2, Inv1', NEW p \in Process,
           CheckTarget(p) \/ CheckNested(p) \/ CheckStaging(p)
    PROVE  Inv2'
  <1>1. /\ Live(p) /\ UNCHANGED <<target, staging, open>> /\ next[p] = 1
        /\ \/ Return(p)
           \/ \E to \in {"check_nested", "check_staging", "clearing"} : Goto(p, to)
           \/ Goto(p, "make_staging") /\ staging[tgt[p]] = Absent
    BY DEF CheckTarget, CheckNested, CheckStaging, Leftover, Live, Quiet, Inv2, RunOK
  <1>2. WorkspaceComplete'
    BY <1>1, StillComplete DEF Inv2
  <1>3. CASE Return(p)
    BY <1>1, <1>2, <1>3, Leaves, NothingToKeep, StepOK DEF Inv2
  <1>4. ASSUME NEW to \in {"check_nested", "check_staging", "clearing"}, Goto(p, to)
        PROVE  Inv2'
    <2>1. next'[p] = 1 /\ pc'[p] = to /\ tgt' = tgt /\ \A q \in Process \ {p} : SameRun(q)
      BY <1>1, <1>4, Moves DEF Inv2
    <2>2. QED
      BY <1>1, <1>2, <2>1, BeforeSteps, StepOK
  <1>5. CASE Goto(p, "make_staging") /\ staging[tgt[p]] = Absent
    <2>1. /\ next'[p] = 1 /\ pc'[p] = "make_staging" /\ tgt' = tgt
          /\ \A q \in Process \ {p} : SameRun(q)
      BY <1>1, <1>5, Moves DEF Inv2
    <2>2. QED
      BY <1>1, <1>2, <1>5, <2>1, BeforeSteps, StepOK
  <1>6. QED
    BY <1>1, <1>3, <1>4, <1>5

LEMMA GiveUpInv2 ==
    ASSUME Inv2, Inv1', NEW p \in Process, RemoveFails(p) \/ CallFails(p) \/ Crash(p)
    PROVE  Inv2'
  <1>1. /\ Live(p) /\ UNCHANGED <<target, staging>>
        /\ open' = open \/ open' = [open EXCEPT ![p] = "closed"]
        /\ Return(p) \/ Goto(p, "aborting")
    BY DEF RemoveFails, CallFails, Crash, Live
  <1>2. WorkspaceComplete'
    BY <1>1, StillComplete DEF Inv2
  <1>3. /\ pc'[p] \in {"idle", "aborting"} /\ \A q \in Process \ {p} : SameRun(q)
        /\ Live(p)' => tgt'[p] = tgt[p]
    BY <1>1, Leaves, Moves DEF Inv2
  <1>4. QED
    BY <1>1, <1>2, <1>3, NothingToKeep, StepOK

-----------------------------------------------------------------------------
\* The point of the run that follows, from what its staging directory holds.
LEMMA AtSteps ==
    ASSUME NEW p \in Process, pc'[p] = "steps",
           staging'[tgt'[p]] # Absent,
           Built(staging'[tgt'[p]].nodes, plan'[p], next'[p] - 1)
    PROVE  RunOK(p)'
  BY DEF RunOK, Has

LEMMA AtWriting ==
    ASSUME NEW p \in Process, pc'[p] = "writing", open'[p] = "staging",
           staging'[tgt'[p]] # Absent,
           Built([staging'[tgt'[p]].nodes EXCEPT ![Step(p)'.path] = Step(p)'.node],
                 plan'[p], next'[p])
    PROVE  RunOK(p)'
  BY DEF RunOK, HasButOne

LEMMA AtRecord ==
    ASSUME NEW p \in Process, pc'[p] \in {"recording", "landing"},
           staging'[tgt'[p]] # Absent,
           Built(staging'[tgt'[p]].nodes, plan'[p], Len(plan'[p])),
           pc'[p] = "recording" => open'[p] = "staging",
           pc'[p] = "landing" => staging'[tgt'[p]].meta = Rows(plan'[p])
    PROVE  RunOK(p)'
  BY DEF RunOK, Has, Rows, HashOf, FileSteps

\* Making directories on the way makes no workspace.
LEMMA ParentsComplete ==
    ASSUME Inv2, NEW t \in Target, target' = WithParents(t)
    PROVE  WorkspaceComplete'
  BY ParentsType, StillComplete DEF Inv2, Inv1, TypeOK

LEMMA MakeStagingInv2 ==
    ASSUME Inv2, Inv1', NEW p \in Process, MakeStaging(p) PROVE Inv2'
  <1>1. /\ pc[p] = "make_staging" /\ Live(p) /\ open' = open
        /\ tgt[p] \in Target /\ Outer[tgt[p]] \in SUBSET Target
        /\ DiskType /\ Inv1
    BY TargetAssumption DEF MakeStaging, Live, Inv2, Inv1, TypeOK, RunType
  <1>2. next[p] = 1 /\ staging[tgt[p]] = Absent
    BY <1>1 DEF Inv2, RunOK
  <1>3. CASE /\ target'  = WithParents(tgt[p])
             /\ staging' = [staging EXCEPT ![tgt[p]] = StagingRoot(tgt[p])]
             /\ Goto(p, "steps")
    <2>1. /\ staging'[tgt[p]] = EmptyTree
          /\ \A u \in Target \ {tgt[p]} : staging'[u] = staging[u]
      BY <1>1, <1>2, <1>3 DEF StagingRoot, DiskType
    <2>2. /\ pc'[p] = "steps" /\ tgt' = tgt /\ next'[p] - 1 = 0
          /\ \A q \in Process \ {p} : SameRun(q)
      BY <1>1, <1>2, <1>3, Moves
    <2>3. RunOK(p)'
      BY <2>1, <2>2, EmptyBuilt, MarkFacts, AtSteps
    <2>4. WorkspaceComplete'
      BY <1>1, <1>3, ParentsComplete
    <2>5. QED
      BY <1>1, <2>1, <2>2, <2>3, <2>4, StepOK
  <1>4. ASSUME NEW made \in SUBSET Outer[tgt[p]], target' = Made(made),
               staging' = staging, Return(p)
        PROVE  Inv2'
    <2>1. WorkspaceComplete'
      BY <1>1, <1>4, MadeType, StillComplete DEF Inv2
    <2>2. QED
      BY <1>1, <1>4, <2>1, Leaves, NothingToKeep, StepOK
  <1>5. QED
    BY <1>3, <1>4 DEF MakeStaging

\* What a process at a step of its plan finds and creates.
LEMMA CreateBuilds ==
    ASSUME Inv2, NEW p \in Process, pc[p] = "steps", next[p] <= Len(plan[p]),
           NEW node \in Content \cup {Dir, Truncated},
           target' = WithParents(tgt[p]),
           staging' = Created(tgt[p], Step(p).path, node)
    PROVE  /\ Live(p) /\ WorkspaceComplete'
           /\ staging'[tgt[p]] # Absent
           /\ \A u \in Target \ {tgt[p]} : staging'[u] = staging[u]
           /\ staging'[tgt[p]].nodes = Put(staging[tgt[p]].nodes, Step(p).path, node)
           /\ Built(Put(staging[tgt[p]].nodes, Step(p).path, Step(p).node), plan[p], next[p])
  <1>1. Live(p) /\ tgt[p] \in Target /\ Inv1 /\ RunType /\ DiskType
    BY DEF Live, Inv2, Inv1, TypeOK, RunType
  <1>2. staging[tgt[p]] # Absent /\ Built(staging[tgt[p]].nodes, plan[p], next[p] - 1)
    BY DEF Inv2, RunOK, Has
  <1>3. /\ staging'[tgt[p]] # Absent
        /\ staging'[tgt[p]].nodes = Put(StagingRoot(tgt[p]).nodes, Step(p).path, node)
    BY <1>1, CreateAtStep
  <1>4. StagingRoot(tgt[p]) = staging[tgt[p]]
    BY <1>1, <1>2, RootType
  <1>5. plan[p] \in Seq(Steps) /\ next[p] \in 1 .. Len(plan[p])
    BY <1>1, StepType, PlansAssumption
  <1>6. Built(Put(staging[tgt[p]].nodes, plan[p][next[p]].path, plan[p][next[p]].node),
              plan[p], next[p])
    BY <1>2, <1>5, PutBuilds
  <1>7. \A u \in Target \ {tgt[p]} : staging'[u] = staging[u]
    BY <1>1 DEF DiskType, Created
  <1>8. WorkspaceComplete'
    BY <1>1, ParentsComplete
  <1>9. QED
    BY <1>1, <1>3, <1>4, <1>6, <1>7, <1>8 DEF Step

LEMMA MakeDirectoryInv2 ==
    ASSUME Inv2, Inv1', NEW p \in Process, MakeDirectory(p) PROVE Inv2'
  <1>1. /\ pc[p] = "steps" /\ next[p] <= Len(plan[p]) /\ Step(p).node = Dir
        /\ target' = WithParents(tgt[p])
        /\ staging' = Created(tgt[p], Step(p).path, Dir)
        /\ next' = [next EXCEPT ![p] = next[p] + 1]
        /\ UNCHANGED <<pc, tgt, plan, open>>
    BY DEF MakeDirectory, NextStep
  <1>2. /\ Live(p) /\ WorkspaceComplete'
        /\ staging'[tgt[p]] # Absent
        /\ \A u \in Target \ {tgt[p]} : staging'[u] = staging[u]
        /\ staging'[tgt[p]].nodes = Put(staging[tgt[p]].nodes, Step(p).path, Dir)
        /\ Built(Put(staging[tgt[p]].nodes, Step(p).path, Step(p).node), plan[p], next[p])
    BY <1>1, CreateBuilds
  <1>3. next'[p] - 1 = next[p] /\ \A q \in Process \ {p} : SameRun(q)
    BY <1>1 DEF SameRun, Inv2, Inv1, TypeOK, RunType
  <1>4. RunOK(p)'
    BY <1>1, <1>2, <1>3, AtSteps
  <1>5. QED
    BY <1>1, <1>2, <1>3, <1>4, StepOK

LEMMA OpenFileInv2 ==
    ASSUME Inv2, Inv1', NEW p \in Process, OpenFile(p) PROVE Inv2'
  <1>1. /\ pc[p] = "steps" /\ next[p] <= Len(plan[p])
        /\ target' = WithParents(tgt[p])
        /\ staging' = Created(tgt[p], Step(p).path, Truncated)
        /\ open' = [open EXCEPT ![p] = "staging"]
        /\ Goto(p, "writing")
    BY DEF OpenFile
  <1>2. /\ Live(p) /\ WorkspaceComplete'
        /\ staging'[tgt[p]] # Absent
        /\ \A u \in Target \ {tgt[p]} : staging'[u] = staging[u]
        /\ staging'[tgt[p]].nodes = Put(staging[tgt[p]].nodes, Step(p).path, Truncated)
        /\ Built(Put(staging[tgt[p]].nodes, Step(p).path, Step(p).node), plan[p], next[p])
    BY <1>1, CreateBuilds
  <1>3. [Put(staging[tgt[p]].nodes, Step(p).path, Truncated) EXCEPT ![Step(p).path] = Step(p).node]
          = Put(staging[tgt[p]].nodes, Step(p).path, Step(p).node)
    BY DEF Put
  <1>4. /\ pc'[p] = "writing" /\ tgt' = tgt /\ plan' = plan /\ next' = next
        /\ Step(p)' = Step(p)
        /\ \A q \in Process \ {p} : SameRun(q)
    BY <1>1, Moves DEF Inv2
  <1>5. open'[p] = "staging"
    BY <1>1 DEF Inv2, Inv1, TypeOK, RunType
  <1>6. RunOK(p)'
    BY <1>2, <1>3, <1>4, <1>5, AtWriting
  <1>7. QED
    BY <1>2, <1>4, <1>6, StepOK

LEMMA WriteFileInv2 ==
    ASSUME Quiet, Inv2, Inv1', NEW p \in Process, WriteFile(p) PROVE Inv2'
  <1> DEFINE t == tgt[p]
             x == Step(p).path
             c == Step(p).node
  <1>1. /\ pc[p] = "writing" /\ HasButOne(p) /\ open[p] = "staging"
        /\ next' = [next EXCEPT ![p] = next[p] + 1]
        /\ open' = [open EXCEPT ![p] = "closed"]
        /\ pc'   = [pc EXCEPT ![p] = "steps"]
        /\ UNCHANGED <<tgt, plan>>
    BY DEF WriteFile, NextStep, Inv2, RunOK
  <1>2. /\ staging' = Written(staging, t, x, c) /\ target' = target
        /\ Flushed(c) = {c}
    BY <1>1 DEF WriteFile, Flushed, Quiet
  <1>3. /\ Live(p) /\ t \in Target /\ x \in Path /\ c \in Content
        /\ staging \in [Target -> Tree \cup {Absent}] /\ staging[t] # Absent
    <2>1. Live(p) /\ next[p] <= Len(plan[p]) /\ c # Dir /\ RunType /\ DiskType
      BY <1>1 DEF Live, Inv2, Inv1, TypeOK, OpenOK, OpenOf
    <2>2. QED
      BY <1>1, <2>1, StepType DEF HasButOne, RunType, DiskType
  <1>4. Built([staging[t].nodes EXCEPT ![x] = c], plan[p], next[p])
    BY <1>1 DEF HasButOne
  <1> HIDE DEF t, x, c
  <1>5. /\ staging'[t].nodes = [staging[t].nodes EXCEPT ![x] = c]
        /\ staging'[t] # Absent
        /\ \A u \in Target \ {t} : staging'[u] = staging[u]
    BY <1>2, <1>3, WriteTree, SortAssumption
  <1>6. next'[p] - 1 = next[p] /\ \A q \in Process \ {p} : SameRun(q)
    BY <1>1 DEF SameRun, Inv2, Inv1, TypeOK, RunType
  <1>7. pc'[p] = "steps" /\ tgt'[p] = t /\ plan'[p] = plan[p]
    BY <1>1 DEF Inv2, Inv1, TypeOK, RunType, t
  <1>8. RunOK(p)'
    BY <1>4, <1>5, <1>6, <1>7, AtSteps
  <1>9. WorkspaceComplete'
    BY <1>2, StillComplete DEF Inv2
  <1>10. QED
    BY <1>3, <1>5, <1>6, <1>7, <1>8, <1>9, StepOK DEF t

LEMMA OpenRecordInv2 ==
    ASSUME Inv2, Inv1', NEW p \in Process, OpenRecord(p) PROVE Inv2'
  <1> DEFINE t == tgt[p]
             root == StagingRoot(t)
  <1>1. /\ pc[p] = "steps" /\ next[p] > Len(plan[p]) /\ target' = WithParents(t)
        /\ staging' = WithRecord(staging, t, root, Truncated)
        /\ open' = [open EXCEPT ![p] = "staging"]
        /\ Goto(p, "recording")
    BY DEF OpenRecord, WithRecord
  <1>2. /\ Live(p) /\ t \in Target /\ DiskType /\ plan[p] \in Seq(Steps)
        /\ next[p] \in 1 .. Len(plan[p]) + 1
    BY <1>1, PlansAssumption DEF Live, Inv2, Inv1, TypeOK, RunType
  <1>3. next[p] - 1 = Len(plan[p])
    BY <1>1, <1>2
  <1>4. Has(p, next[p] - 1)
    BY <1>1 DEF Inv2, RunOK
  <1>5. staging[t] # Absent /\ Built(staging[t].nodes, plan[p], Len(plan[p]))
    BY <1>3, <1>4 DEF Has
  <1>6. root \in Tree /\ root = staging[t]
    BY <1>2, <1>5, RootType
  <1>7. /\ pc'[p] = "recording" /\ tgt' = tgt /\ plan' = plan
        /\ \A q \in Process \ {p} : SameRun(q)
    BY <1>1, Moves DEF Inv2
  <1>8. WorkspaceComplete'
    BY <1>1, <1>2, ParentsComplete
  <1>9. tgt'[p] = t /\ open'[p] = "staging"
    BY <1>1, <1>7 DEF Inv2, Inv1, TypeOK, RunType
  <1> HIDE DEF t, root
  <1>10. /\ staging'[t] # Absent /\ staging'[t].nodes = staging[t].nodes
         /\ \A u \in Target \ {t} : staging'[u] = staging[u]
    BY <1>1, <1>2, <1>6, RecordTree DEF DiskType
  <1>11. RunOK(p)'
    BY <1>5, <1>7, <1>9, <1>10, AtRecord
  <1>12. QED
    BY <1>2, <1>7, <1>8, <1>9, <1>10, <1>11, StepOK DEF t

LEMMA WriteRecordInv2 ==
    ASSUME Quiet, Inv2, Inv1', NEW p \in Process, WriteRecord(p) PROVE Inv2'
  <1> DEFINE t == tgt[p]
             rows == Rows(plan[p])
  <1>1. /\ pc[p] = "recording" /\ Has(p, Len(plan[p])) /\ open[p] = "staging"
        /\ open' = [open EXCEPT ![p] = "closed"]
        /\ Goto(p, "landing")
    BY DEF WriteRecord, Inv2, RunOK
  <1>2. staging[t] # Absent /\ Built(staging[t].nodes, plan[p], Len(plan[p]))
    BY <1>1 DEF Has
  <1>3. staging' = WithRecord(staging, t, staging[t], rows) /\ target' = target
    BY <1>1 DEF WriteRecord, Flushed, Quiet, Recorded, WithRecord
  <1>4. /\ Live(p) /\ t \in Target /\ DiskType /\ plan[p] \in Plans
    BY <1>1 DEF Live, Inv2, Inv1, TypeOK, RunType
  <1>5. rows \in {Truncated} \cup {Rows(pl) : pl \in Plans} /\ staging[t] \in Tree
    BY <1>2, <1>4 DEF DiskType
  <1>6. /\ pc'[p] = "landing" /\ tgt' = tgt /\ plan' = plan
        /\ \A q \in Process \ {p} : SameRun(q)
    BY <1>1, Moves DEF Inv2
  <1>7. WorkspaceComplete'
    BY <1>3, StillComplete DEF Inv2
  <1>8. tgt'[p] = t /\ rows = Rows(plan'[p])
    BY <1>6
  <1> HIDE DEF t, rows
  <1>9. /\ staging'[t] # Absent /\ staging'[t].nodes = staging[t].nodes
        /\ staging'[t].meta = rows
        /\ \A u \in Target \ {t} : staging'[u] = staging[u]
    BY <1>3, <1>4, <1>5, RecordTree DEF DiskType
  <1>10. RunOK(p)'
    BY <1>2, <1>6, <1>8, <1>9, AtRecord
  <1>11. QED
    BY <1>4, <1>6, <1>7, <1>8, <1>9, <1>10, StepOK DEF t

LEMMA LandInv2 == ASSUME Inv2, Inv1', NEW p \in Process, Land(p) PROVE Inv2'
  <1>1. /\ pc[p] = "landing" /\ Live(p) /\ Return(p)
        /\ target'  = [target EXCEPT ![tgt[p]] = staging[tgt[p]]]
        /\ staging' = [staging EXCEPT ![tgt[p]] = Absent]
        /\ open' = [q \in Process |-> IF tgt[q] = tgt[p] /\ open[q] = "staging"
                                      THEN "target" ELSE open[q]]
    BY DEF Land, Moved, Live
  <1>2. Has(p, Len(plan[p])) /\ staging[tgt[p]].meta = Rows(plan[p])
    BY <1>1 DEF Inv2, RunOK
  <1>3. tgt[p] \in Target /\ DiskType /\ RunType /\ plan[p] \in Plans
    BY <1>1 DEF Inv2, Inv1, TypeOK, RunType
  <1>4. staging[tgt[p]] \in Workspaces
    BY <1>2, <1>3 DEF Has, DiskType, Workspaces
  <1>5. WorkspaceComplete'
    <2>1. Workspaces' = Workspaces
      BY DEF Workspaces, Tree, Built, Rows, HashOf, FileSteps
    <2>2. ASSUME NEW u \in Target, IsWorkspace(u)' PROVE target'[u] \in Workspaces
      BY <1>1, <1>3, <1>4, <2>2 DEF IsWorkspace, Inv2, WorkspaceComplete, DiskType
    <2>3. QED
      BY <2>1, <2>2 DEF WorkspaceComplete
  <1>6. ASSUME NEW q \in Process \ {p} PROVE SameRun(q)
    <2>1. Live(q) => tgt[q] # tgt[p]
      BY <1>1 DEF Inv2, Exclusive
    <2>2. ~Live(q) => open[q] = "closed"
      BY ClosedOpen DEF Live, Inv2
    <2>3. open'[q] = open[q]
      BY <1>1, <2>1, <2>2
    <2>4. QED
      BY <1>1, <1>3, <2>3 DEF Return, RunType, SameRun
  <1>7. pc'[p] = "idle" /\ ~Live(p)'
    BY <1>1, <1>3 DEF Return, RunType, Live
  <1>8. \A u \in Target \ {tgt[p]} : staging'[u] = staging[u]
    BY <1>1, <1>3 DEF DiskType
  <1>9. QED
    BY <1>1, <1>5, <1>6, <1>7, <1>8, NothingToKeep, StepOK

LEMMA RemoveEntryInv2 ==
    ASSUME Inv2, Inv1', NEW p \in Process, RemoveEntry(p) PROVE Inv2'
  <1>1. /\ pc[p] \in {"clearing", "aborting"} /\ Live(p)
        /\ UNCHANGED <<target, pc, tgt, plan, next>>
    BY DEF RemoveEntry, Live
  <1>2. \A q \in Process : open[q] = "staging" /\ tgt[q] = tgt[p]
                             => pc[q] \notin {"writing", "recording"}
    BY <1>1 DEF Inv2, Exclusive, Live
  <1>3. open' = open
    <2>1. open' \in [Process -> OpenValues]
      BY DEF Inv1, TypeOK, RunType, OpenValues
    <2>2. \A q \in Process : open'[q] = open[q]
      BY <1>2 DEF RemoveEntry
    <2>3. QED
      BY <2>1, <2>2 DEF Inv2, Inv1, TypeOK, RunType
  <1>4. \A u \in Target \ {tgt[p]} : staging'[u] = staging[u]
    BY DEF RemoveEntry, Inv2, Inv1, TypeOK, DiskType
  <1>5. RunOK(p)'
    BY <1>1 DEF RunOK, Inv2
  <1>6. WorkspaceComplete'
    BY <1>1, StillComplete DEF Inv2
  <1>7. QED
    BY <1>1, <1>3, <1>4, <1>5, <1>6, StepOK DEF SameRun

LEMMA RemoveRootInv2 ==
    ASSUME Inv2, Inv1', NEW p \in Process, RemoveRoot(p) PROVE Inv2'
  <1>1. /\ pc[p] \in {"clearing", "aborting"} /\ Live(p) /\ UNCHANGED <<target, open>>
        /\ staging' = [staging EXCEPT ![tgt[p]] = Absent]
        /\ \/ pc[p] = "clearing" /\ Goto(p, "make_staging")
           \/ Return(p)
    BY DEF RemoveRoot, AfterRemoval, Live
  <1>2. tgt[p] \in Target /\ DiskType
    BY <1>1 DEF Inv2, Inv1, TypeOK, RunType
  <1>3. staging'[tgt[p]] = Absent /\ \A u \in Target \ {tgt[p]} : staging'[u] = staging[u]
    BY <1>1, <1>2 DEF DiskType
  <1>4. WorkspaceComplete'
    BY <1>1, StillComplete DEF Inv2
  <1>5. CASE pc[p] = "clearing" /\ Goto(p, "make_staging")
    <2>1. /\ pc'[p] = "make_staging" /\ tgt' = tgt /\ next' = next
          /\ \A q \in Process \ {p} : SameRun(q)
      BY <1>1, <1>5, Moves DEF Inv2
    <2>2. next[p] = 1
      BY <1>5 DEF Inv2, RunOK
    <2>3. RunOK(p)'
      BY <1>3, <2>1, <2>2, BeforeSteps
    <2>4. QED
      BY <1>1, <1>3, <1>4, <2>1, <2>3, StepOK
  <1>6. CASE Return(p)
    BY <1>1, <1>3, <1>4, <1>6, Leaves, NothingToKeep, StepOK DEF Inv2
  <1>7. QED
    BY <1>1, <1>5, <1>6

\* The user works beside the runs.
LEMMA UserOK ==
    ASSUME Inv2, Inv1', \A q \in Process : SameRun(q),
           \A q \in Process : Live(q) => staging'[tgt[q]] = staging[tgt[q]],
           WorkspaceComplete'
    PROVE  Inv2'
  <1>1. \A q \in Process : RunOK(q)'
    BY OthersOK DEF Inv2
  <1>2. Exclusive'
    BY DEF Inv2, Exclusive, SameRun, Live
  <1>3. QED
    BY <1>1, <1>2 DEF Inv2

LEMMA UserCreateInv2 == ASSUME Inv2, Inv1', NEW t \in Target, UserCreate(t) PROVE Inv2'
  <1>1. PICK tree \in {EmptyTree, UserTree} : target' = [WithParents(t) EXCEPT ![t] = tree]
    BY DEF UserCreate
  <1>2. UNCHANGED <<staging, pc, tgt, plan, next, open>>
    BY DEF UserCreate
  <1>3. WorkspaceComplete'
    BY <1>1, ParentsType, StillComplete DEF Inv2, Inv1, TypeOK
  <1>4. QED
    BY <1>2, <1>3, UserOK DEF SameRun

\* On a quiet host the user deletes nothing that a live run works in.
LEMMA DeletesNothingLive ==
    ASSUME Quiet, NEW ts, MayDelete(ts), NEW q \in Process, Live(q)
    PROVE  tgt[q] \notin ts
  BY DEF Quiet, MayDelete

LEMMA UserRemoveInv2 ==
    ASSUME Quiet, Inv2, Inv1', NEW t \in Target, UserRemove(t) PROVE Inv2'
  <1>1. /\ MayDelete(Inside(t))
        /\ \A u \in Target : target'[u] \in {target[u], Absent}
        /\ \A u \in Target \ Inside(t) : staging'[u] = staging[u]
        /\ UNCHANGED <<pc, tgt, plan, next>>
    BY DEF UserRemove
  <1>2. ASSUME NEW q \in Process PROVE open'[q] = open[q]
    <2>1. CASE open[q] = "closed"
      BY <2>1 DEF UserRemove
    <2>2. CASE open[q] # "closed"
      <3>1. pc[q] \in {"writing", "recording"} /\ Live(q)
        BY <2>2, ClosedOpen DEF Inv2, Live
      <3>2. tgt[q] \notin Inside(t) /\ open[q] = "staging"
        BY <1>1, <3>1, DeletesNothingLive DEF Inv2, RunOK
      <3>3. QED
        BY <3>2 DEF UserRemove
    <2>3. QED
      BY <2>1, <2>2
  <1>3. \A q \in Process : Live(q) => tgt[q] \in Target \ Inside(t)
    BY <1>1, DeletesNothingLive DEF Inv2, Inv1, TypeOK, RunType
  <1>4. WorkspaceComplete'
    BY <1>1, StillComplete DEF Inv2
  <1>5. QED
    BY <1>1, <1>2, <1>3, <1>4, UserOK DEF SameRun

LEMMA UserSweepInv2 ==
    ASSUME Quiet, Inv2, Inv1', NEW t \in Target, UserSweep(t) PROVE Inv2'
  <1>1. /\ MayDelete({t}) /\ UNCHANGED <<target, pc, tgt, plan, next>>
        /\ \A u \in Target \ {t} : staging'[u] = staging[u]
    BY DEF UserSweep, Inv2, Inv1, TypeOK, DiskType
  <1>2. \A q \in Process : Live(q) => tgt[q] \in Target \ {t}
    BY <1>1, DeletesNothingLive DEF Inv2, Inv1, TypeOK, RunType
  <1>3. ASSUME NEW q \in Process PROVE open'[q] = open[q]
    <2>1. open[q] = "staging" => tgt[q] # t
      BY <1>2, ClosedOpen DEF Live, Inv2
    <2>2. QED
      BY <2>1 DEF UserSweep
  <1>4. WorkspaceComplete'
    BY <1>1, StillComplete DEF Inv2
  <1>5. QED
    BY <1>1, <1>2, <1>3, <1>4, UserOK DEF SameRun

LEMMA StutterInv2 == ASSUME Inv2, Inv1', UNCHANGED vars PROVE Inv2'
  <1>1. WorkspaceComplete'
    BY StillComplete DEF vars, Inv2
  <1>2. QED
    BY <1>1, UserOK DEF vars, SameRun

LEMMA NextInv2 == ASSUME Quiet PROVE Inv2 /\ [Next]_vars => Inv2'
  <1> SUFFICES ASSUME Inv2, [Next]_vars PROVE Inv2'
    OBVIOUS
  <1>1. Inv1'
    BY NextInv1 DEF Inv2
  <1>2. ASSUME NEW p \in Process, RunStep(p) PROVE Inv2'
    BY <1>1, <1>2, CheckInv2, GiveUpInv2, MakeStagingInv2, MakeDirectoryInv2, OpenFileInv2,
       WriteFileInv2, OpenRecordInv2, WriteRecordInv2, LandInv2, RemoveEntryInv2,
       RemoveRootInv2, ThrowIsCrash DEF RunStep
  <1>3. ASSUME NEW p \in Process, Start(p) \/ Crash(p) PROVE Inv2'
    BY <1>1, <1>3, StartInv2, GiveUpInv2
  <1>4. ASSUME NEW t \in Target, UserCreate(t) \/ UserRemove(t) \/ UserSweep(t) PROVE Inv2'
    BY <1>1, <1>4, UserCreateInv2, UserRemoveInv2, UserSweepInv2
  <1>5. QED
    BY <1>1, <1>2, <1>3, <1>4, StutterInv2 DEF Next

\* On a quiet host whatever carries a metadata record is complete, for any
\* number of runs, whatever fails and whoever is killed (apply(): "either the
\* workspace exists complete and user-owned, or it does not exist at all").
THEOREM NeverIncomplete == ASSUME Quiet PROVE Spec => []WorkspaceComplete
  <1>1. Inv2 => WorkspaceComplete
    BY DEF Inv2
  <1>2. Inv2 /\ [Next]_vars => Inv2'
    BY NextInv2
  <1>3. QED
    BY <1>1, <1>2, InitInv2, PTL DEF Spec

-----------------------------------------------------------------------------
\* No plan has one path for a directory and for a file.  Such a plan cannot be
\* executed (Gen_collide.cfg), so nothing of it ever lands.
OneKind ==
    \A pl \in Plans : \A i, j \in 1 .. Len(pl) :
        pl[i].path = pl[j].path /\ pl[i].node # Dir => pl[j].node # Dir

LEMMA CompleteDescribed ==
    ASSUME OneKind, NEW pl \in Plans, NEW nodes, Built(nodes, pl, Len(pl))
    PROVE  /\ Rows(pl) # Truncated
           /\ \A i \in SingleRows(Rows(pl)) : nodes[Rows(pl)[i].path] = Rows(pl)[i].sha256
  <1>1. Rows(pl) # Truncated /\ DOMAIN Rows(pl) = FileSteps(pl)
    BY SortAssumption DEF Rows
  <1>2. ASSUME NEW i \in SingleRows(Rows(pl))
        PROVE  nodes[Rows(pl)[i].path] = Rows(pl)[i].sha256
    <2> DEFINE x == pl[i].path
               at == {j \in 1 .. Len(pl) : pl[j].path = x}
    <2>1. /\ pl \in Seq(Steps) /\ i \in FileSteps(pl) /\ i \in 1 .. Len(pl)
          /\ pl[i].node # Dir /\ Len(pl) \in Nat
      BY <1>1, PlansAssumption DEF SingleRows, FileSteps
    <2>2. x \in Path
      <3>1. pl[i] \in Steps
        BY <2>1
      <3>2. QED
        BY <3>1 DEF Steps
    <2>3. \A j \in at : j = i
      <3>1. \A j \in FileSteps(pl) : Rows(pl)[j].path = pl[j].path
        BY DEF Rows
      <3>2. ASSUME NEW j \in at PROVE j = i
        <4>1. j \in FileSteps(pl)
          BY <2>1 DEF OneKind, FileSteps
        <4>2. QED
          BY <1>1, <2>1, <3>1, <4>1 DEF SingleRows
      <3>3. QED
        BY <3>2
    <2>4. i \in at /\ \A j \in at : j <= i
      BY <2>1, <2>3
    <2>5. nodes[x] = pl[i].node
      BY <2>2, <2>4 DEF Built
    <2>6. \E k \in FileSteps(pl) : pl[k].path = x /\ \A j \in FileSteps(pl) : pl[j].path = x => k <= j
      BY <2>1, <2>3 DEF FileSteps
    <2>7. HashOf(pl, x) = pl[i].node
      <3> DEFINE k == CHOOSE k \in FileSteps(pl) :
                        pl[k].path = x /\ \A j \in FileSteps(pl) : pl[j].path = x => k <= j
      <3>1. k \in FileSteps(pl) /\ pl[k].path = x
        BY <2>6
      <3>2. k = i
        BY <2>3, <3>1 DEF FileSteps
      <3>3. HashOf(pl, x) = pl[k].node
        BY DEF HashOf
      <3>4. QED
        BY <3>2, <3>3
    <2>8. Rows(pl)[i].path = x /\ Rows(pl)[i].sha256 = HashOf(pl, x)
      BY <2>1 DEF Rows
    <2>9. QED
      BY <2>5, <2>7, <2>8
  <1>3. QED
    BY <1>1, <1>2

\* On a quiet host the record of a workspace says of every file that its plan
\* writes once what is in it (apply(), provenance).
THEOREM AlwaysDescribed ==
    ASSUME Quiet, OneKind PROVE Spec => []RecordDescribesDisk
  <1>1. Inv2 => RecordDescribesDisk
    <2> SUFFICES ASSUME Inv2, NEW t \in Target, IsWorkspace(t)
                 PROVE  /\ target[t].meta # Truncated
                        /\ \A i \in SingleRows(target[t].meta) :
                             target[t].nodes[target[t].meta[i].path] = target[t].meta[i].sha256
      BY DEF RecordDescribesDisk
    <2>1. target[t] \in Workspaces
      BY DEF Inv2, WorkspaceComplete
    <2>2. PICK pl \in Plans : /\ Built(target[t].nodes, pl, Len(pl))
                              /\ target[t].meta = Rows(pl)
      BY <2>1 DEF Workspaces
    <2>3. QED
      BY <2>2, CompleteDescribed
  <1>2. Inv2 /\ [Next]_vars => Inv2'
    BY NextInv2
  <1>3. QED
    BY <1>1, <1>2, InitInv2, PTL DEF Spec

-----------------------------------------------------------------------------
(***************************************************************************)
(* The refinement: every step of a run is a step of module Landing's       *)
(* generator at the run's location, every step of the user a step of its   *)
(* user, and the others leave the output locations alone.                  *)
(***************************************************************************)

LEMMA MadeLands == ASSUME NEW made PROVE Made(made) = Lands!Made(made)
  BY DEF Made, Lands!Made

\* Directories on the way to an output location.
LEMMA ParentsLand ==
    ASSUME NEW t \in Target, target' = WithParents(t)
    PROVE  Lands!MakeDirectories(t)
  BY TargetAssumption, MadeLands DEF WithParents, Lands!MakeDirectories

LEMMA RunLands ==
    ASSUME Inv2, NEW p \in Process, RunStep(p)
    PROVE  tgt[p] \in Target /\ [Lands!Generate(tgt[p])]_target
  <1>1. Inv1 /\ DiskType /\ RunType
    BY DEF Inv2, Inv1, TypeOK
  <1>2. tgt[p] \in Target
    BY <1>1 DEF RunType, Live, RunStep, CheckTarget, CheckNested, CheckStaging, MakeStaging,
       MakeDirectory, OpenFile, WriteFile, OpenRecord, WriteRecord, Land, CallFails,
       CallThrows, RemoveEntry, RemoveRoot, RemoveFails
  <1>3. ASSUME MakeStaging(p) PROVE Lands!Generate(tgt[p])
    <2>1. ASSUME NEW made \in SUBSET Outer[tgt[p]], target' = Made(made)
          PROVE  Lands!MakeDirectories(tgt[p])
      BY <2>1, MadeLands DEF Lands!MakeDirectories
    <2>2. QED
      BY <1>2, <1>3, <2>1, ParentsLand DEF MakeStaging, Lands!Generate
  <1>4. ASSUME MakeDirectory(p) \/ OpenFile(p) \/ OpenRecord(p) PROVE Lands!Generate(tgt[p])
    <2>1. target' = WithParents(tgt[p])
      BY <1>4 DEF MakeDirectory, OpenFile, OpenRecord
    <2>2. QED
      BY <1>2, <2>1, ParentsLand DEF Lands!Generate
  <1>5. ASSUME WriteFile(p) \/ WriteRecord(p) PROVE target' = target
    BY <1>5 DEF WriteFile, WriteRecord, Inv2, RunOK
  <1>6. ASSUME Land(p) PROVE Lands!Generate(tgt[p])
    <2>1. /\ target[tgt[p]] \in {Absent, EmptyTree}
          /\ target' = [target EXCEPT ![tgt[p]] = staging[tgt[p]]]
          /\ Has(p, Len(plan[p])) /\ staging[tgt[p]].meta = Rows(plan[p])
          /\ plan[p] \in Plans
      BY <1>1, <1>6 DEF Land, Moved, Vacant, Occupied, RunType, Live, Inv2, RunOK
    <2>2. staging[tgt[p]] \in Workspaces
      BY <1>1, <1>2, <2>1 DEF Has, DiskType, Workspaces
    <2>3. QED
      BY <1>1, <1>2, <2>1, <2>2 DEF Lands!Land, Lands!Generate, DiskType
  <1>7. ASSUME CheckTarget(p) \/ CheckNested(p) \/ CheckStaging(p) \/ CallFails(p)
                 \/ CallThrows(p) \/ RemoveEntry(p) \/ RemoveRoot(p) \/ RemoveFails(p)
        PROVE  target' = target
    BY <1>7 DEF CheckTarget, CheckNested, CheckStaging, CallFails, CallThrows, RemoveEntry,
       RemoveRoot, RemoveFails
  <1>8. QED
    BY <1>2, <1>3, <1>4, <1>5, <1>6, <1>7 DEF RunStep

LEMMA NextLands == Inv2 /\ [Next]_vars => [Lands!Next]_target
  <1> SUFFICES ASSUME Inv2, [Next]_vars PROVE [Lands!Next]_target
    OBVIOUS
  <1>1. ASSUME NEW p \in Process, RunStep(p) PROVE [Lands!Next]_target
    BY <1>1, RunLands DEF Lands!Next
  <1>2. ASSUME NEW t \in Target, UserCreate(t) PROVE Lands!Next
    <2>1. WithParents(t) = Lands!Made(Outer[t])
      BY MadeLands DEF WithParents
    <2>2. Lands!UserCreate(t)
      BY <1>2, <2>1 DEF UserCreate, Lands!UserCreate
    <2>3. QED
      BY <2>2 DEF Lands!Next
  <1>3. ASSUME NEW t \in Target, UserRemove(t) PROVE Lands!Next
    <2>1. \A u \in Target : u \in Inside(t) \cup {t} <=> t \in Outer[u] \cup {u}
      BY DEF Inside
    <2>2. Lands!UserRemove(t)
      BY <1>3, <2>1 DEF UserRemove, Lands!UserRemove
    <2>3. QED
      BY <2>2 DEF Lands!Next
  <1>4. ASSUME NEW p \in Process, Start(p) \/ Crash(p) PROVE target' = target
    BY <1>4 DEF Start, Crash
  <1>5. ASSUME NEW t \in Target, UserSweep(t) PROVE target' = target
    BY <1>5 DEF UserSweep
  <1>6. QED
    BY <1>1, <1>2, <1>3, <1>4, <1>5 DEF Next, vars

\* On a quiet host apply() implements the promise of module Landing: a
\* workspace appears in one step, complete, where there was nothing or an empty
\* directory (the staging directory and the one rename), and a run does nothing
\* else to output locations but make the directories above its own.
THEOREM ImplementsLanding == ASSUME Quiet PROVE Spec => LandsAtOnce
  <1> DEFINE Ours == \A p \in Process : RunStep(p) => [Lands!Generate(tgt[p])]_target
  <1>1. Init => Lands!Init
    BY DEF Init, Lands!Init
  <1>2. Inv2 /\ [Next]_vars => Inv2'
    BY NextInv2
  <1>3. Inv2 /\ [Next]_vars => [Lands!Next]_target
    BY NextLands
  <1>4. Inv2 /\ [Next]_vars => [Ours]_vars
    BY RunLands
  <1>5. QED
    BY <1>1, <1>2, <1>3, <1>4, InitInv2, PTL DEF Spec, LandsAtOnce, Lands!Spec

-----------------------------------------------------------------------------
(***************************************************************************)
(* Third inductive invariant, where no two runs are nested.  A run looks   *)
(* for a workspace above its location once, long before it lands: what it  *)
(* saw must still be so, and nothing may lie below a vacant location.      *)
(***************************************************************************)

\* No live run works inside the output location of another.
Apart == \A p, q \in Process : Live(p) /\ Live(q) => tgt[p] \notin Outer[tgt[q]]

\* Whatever is at a location or beside it lies in directories that exist.
Rooted ==
    \A u \in Target : target[u] # Absent \/ staging[u] # Absent =>
        \A o \in Outer[u] : target[o] # Absent

\* A run that has looked for an enclosing workspace still has none.
Unenclosed(p) ==
    pc[p] \notin {"idle", "check_target", "check_nested"} => EnclosingWorkspaces(tgt[p]) = {}

Inv3 ==
    /\ Inv2
    /\ Apart /\ Rooted /\ NoNestedWorkspace
    /\ \A p \in Process : Unenclosed(p)

\* A step that makes no workspace.
Plain == \A t \in Target : target'[t] \in {target[t], Absent, EmptyTree, UserTree}

LEMMA PlainMakesNone ==
    ASSUME Plain, NEW t \in Target, IsWorkspace(t)'
    PROVE  IsWorkspace(t)
  BY DEF Plain, IsWorkspace, EmptyTree, UserTree

LEMMA PlainKeeps ==
    ASSUME Plain, NoNestedWorkspace PROVE NoNestedWorkspace'
  BY PlainMakesNone, TargetAssumption DEF NoNestedWorkspace

LEMMA PlainUnenclosed ==
    ASSUME Plain, NEW t \in Target, EnclosingWorkspaces(t) = {}
    PROVE  EnclosingWorkspaces(t)' = {}
  BY PlainMakesNone, TargetAssumption DEF EnclosingWorkspaces, IsWorkspace

\* Only a rename makes a workspace.
LEMMA NextPlain ==
    ASSUME Inv2, [Next]_vars, ~\E p \in Process : Land(p)
    PROVE  Plain
  <1>1. DiskType /\ RunType
    BY DEF Inv2, Inv1, TypeOK
  <1>2. ASSUME NEW p \in Process, MakeStaging(p) PROVE Plain
    <2>1. tgt[p] \in Target /\ Outer[tgt[p]] \in SUBSET Target
      BY <1>1, <1>2, TargetAssumption DEF MakeStaging, RunType, Live
    <2>2. ASSUME NEW made \in SUBSET Outer[tgt[p]], target' = Made(made) PROVE Plain
      BY <1>1, <2>1, <2>2, MadeType DEF Plain
    <2>3. CASE target' = WithParents(tgt[p])
      BY <1>1, <2>1, <2>3, ParentsType DEF Plain
    <2>4. QED
      BY <1>2, <2>2, <2>3 DEF MakeStaging
  <1>3. ASSUME NEW p \in Process, MakeDirectory(p) \/ OpenFile(p) \/ OpenRecord(p)
        PROVE  Plain
    <2>1. tgt[p] \in Target /\ target' = WithParents(tgt[p])
      BY <1>1, <1>3 DEF MakeDirectory, OpenFile, OpenRecord, RunType, Live
    <2>2. QED
      BY <1>1, <2>1, ParentsType DEF Plain
  <1>4. ASSUME NEW p \in Process, WriteFile(p) \/ WriteRecord(p) PROVE Plain
    BY <1>4 DEF WriteFile, WriteRecord, Inv2, RunOK, Plain
  <1>5. ASSUME NEW t \in Target, UserCreate(t) PROVE Plain
    BY <1>1, <1>5, ParentsType DEF UserCreate, Plain
  <1>6. ASSUME NEW t \in Target, UserRemove(t) \/ UserSweep(t) PROVE Plain
    BY <1>6 DEF UserRemove, UserSweep, Plain
  <1>7. \A p \in Process :
           CheckTarget(p) \/ CheckNested(p) \/ CheckStaging(p) \/ CallFails(p) \/ Start(p)
             \/ RemoveEntry(p) \/ RemoveRoot(p) \/ RemoveFails(p) \/ Crash(p) => target' = target
    BY DEF CheckTarget, CheckNested, CheckStaging, CallFails, Start, RemoveEntry, RemoveRoot,
           RemoveFails, Crash
  <1>8. target' = target => Plain
    BY DEF Plain
  <1>9. ASSUME NEW p \in Process, RunStep(p) PROVE Plain
    BY <1>2, <1>3, <1>4, <1>7, <1>8, <1>9, ThrowIsCrash DEF RunStep
  <1>10. QED
    BY <1>5, <1>6, <1>7, <1>8, <1>9 DEF Next, vars

-----------------------------------------------------------------------------
\* Where directories are made with all that is above them, and nothing appears
\* beside a location but in a directory, everything stays in one.
LEMMA MadeRooted ==
    ASSUME Rooted, NEW made,
           \A o \in made \cap Target : Outer[o] \subseteq made,
           \A u \in Target : target'[u] = IF u \in made /\ target[u] = Absent
                                          THEN EmptyTree ELSE target[u],
           \A u \in Target : staging'[u] = Absent \/ staging[u] # Absent \/ Outer[u] \subseteq made
    PROVE  Rooted'
  <1> SUFFICES ASSUME NEW u \in Target, target'[u] # Absent \/ staging'[u] # Absent,
                      NEW o \in Outer[u]
               PROVE  target'[o] # Absent
    BY DEF Rooted
  <1>1. o \in Target
    BY TargetAssumption
  <1>2. target[o] # Absent => target'[o] # Absent
    BY <1>1
  <1>3. o \in made => target'[o] # Absent
    BY <1>1, MarkFacts
  <1>4. target[u] # Absent \/ staging[u] # Absent \/ Outer[u] \subseteq made
    OBVIOUS
  <1>5. QED
    BY <1>2, <1>3, <1>4 DEF Rooted

LEMMA ParentsRooted ==
    ASSUME Rooted, NEW t \in Target, target' = WithParents(t),
           \A u \in Target \ {t} : staging'[u] = Absent \/ staging[u] # Absent
    PROVE  Rooted'
  <1>1. \A o \in Outer[t] \cap Target : Outer[o] \subseteq Outer[t]
    BY TargetOrder
  <1>2. \A u \in Target : target'[u] = IF u \in Outer[t] /\ target[u] = Absent
                                       THEN EmptyTree ELSE target[u]
    BY DEF WithParents, Made
  <1>3. QED
    BY <1>1, <1>2, MadeRooted

LEMMA SameRooted ==
    ASSUME Rooted, target' = target,
           \A u \in Target : staging'[u] = Absent \/ staging[u] # Absent
    PROVE  Rooted'
  BY TargetAssumption DEF Rooted

LEMMA MakeStagingRooted ==
    ASSUME Inv3, NEW p \in Process, MakeStaging(p) PROVE Rooted'
  <1>1. DiskType /\ Rooted /\ tgt[p] \in Target /\ Outer[tgt[p]] \in SUBSET Target
    BY TargetAssumption DEF Inv3, Inv2, Inv1, TypeOK, RunType, MakeStaging, Live
  <1>2. CASE /\ target'  = WithParents(tgt[p])
             /\ staging' = [staging EXCEPT ![tgt[p]] = StagingRoot(tgt[p])]
    BY <1>1, <1>2, ParentsRooted DEF DiskType
  <1>3. ASSUME NEW made \in SUBSET Outer[tgt[p]], \A o \in made : Outer[o] \subseteq made,
               target' = Made(made), staging' = staging
        PROVE  Rooted'
    <2>1. \A u \in Target : target'[u] = IF u \in made /\ target[u] = Absent
                                         THEN EmptyTree ELSE target[u]
      BY <1>3 DEF Made
    <2>2. QED
      BY <1>1, <1>3, <2>1, MadeRooted
  <1>4. QED
    BY <1>2, <1>3 DEF MakeStaging

LEMMA LandRooted ==
    ASSUME Inv3, NEW p \in Process, Land(p) PROVE Rooted'
  <1>1. DiskType /\ Rooted /\ tgt[p] \in Target
    BY DEF Inv3, Inv2, Inv1, TypeOK, RunType, Land, Live
  <1>2. /\ staging[tgt[p]] # Absent /\ target'[tgt[p]] = staging[tgt[p]]
        /\ \A u \in Target \ {tgt[p]} : target'[u] = target[u]
        /\ \A u \in Target : staging'[u] \in {staging[u], Absent}
    BY <1>1 DEF Land, Moved, DiskType
  <1>3. QED
    BY <1>1, <1>2, TargetAssumption DEF Rooted

LEMMA UserCreateRooted ==
    ASSUME Inv3, NEW t \in Target, UserCreate(t) PROVE Rooted'
  <1>1. PICK tree \in {EmptyTree, UserTree} : target' = [WithParents(t) EXCEPT ![t] = tree]
    BY DEF UserCreate
  <1>2. DiskType /\ Rooted /\ Outer[t] \in SUBSET Target
    BY TargetAssumption DEF Inv3, Inv2, Inv1, TypeOK
  <1>3. /\ target'[t] # Absent /\ staging' = staging
        /\ \A u \in Target \ {t} : target'[u] = IF u \in Outer[t] /\ target[u] = Absent
                                                THEN EmptyTree ELSE target[u]
    BY <1>1, MarkFacts DEF WithParents, Made, UserCreate
  <1>4. \A o \in Outer[t] : target'[o] # Absent
    BY <1>2, <1>3, TargetOrder, MarkFacts
  <1>5. \A u \in Target : target[u] # Absent => target'[u] # Absent
    BY <1>3
  <1>6. ASSUME NEW u \in Target, target'[u] # Absent \/ staging'[u] # Absent, NEW o \in Outer[u]
        PROVE  target'[o] # Absent
    <2>1. o \in Target
      BY TargetAssumption
    <2>2. u = t \/ u \in Outer[t] \/ target[u] # Absent \/ staging[u] # Absent
      BY <1>3, <1>6
    <2>3. u \in Outer[t] => o \in Outer[t]
      BY TargetOrder
    <2>4. QED
      BY <1>2, <1>4, <1>5, <2>1, <2>2, <2>3 DEF Rooted
  <1>7. QED
    BY <1>6 DEF Rooted

\* What is removed goes with everything inside it.
LEMMA UserRemoveRooted ==
    ASSUME Inv3, NEW t \in Target, UserRemove(t) PROVE Rooted'
  <1>1. \A u \in Target :
          /\ target'[u] = IF u \in Inside(t) \cup {t} THEN Absent ELSE target[u]
          /\ staging'[u] = IF u \in Inside(t) THEN Absent ELSE staging[u]
    BY DEF UserRemove
  <1>2. ASSUME NEW u \in Target, target'[u] # Absent \/ staging'[u] # Absent, NEW o \in Outer[u]
        PROVE  target'[o] # Absent
    <2>1. o \in Target /\ u \notin Inside(t) /\ (target[u] # Absent \/ staging[u] # Absent)
      BY <1>1, <1>2, TargetAssumption
    <2>2. o # t /\ o \notin Inside(t)
      BY <2>1, TargetOrder DEF Inside
    <2>3. QED
      BY <1>1, <2>1, <2>2 DEF Inv3, Rooted
  <1>3. QED
    BY <1>2 DEF Rooted

LEMMA NextRooted ==
    ASSUME Inv3, [Next]_vars PROVE Rooted'
  <1>1. DiskType /\ RunType /\ Rooted
    BY DEF Inv3, Inv2, Inv1, TypeOK
  <1>2. ASSUME NEW p \in Process, MakeDirectory(p) \/ OpenFile(p) \/ OpenRecord(p)
        PROVE  Rooted'
    <2>1. tgt[p] \in Target /\ target' = WithParents(tgt[p])
      BY <1>1, <1>2 DEF MakeDirectory, OpenFile, OpenRecord, RunType, Live
    <2>2. \A u \in Target \ {tgt[p]} : staging'[u] = staging[u]
      BY <1>1, <1>2 DEF MakeDirectory, OpenFile, OpenRecord, Created, DiskType
    <2>3. QED
      BY <1>1, <2>1, <2>2, ParentsRooted
  <1>3. ASSUME NEW p \in Process, WriteFile(p) \/ WriteRecord(p) PROVE Rooted'
    <2>1. tgt[p] \in Target /\ staging[tgt[p]] # Absent /\ open[p] = "staging"
      BY <1>1, <1>3 DEF WriteFile, WriteRecord, Inv3, Inv2, RunOK, HasButOne, Has, RunType, Live
    <2>2. target' = target /\ \A u \in Target \ {tgt[p]} : staging'[u] = staging[u]
      BY <1>1, <1>3, <2>1 DEF WriteFile, WriteRecord, Written, Recorded, DiskType
    <2>3. QED
      BY <1>1, <2>1, <2>2, SameRooted
  <1>4. ASSUME NEW p \in Process, RemoveEntry(p) \/ RemoveRoot(p) PROVE Rooted'
    <2>1. target' = target /\ \A u \in Target : staging'[u] = Absent \/ staging[u] # Absent
      <3>1. CASE RemoveRoot(p)
        BY <1>1, <3>1 DEF RemoveRoot, DiskType
      <3>2. CASE RemoveEntry(p)
        <4>1. target' = target /\ staging[tgt[p]] # Absent
          BY <3>2 DEF RemoveEntry
        <4>2. ASSUME NEW u \in Target, u # tgt[p] PROVE staging'[u] = staging[u]
          BY <1>1, <3>2, <4>2 DEF RemoveEntry, DiskType
        <4>3. QED
          BY <4>1, <4>2
      <3>3. QED
        BY <1>4, <3>1, <3>2
    <2>2. QED
      BY <1>1, <2>1, SameRooted
  <1>5. ASSUME NEW p \in Process,
               CheckTarget(p) \/ CheckNested(p) \/ CheckStaging(p) \/ CallFails(p) \/ Start(p)
                 \/ RemoveFails(p) \/ Crash(p)
        PROVE  Rooted'
    <2>1. UNCHANGED <<target, staging>>
      BY <1>5 DEF CheckTarget, CheckNested, CheckStaging, CallFails, Start, RemoveFails, Crash
    <2>2. QED
      BY <1>1, <2>1, SameRooted
  <1>6. ASSUME NEW t \in Target, UserSweep(t) PROVE Rooted'
    BY <1>1, <1>6, SameRooted DEF UserSweep, DiskType
  <1>7. ASSUME NEW p \in Process, RunStep(p) PROVE Rooted'
    BY <1>2, <1>3, <1>4, <1>5, <1>7, MakeStagingRooted, LandRooted, ThrowIsCrash DEF RunStep
  <1>8. CASE UNCHANGED vars
    BY <1>1, <1>8, SameRooted DEF vars
  <1>9. QED
    BY <1>5, <1>6, <1>7, <1>8, UserCreateRooted, UserRemoveRooted DEF Next

-----------------------------------------------------------------------------
\* A run that goes on past the check for an enclosing workspace has none.
LEMMA NextPast ==
    ASSUME Interference = {}, Inv3, [Next]_vars, NEW p \in Process,
           pc'[p] \notin {"idle", "check_target", "check_nested"}
    PROVE  /\ tgt'[p] = tgt[p] /\ tgt[p] \in Target
           /\ EnclosingWorkspaces(tgt[p]) = {}
  <1> DEFINE early == {"idle", "check_target", "check_nested"}
  <1>1. Inv1 /\ RunType
    BY DEF Inv3, Inv2, Inv1, TypeOK
  <1>2. ASSUME pc[p] \notin early, tgt'[p] = tgt[p]
        PROVE  tgt[p] \in Target /\ EnclosingWorkspaces(tgt[p]) = {}
    BY <1>1, <1>2 DEF Inv3, Unenclosed, RunType, Live
  <1>3. ASSUME NEW q \in Process, Start(q)
        PROVE  /\ q # p /\ pc[p] \notin early /\ tgt'[p] = tgt[p]
    BY <1>1, <1>3 DEF Start, RunType
  <1>4. ASSUME NEW q \in Process, CheckTarget(q)
        PROVE  pc[p] \notin early /\ tgt'[p] = tgt[p]
    BY <1>1, <1>4 DEF CheckTarget, Goto, Return, run, RunType
  <1>5. ASSUME NEW q \in Process, CheckNested(q)
        PROVE  /\ tgt'[p] = tgt[p] /\ tgt[p] \in Target
               /\ EnclosingWorkspaces(tgt[p]) = {}
    <2>1. CASE q = p
      BY <1>1, <1>5, <2>1 DEF CheckNested, Goto, Return, run, RunType, Live
    <2>2. CASE q # p
      <3>1. pc[p] \notin early /\ tgt'[p] = tgt[p]
        BY <1>1, <1>5, <2>2 DEF CheckNested, Goto, Return, run, RunType
      <3>2. QED
        BY <1>2, <3>1
    <2>3. QED
      BY <2>1, <2>2
  <1>6. ASSUME NEW q \in Process, pc[q] \notin early,
               \/ Return(q) \/ \E to : Goto(q, to)
               \/ pc' = [pc EXCEPT ![q] = "steps"] /\ tgt' = tgt
               \/ pc' = pc /\ tgt' = tgt
        PROVE  pc[p] \notin early /\ tgt'[p] = tgt[p]
    <2> HIDE DEF early
    <2>1. CASE q = p
      <3>1. CASE Return(q)
        BY <1>1, <2>1, <3>1 DEF Return, RunType, early
      <3>2. CASE ~Return(q)
        BY <1>6, <2>1, <3>2 DEF Goto, run
      <3>3. QED
        BY <3>1, <3>2
    <2>2. CASE q # p
      <3>1. pc'[p] = pc[p] /\ tgt'[p] = tgt[p]
        BY <1>1, <1>6, <2>2 DEF Goto, Return, run, RunType
      <3>2. QED
        BY <3>1 DEF early
    <2>3. QED
      BY <2>1, <2>2
  <1>7. ASSUME NEW q \in Process, RunStep(q), ~CheckTarget(q), ~CheckNested(q), ~CallThrows(q)
        PROVE  pc[p] \notin early /\ tgt'[p] = tgt[p]
    <2>1. pc[q] \notin early
      BY <1>7 DEF RunStep, CheckStaging, MakeStaging, MakeDirectory, OpenFile, WriteFile,
         OpenRecord, WriteRecord, Land, CallFails, RemoveEntry, RemoveRoot, RemoveFails
    <2>2. CASE CheckStaging(q) \/ MakeStaging(q) \/ OpenFile(q) \/ OpenRecord(q)
               \/ WriteRecord(q) \/ CallFails(q)
      <3>1. Return(q) \/ \E to : Goto(q, to)
        BY <2>2 DEF CheckStaging, MakeStaging, OpenFile, OpenRecord, WriteRecord, CallFails
      <3>2. QED
        BY <1>6, <2>1, <3>1
    <2>3. CASE Land(q) \/ RemoveRoot(q) \/ RemoveFails(q)
      <3>1. Return(q) \/ \E to : Goto(q, to)
        BY <2>3 DEF Land, Moved, RemoveRoot, AfterRemoval, RemoveFails
      <3>2. QED
        BY <1>6, <2>1, <3>1
    <2>4. CASE MakeDirectory(q) \/ WriteFile(q) \/ RemoveEntry(q)
      <3>1. \/ pc' = [pc EXCEPT ![q] = "steps"] /\ tgt' = tgt
            \/ pc' = pc /\ tgt' = tgt
        BY <2>4 DEF MakeDirectory, WriteFile, RemoveEntry
      <3>2. QED
        BY <1>6, <2>1, <3>1
    <2>5. QED
      BY <1>7, <2>2, <2>3, <2>4 DEF RunStep
  <1>8. ASSUME NEW q \in Process, Crash(q) PROVE pc[p] \notin early /\ tgt'[p] = tgt[p]
    BY <1>1, <1>8 DEF Crash, Return, RunType
  <1>9. ASSUME UNCHANGED vars \/ \E t \in Target : UserCreate(t) \/ UserRemove(t) \/ UserSweep(t)
        PROVE  pc[p] \notin early /\ tgt'[p] = tgt[p]
    BY <1>9 DEF vars, UserCreate, UserRemove, UserSweep
  <1>10. CASE \E q \in Process : CheckNested(q)
    BY <1>5, <1>10
  <1>11. CASE ~\E q \in Process : CheckNested(q)
    <2>1. pc[p] \notin early /\ tgt'[p] = tgt[p]
      BY <1>3, <1>4, <1>7, <1>8, <1>9, <1>11, ThrowIsCrash DEF Next
    <2>2. QED
      BY <1>2, <2>1
  <1>12. QED
    BY <1>10, <1>11

\* Runs are not nested while none may be started inside, or around, another.
LEMMA NextApart ==
    ASSUME Interference = {}, Inv3, [Next]_vars PROVE Apart'
  <1>1. Inv1 /\ RunType /\ Apart
    BY DEF Inv3, Inv2, Inv1, TypeOK
  <1>2. ASSUME NEW p \in Process, Start(p) PROVE Apart'
    <2>1. PICK t \in Target : /\ \A q \in Process : Live(q) => Compatible(q, t)
                              /\ tgt' = [tgt EXCEPT ![p] = t]
      BY <1>2 DEF Start
    <2>2. ~Live(p) /\ pc' = [pc EXCEPT ![p] = "check_target"]
      BY <1>2 DEF Start, Live
    <2>3. tgt'[p] = t /\ \A q \in Process \ {p} : tgt'[q] = tgt[q] /\ (Live(q)' <=> Live(q))
      BY <1>1, <2>1, <2>2 DEF RunType, Live
    <2>4. \A q \in Process \ {p} : Live(q) => tgt[q] \notin Outer[t] /\ t \notin Outer[tgt[q]]
      BY <1>2, <2>1 DEF Compatible
    <2>5. t \notin Outer[t]
      BY TargetOrder
    <2>6. QED
      BY <1>1, <2>3, <2>4, <2>5 DEF Apart
  <1>3. ASSUME \A p \in Process : Live(p)' => Live(p) /\ tgt'[p] = tgt[p] PROVE Apart'
    BY <1>1, <1>3 DEF Apart
  <1>4. ASSUME NEW p \in Process, RunStep(p) \/ Crash(p)
        PROVE  \A q \in Process : Live(q)' => Live(q) /\ tgt'[q] = tgt[q]
    <2>1. Live(p)
      BY <1>4 DEF Live, RunStep, Crash, CheckTarget, CheckNested, CheckStaging, MakeStaging,
         MakeDirectory, OpenFile, WriteFile, OpenRecord, WriteRecord, Land, CallFails,
         CallThrows, RemoveEntry, RemoveRoot, RemoveFails
    <2>2. \/ Return(p) \/ \E to : Goto(p, to)
          \/ pc' = [pc EXCEPT ![p] = "steps"] /\ tgt' = tgt
          \/ pc' = pc /\ tgt' = tgt
      <3>1. CASE Crash(p) \/ CheckTarget(p) \/ CheckNested(p) \/ CheckStaging(p) \/ MakeStaging(p)
                 \/ OpenFile(p) \/ OpenRecord(p) \/ WriteRecord(p) \/ CallFails(p)
        BY <3>1 DEF Crash, CheckTarget, CheckNested, CheckStaging, MakeStaging, OpenFile,
           OpenRecord, WriteRecord, CallFails
      <3>2. CASE Land(p) \/ RemoveRoot(p) \/ RemoveFails(p) \/ MakeDirectory(p) \/ WriteFile(p)
                 \/ RemoveEntry(p)
        BY <3>2 DEF Land, Moved, RemoveRoot, AfterRemoval, RemoveFails, MakeDirectory,
           WriteFile, RemoveEntry
      <3>3. QED
        BY <1>4, <3>1, <3>2, ThrowIsCrash DEF RunStep
    <2>3. ASSUME NEW q \in Process, q # p PROVE pc'[q] = pc[q] /\ tgt'[q] = tgt[q]
      BY <1>1, <2>2, <2>3 DEF Return, Goto, run, RunType
    <2>4. Live(p)' => tgt'[p] = tgt[p]
      BY <1>1, <2>2 DEF Return, Goto, run, RunType, Live
    <2>5. QED
      BY <2>1, <2>3, <2>4 DEF Live
  <1>5. ASSUME UNCHANGED vars \/ \E t \in Target : UserCreate(t) \/ UserRemove(t) \/ UserSweep(t)
        PROVE  \A p \in Process : Live(p)' => Live(p) /\ tgt'[p] = tgt[p]
    BY <1>5 DEF vars, UserCreate, UserRemove, UserSweep, Live
  <1>6. QED
    BY <1>2, <1>3, <1>4, <1>5 DEF Next

-----------------------------------------------------------------------------
\* A run lands below no workspace, because it saw none and none has landed
\* since, and above none, because the rename wants a location that is vacant.
LEMMA LandInv3 ==
    ASSUME Inv3, NEW p \in Process, Land(p)
    PROVE  /\ NoNestedWorkspace'
           /\ \A q \in Process \ {p} : Live(q) /\ EnclosingWorkspaces(tgt[q]) = {}
                                         => EnclosingWorkspaces(tgt[q])' = {}
  <1> DEFINE t == tgt[p]
  <1>1. DiskType /\ Rooted /\ NoNestedWorkspace /\ t \in Target /\ Live(p)
    BY DEF Inv3, Inv2, Inv1, TypeOK, RunType, Land, Live
  <1>2. /\ EnclosingWorkspaces(t) = {}
        /\ \A u \in Target \ {t} : target'[u] = target[u]
        /\ target[t] = Absent \/ ~Occupied(t)
    BY <1>1 DEF Land, Moved, Vacant, DiskType, Inv3, Unenclosed
  <1>3. \A u \in Target \ {t} : IsWorkspace(u)' <=> IsWorkspace(u)
    BY <1>2 DEF IsWorkspace
  <1>4. ASSUME NEW u \in Target, t \in Outer[u] PROVE ~IsWorkspace(u)'
    <2>1. u # t
      BY <1>4, TargetOrder
    <2>2. target[u] = Absent
      BY <1>1, <1>2, <1>4 DEF Occupied, Inside, Rooted
    <2>3. QED
      BY <1>3, <2>1, <2>2 DEF IsWorkspace
  <1>5. \A o \in Outer[t] : ~IsWorkspace(o)'
    <2>1. \A o \in Outer[t] : o \in Target \ {t} /\ ~IsWorkspace(o)
      BY <1>1, <1>2, TargetAssumption, TargetOrder DEF EnclosingWorkspaces, IsWorkspace
    <2>2. QED
      BY <1>3, <2>1
  <1>6. NoNestedWorkspace'
    <2> SUFFICES ASSUME NEW u \in Target, IsWorkspace(u)', NEW o \in Outer[u]
                 PROVE  ~IsWorkspace(o)'
      BY DEF NoNestedWorkspace
    <2>1. o \in Target
      BY TargetAssumption
    <2> HIDE DEF t
    <2>2. QED
      BY <1>1, <1>3, <1>4, <1>5, <2>1 DEF NoNestedWorkspace
  <1>7. ASSUME NEW q \in Process \ {p}, Live(q), EnclosingWorkspaces(tgt[q]) = {}
        PROVE  EnclosingWorkspaces(tgt[q])' = {}
    <2>1. tgt[q] \in Target /\ t \notin Outer[tgt[q]]
      BY <1>1, <1>7 DEF Inv3, Inv2, Inv1, TypeOK, RunType, Apart
    <2>2. \A o \in Outer[tgt[q]] : o \in Target \ {t} /\ ~IsWorkspace(o)
      BY <1>7, <2>1, TargetAssumption DEF EnclosingWorkspaces, IsWorkspace
    <2>3. \A o \in Outer[tgt[q]] : target'[o] = target[o]
      BY <1>2, <2>2
    <2>4. tgt'[q] = tgt[q]
      BY <1>7 DEF Land, Moved, Return, Inv3, Inv2, Inv1, TypeOK, RunType
    <2>5. QED
      BY <2>2, <2>3, <2>4 DEF EnclosingWorkspaces, IsWorkspace
  <1>8. QED
    BY <1>6, <1>7

LEMMA NextInv3 == ASSUME Interference = {} PROVE Inv3 /\ [Next]_vars => Inv3'
  <1> SUFFICES ASSUME Inv3, [Next]_vars PROVE Inv3'
    OBVIOUS
  <1>1. Inv2' /\ Apart' /\ Rooted'
    BY NextInv2, NextApart, NextRooted DEF Inv3, Quiet
  <1>2. CASE ~\E p \in Process : Land(p)
    <2>1. Plain
      BY <1>2, NextPlain DEF Inv3
    <2>2. NoNestedWorkspace'
      BY <2>1, PlainKeeps DEF Inv3
    <2>3. ASSUME NEW p \in Process PROVE Unenclosed(p)'
      <3> SUFFICES ASSUME pc'[p] \notin {"idle", "check_target", "check_nested"}
                   PROVE  EnclosingWorkspaces(tgt[p])' = {}
        BY DEF Unenclosed
      <3>1. tgt'[p] = tgt[p] /\ tgt[p] \in Target /\ EnclosingWorkspaces(tgt[p]) = {}
        BY NextPast
      <3>2. ASSUME NEW o \in Outer[tgt[p]], target'[o] # Absent /\ target'[o].meta # None
            PROVE  FALSE
        <4>1. o \in Target /\ IsWorkspace(o)
          BY <2>1, <3>1, <3>2, PlainMakesNone, TargetAssumption DEF IsWorkspace
        <4>2. QED
          BY <3>1, <4>1 DEF EnclosingWorkspaces, IsWorkspace
      <3>3. QED
        BY <3>1, <3>2 DEF EnclosingWorkspaces
    <2>4. QED
      BY <1>1, <2>2, <2>3 DEF Inv3
  <1>3. ASSUME NEW p \in Process, Land(p) PROVE Inv3'
    <2>1. NoNestedWorkspace'
      BY <1>3, LandInv3
    <2>2. pc'[p] = "idle"
      BY <1>3 DEF Inv3, Inv2, Inv1, TypeOK, RunType, Land, Moved, Return
    <2>3. ASSUME NEW q \in Process, pc'[q] \notin {"idle", "check_target", "check_nested"}
          PROVE  EnclosingWorkspaces(tgt[q])' = {}
      <3>1. q # p /\ EnclosingWorkspaces(tgt[q]) = {}
        BY <2>2, <2>3, NextPast
      <3>2. Live(q)
        BY <1>3, <2>3, <3>1 DEF Land, Moved, Return, Live, Inv3, Inv2, Inv1, TypeOK, RunType
      <3>3. QED
        BY <1>3, <3>1, <3>2, LandInv3
    <2>4. QED
      BY <1>1, <2>1, <2>3 DEF Inv3, Unenclosed
  <1>4. QED
    BY <1>2, <1>3

LEMMA InitInv3 == Init => Inv3
  <1> SUFFICES ASSUME Init PROVE Inv3
    OBVIOUS
  <1>1. Inv2
    BY InitInv2
  <1>2. Apart /\ Rooted /\ NoNestedWorkspace /\ \A p \in Process : Unenclosed(p)
    BY DEF Init, Apart, Live, Rooted, NoNestedWorkspace, IsWorkspace, Unenclosed
  <1>3. QED
    BY <1>1, <1>2 DEF Inv3

\* Where runs are not started inside one another's output location, no workspace
\* ever lies inside another, however long ago a run looked above its own, and
\* whatever the user makes and removes meanwhile (apply(), filesystem.workspace.nested,
\* and the rename that wants a vacant location).
THEOREM NeverNested == ASSUME Interference = {} PROVE Spec => []NoNestedWorkspace
  <1>1. Inv3 => NoNestedWorkspace
    BY DEF Inv3
  <1>2. Inv3 /\ [Next]_vars => Inv3'
    BY NextInv3
  <1>3. QED
    BY <1>1, <1>2, InitInv3, PTL DEF Spec
=============================================================================
