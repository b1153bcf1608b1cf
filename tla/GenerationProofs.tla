--------------------------- MODULE GenerationProofs ---------------------------
(*************************************************************************)
(* The planner's answers, for any requests and in whatever order entries *)
(* are listed: a request is refused exactly when something is wrong with *)
(* it, equal requests have equal plans, and no step that is the          *)
(* generator's lies in the working directory.  Then what a plan of any   *)
(* length leaves when it is executed: the workspace that was asked for,  *)
(* of which workspace.verify finds exactly what has changed since.       *)
(*************************************************************************)
EXTENDS Generation, Induction, FiniteSetTheorems, SequenceTheorems, TLAPS

Contributions == request.contributions
Is == 1 .. Len(Contributions)

\* Entry e of contribution i was claimed.
Done(i, e) == i < at \/ (i = at /\ e \notin todo)

\* Nothing is wrong with entry e of contribution i of r by itself.
Sound(r, i, e) ==
    /\ e.path # Unsafe /\ e.payload # Unreadable
    /\ ~(r.contributions[i].processor = "substitute" /\ Expand[e.payload] = Unexpandable)
    /\ ~(ClassFrom(r, i, e.path) = "generated" /\ InWorkingDirectory(r, e.path))

\* Where the planner is.
Placed ==
    /\ pc \in {"idle", "building", "refused", "planned", "generated", "failed"}
    /\ pc = "idle" => at = 1 /\ steps = {}
    /\ pc # "idle" =>
         /\ request \in Requests /\ at \in Is
         /\ todo \subseteq Contributions[at].entries

\* The claimed paths are those of the entries that were claimed.
ClaimsExact ==
    pc # "idle" =>
      /\ \A x \in Claimed : \E i \in Is : \E e \in Contributions[i].entries :
           Done(i, e) /\ e.path = x
      /\ \A i \in Is : \A e \in Contributions[i].entries : Done(i, e) => e.path \in Claimed

\* What was claimed was sound, and the first to claim its path unless it overrides.
ClaimsSound ==
    pc # "idle" => \A i \in Is : \A e \in Contributions[i].entries :
      Done(i, e) =>
        /\ Sound(request, i, e)
        /\ e.path \notin Contributions[i].overrides =>
             \A j \in 1 .. i : \A f \in Contributions[j].entries :
               Done(j, f) /\ f.path = e.path => j = i /\ f = e

\* A contribution is only left behind by a processor that is known.
ProcessorsKnown ==
    /\ pc # "idle" => \A i \in Is : i < at => Contributions[i].processor \in {"copy", "substitute"}
    /\ pc \in {"planned", "generated", "failed"} =>
         at = Len(Contributions) /\ todo = {} /\ KnownProcessor

RefusedDefective == pc = "refused" => Defective(request)

PlannerInv == Placed /\ ClaimsExact /\ ClaimsSound /\ ProcessorsKnown /\ RefusedDefective

-----------------------------------------------------------------------------
(* Requests and steps.                                                     *)

\* The contributions of a request are some, and its entries have payloads.
LEMMA RequestFacts ==
    ASSUME NEW r \in Requests
    PROVE  /\ r.contributions \in Seq(Contribution) /\ Len(r.contributions) \in Nat \ {0}
           /\ \A i \in 1 .. Len(r.contributions) :
                /\ r.contributions[i] \in Contribution
                /\ \A e \in r.contributions[i].entries :
                     e.path \in Path \cup {Unsafe} /\ e.payload \in Payload
<1>1. r.contributions \in Seq(Contribution) /\ r.contributions # << >>
  BY RequestAssumption
<1>2. Len(r.contributions) \in Nat \ {0}
  BY <1>1, EmptySeq
<1>3. ASSUME NEW i \in 1 .. Len(r.contributions)
      PROVE  /\ r.contributions[i] \in Contribution
             /\ \A e \in r.contributions[i].entries :
                  e.path \in Path \cup {Unsafe} /\ e.payload \in Payload
  <2>1. r.contributions[i] \in Contribution
    BY <1>1, ElementOfSeq
  <2> QED BY <2>1 DEF Contribution
<1> QED BY <1>1, <1>2, <1>3

\* What a file step writes is no directory.
LEMMA ProcessedIsFile ==
    ASSUME NEW c, NEW payload \in Payload
    PROVE  Processed(c, payload) \in Payload /\ Processed(c, payload) # Dir
BY ExpandAssumption DEF Processed

\* The entry that TakeEntry takes, and the claims after it.
LEMMA TakeEntryFacts ==
    ASSUME PlannerInv, TakeEntry
    PROVE  \E e \in todo :
             /\ ~Refusable(e) /\ todo' = todo \ {e}
             /\ FileStep(e, Cardinality(steps) + 1).node # Dir
             /\ steps' = steps \cup {DirStep(x, Here.phase, Cardinality(steps) + 1) :
                                        x \in NewDirectories(e.path)}
                               \cup {FileStep(e, Cardinality(steps) + 1)}
             /\ Claimed' = Claimed \cup {e.path}
<1>1. PICK e \in todo :
        /\ ~Refusable(e) /\ todo' = todo \ {e}
        /\ steps' = steps \cup {DirStep(x, Here.phase, Cardinality(steps) + 1) :
                                   x \in NewDirectories(e.path)}
                          \cup {FileStep(e, Cardinality(steps) + 1)}
  BY DEF TakeEntry
<1> DEFINE no == Cardinality(steps) + 1
<1>2. e.payload \in Payload
  BY RequestFacts DEF TakeEntry, PlannerInv, Placed, Contributions, Is
<1>3. FileStep(e, no).node # Dir /\ FileStep(e, no).path = e.path
  BY <1>2, ProcessedIsFile DEF FileStep
<1>4. \A x : DirStep(x, Here.phase, no).node = Dir
  BY DEF DirStep
<1> HIDE DEF no
<1>5. FilesOf(steps)' = FilesOf(steps) \cup {FileStep(e, no)}
  BY <1>1, <1>3, <1>4 DEF FilesOf, no
<1>6. Claimed' = Claimed \cup {e.path}
  BY <1>3, <1>5 DEF Claimed
<1> QED BY <1>1, <1>3, <1>6 DEF no

-----------------------------------------------------------------------------
(* The planner.                                                            *)

LEMMA PlannerInit == Init => PlannerInv
BY DEF Init, PlannerInv, Placed, ClaimsExact, ClaimsSound, ProcessorsKnown, RefusedDefective

\* The steps that leave the planner's variables alone keep what is said of them.
LEMMA PlannerQuiet ==
    ASSUME PlannerInv, UNCHANGED <<request, at, todo, steps>>,
           pc' \in {"building", "refused", "planned", "generated", "failed"}, pc # "idle",
           pc' \in {"planned", "generated", "failed"} =>
             at = Len(Contributions) /\ todo = {} /\ KnownProcessor,
           pc' = "refused" => Defective(request)
    PROVE  PlannerInv'
<1>1. Placed' /\ ClaimsExact' /\ ClaimsSound'
  BY DEF PlannerInv, Placed, ClaimsExact, ClaimsSound, Contributions, Is, Done, Claimed, FilesOf
<1>2. ProcessorsKnown' /\ RefusedDefective'
  BY DEF PlannerInv, ProcessorsKnown, RefusedDefective, Contributions, Is, KnownProcessor, Here
<1> QED BY <1>1, <1>2 DEF PlannerInv

LEMMA AskKeeps == PlannerInv /\ Ask => PlannerInv'
<1> SUFFICES ASSUME PlannerInv, Ask PROVE PlannerInv'
  OBVIOUS
<1>1. PICK r \in Requests : request' = r /\ todo' = r.contributions[1].entries
  BY DEF Ask
<1>2. pc = "idle" /\ pc' = "building" /\ at' = 1 /\ at = 1 /\ steps' = {}
  BY DEF Ask, PlannerInv, Placed
<1>3. 1 \in 1 .. Len(r.contributions)
  BY RequestFacts
<1>4. Claimed' = {}
  BY <1>2 DEF Claimed, FilesOf
<1>5. \A i \in Is' : \A e \in Contributions'[i].entries : ~Done(i, e)'
  BY <1>1, <1>2 DEF Is, Contributions, Done
<1>6. Placed'
  BY <1>1, <1>2, <1>3 DEF Placed, Contributions, Is
<1>7. ClaimsExact' /\ ClaimsSound'
  BY <1>4, <1>5 DEF ClaimsExact, ClaimsSound
<1>8. ProcessorsKnown' /\ RefusedDefective'
  BY <1>2 DEF ProcessorsKnown, RefusedDefective, Is, Contributions
<1> QED BY <1>6, <1>7, <1>8 DEF PlannerInv

LEMMA RefuseContributionKeeps == PlannerInv /\ RefuseContribution => PlannerInv'
<1> SUFFICES ASSUME PlannerInv, RefuseContribution PROVE PlannerInv'
  OBVIOUS
<1>1. pc = "building" /\ pc' = "refused" /\ UNCHANGED <<request, at, todo, steps>>
  BY DEF RefuseContribution, Refuse
<1>2. Defective(request)
  <2>1. at \in Is /\ Contributions[at].processor \notin {"copy", "substitute"}
    BY <1>1 DEF RefuseContribution, KnownProcessor, Here, Contributions, PlannerInv, Placed
  <2> QED BY <2>1 DEF Defective, Is, Contributions
<1> QED BY <1>1, <1>2, PlannerQuiet

\* An entry is refused for something that is wrong with the request.
LEMMA RefusableIsDefect ==
    ASSUME PlannerInv, pc = "building", NEW e \in todo, Refusable(e)
    PROVE  Defective(request)
<1>1. at \in Is /\ e \in Contributions[at].entries /\ Here = Contributions[at]
  BY DEF PlannerInv, Placed, Here, Contributions
<1>2. CASE e.path = Unsafe \/ e.payload = Unreadable
  BY <1>1, <1>2 DEF Defective, Is, Contributions
<1>3. CASE Here.processor = "substitute" /\ Expand[e.payload] = Unexpandable
  BY <1>1, <1>3 DEF Defective, Is, Contributions
<1>4. CASE TakesAuthorsFile(e)
  BY <1>1, <1>4 DEF Defective, Is, Contributions, TakesAuthorsFile, ClassFrom
<1>5. CASE Contested(e)
  <2>1. PICK i \in Is : \E f \in Contributions[i].entries : Done(i, f) /\ f.path = e.path
    BY <1>5 DEF Contested, PlannerInv, ClaimsExact
  <2>2. PICK f \in Contributions[i].entries : Done(i, f) /\ f.path = e.path
    BY <2>1
  <2>3. f \in EntriesAt(request, i, e.path)
    BY <2>2 DEF EntriesAt, Contributions
  <2>4. e.path \notin Contributions[at].overrides
    BY <1>1, <1>5 DEF Contested
  <2>5. CASE i < at
    <3>1. i \in Contributors(request, e.path)
      BY <2>3 DEF Contributors, Is, Contributions
    <3> QED BY <1>1, <2>4, <2>5, <3>1 DEF Defective, Is, Contributions
  <2>6. CASE i = at
    <3>1. f # e
      BY <2>2, <2>6 DEF Done, Is
    <3>2. EntriesAt(request, at, e.path) # {e}
      BY <2>3, <2>6, <3>1
    <3> QED BY <1>1, <2>4, <3>2 DEF Defective, Is, Contributions
  <2> QED BY <2>2, <2>5, <2>6 DEF Done
<1> QED BY <1>2, <1>3, <1>4, <1>5 DEF Refusable

LEMMA RefuseEntryKeeps == PlannerInv /\ RefuseEntry => PlannerInv'
<1> SUFFICES ASSUME PlannerInv, RefuseEntry PROVE PlannerInv'
  OBVIOUS
<1>1. pc = "building" /\ pc' = "refused" /\ UNCHANGED <<request, at, todo, steps>>
  BY DEF RefuseEntry, Refuse
<1>2. Defective(request)
  BY <1>1, RefusableIsDefect DEF RefuseEntry
<1> QED BY <1>1, <1>2, PlannerQuiet

LEMMA TakeEntryKeeps == PlannerInv /\ TakeEntry => PlannerInv'
<1> SUFFICES ASSUME PlannerInv, TakeEntry PROVE PlannerInv'
  OBVIOUS
<1>1. PICK e \in todo : /\ ~Refusable(e) /\ todo' = todo \ {e}
                        /\ Claimed' = Claimed \cup {e.path}
  BY TakeEntryFacts
<1>2. pc = "building" /\ UNCHANGED <<pc, request, at>>
  BY DEF TakeEntry
<1>3. at \in Is /\ e \in Contributions[at].entries /\ Here = Contributions[at]
  BY <1>2 DEF PlannerInv, Placed, Here, Contributions
<1>4. /\ Contributions' = Contributions /\ Is' = Is
      /\ \A i \in Is : \A f : Done(i, f)' <=> (Done(i, f) \/ (i = at /\ f = e))
  BY <1>1, <1>2, <1>3 DEF Contributions, Is, Done
<1>5. Placed'
  BY <1>1, <1>2, <1>4 DEF PlannerInv, Placed
<1>6. ClaimsExact'
  <2>1. ASSUME NEW x \in Claimed'
        PROVE  \E i \in Is : \E f \in Contributions[i].entries : Done(i, f)' /\ f.path = x
    <3>1. CASE x \in Claimed
      BY <1>2, <1>4, <3>1 DEF PlannerInv, ClaimsExact
    <3>2. CASE x = e.path
      BY <1>3, <1>4, <3>2
    <3> QED BY <1>1, <2>1, <3>1, <3>2
  <2>2. ASSUME NEW i \in Is, NEW f \in Contributions[i].entries, Done(i, f)'
        PROVE  f.path \in Claimed'
    BY <1>1, <1>2, <1>4, <2>2 DEF PlannerInv, ClaimsExact
  <2> QED BY <1>4, <2>1, <2>2 DEF ClaimsExact
<1>7. ClaimsSound'
  <2>1. Sound(request, at, e)
    BY <1>1, <1>3 DEF Refusable, Sound, TakesAuthorsFile, ClassFrom, Contributions
  <2>2. ASSUME e.path \notin Contributions[at].overrides,
               NEW j \in 1 .. at, NEW f \in Contributions[j].entries,
               Done(j, f), f.path = e.path
        PROVE  FALSE
    <3>1. j \in Is
      BY <1>3 DEF Is
    <3>2. e.path \in Claimed
      BY <1>2, <2>2, <3>1 DEF PlannerInv, ClaimsExact
    <3> QED BY <1>1, <1>3, <2>2, <3>2 DEF Refusable, Contested
  <2>3. ASSUME NEW i \in Is, NEW g \in Contributions[i].entries, Done(i, g)',
               g.path \notin Contributions[i].overrides,
               NEW j \in 1 .. i, NEW f \in Contributions[j].entries,
               Done(j, f)', f.path = g.path
        PROVE  j = i /\ f = g
    <3>0. j \in Is
      BY DEF Is
    <3>1. CASE Done(i, g) /\ Done(j, f)
      BY <1>2, <2>3, <3>1 DEF PlannerInv, ClaimsSound
    <3>2. CASE i = at /\ g = e
      <4>1. (j = at /\ f = e) \/ Done(j, f)
        BY <1>4, <2>3, <3>0
      <4> QED BY <2>2, <2>3, <3>2, <4>1
    <3>3. CASE Done(i, g) /\ j = at /\ f = e
      <4>1. i = at
        BY <1>3, <3>3 DEF Done, Is
      <4> QED BY <2>2, <2>3, <3>3, <4>1
    <3> QED BY <1>4, <2>3, <3>0, <3>1, <3>2, <3>3
  <2>4. ASSUME NEW i \in Is, NEW g \in Contributions[i].entries, Done(i, g)'
        PROVE  Sound(request, i, g)
    BY <1>2, <1>4, <2>1, <2>4 DEF PlannerInv, ClaimsSound
  <2>5. \A i, g : Sound(request, i, g)' <=> Sound(request, i, g)
    BY <1>2 DEF Sound, ClassFrom, InWorkingDirectory
  <2> QED BY <1>4, <2>3, <2>4, <2>5 DEF ClaimsSound
<1>8. ProcessorsKnown' /\ RefusedDefective'
  BY <1>2, <1>4 DEF PlannerInv, ProcessorsKnown, RefusedDefective
<1> QED BY <1>5, <1>6, <1>7, <1>8 DEF PlannerInv

LEMMA NextContributionKeeps == PlannerInv /\ NextContribution => PlannerInv'
<1> SUFFICES ASSUME PlannerInv, NextContribution PROVE PlannerInv'
  OBVIOUS
<1>1. /\ pc = "building" /\ UNCHANGED <<pc, request, steps>>
      /\ todo = {} /\ at < Len(Contributions) /\ at' = at + 1
      /\ todo' = Contributions[at + 1].entries /\ KnownProcessor
  BY DEF NextContribution, Contributions
<1>2. at \in Is /\ Len(Contributions) \in Nat
  BY <1>1, RequestFacts DEF PlannerInv, Placed, Contributions
<1>3. /\ Contributions' = Contributions /\ Is' = Is /\ Claimed' = Claimed
      /\ \A i \in Is : \A f \in Contributions[i].entries : Done(i, f)' <=> Done(i, f)
  BY <1>1, <1>2 DEF Contributions, Is, Claimed, FilesOf, Done
<1>4. Placed'
  BY <1>1, <1>2, <1>3 DEF PlannerInv, Placed, Is
<1>5. ClaimsExact'
  BY <1>1, <1>3 DEF PlannerInv, ClaimsExact
<1>6. ClaimsSound'
  <2>1. \A i, g : Sound(request, i, g)' <=> Sound(request, i, g)
    BY <1>1 DEF Sound, ClassFrom, InWorkingDirectory
  <2>2. \A i \in Is : \A j \in 1 .. i : j \in Is
    BY DEF Is
  <2> QED BY <1>1, <1>3, <2>1, <2>2 DEF PlannerInv, ClaimsSound
<1>7. ProcessorsKnown' /\ RefusedDefective'
  BY <1>1, <1>2, <1>3 DEF PlannerInv, ProcessorsKnown, RefusedDefective, KnownProcessor,
                          Here, Contributions, Is
<1> QED BY <1>4, <1>5, <1>6, <1>7 DEF PlannerInv

\* PlannerInv is inductive.
LEMMA PlannerNext == PlannerInv /\ [Next]_vars => PlannerInv'
<1> SUFFICES ASSUME PlannerInv, [Next]_vars PROVE PlannerInv'
  OBVIOUS
<1>1. CASE FinishPlan
  <2>1. /\ pc = "building" /\ pc' = "planned" /\ UNCHANGED <<request, at, todo, steps>>
        /\ at = Len(Contributions) /\ todo = {} /\ KnownProcessor
    BY <1>1 DEF FinishPlan, Contributions
  <2> QED BY <2>1, PlannerQuiet
<1>2. CASE Generate
  <2>1. /\ pc = "planned" /\ pc' \in {"generated", "failed"}
        /\ UNCHANGED <<request, at, todo, steps>>
    BY <1>2 DEF Generate
  <2>2. at = Len(Contributions) /\ todo = {} /\ KnownProcessor
    BY <2>1 DEF PlannerInv, ProcessorsKnown
  <2> QED BY <2>1, <2>2, PlannerQuiet
<1>3. CASE Dismiss
  BY <1>3 DEF Dismiss, PlannerInv, Placed, ClaimsExact, ClaimsSound, ProcessorsKnown,
              RefusedDefective
<1>4. CASE (\E x \in Path : AuthorWrites(x) \/ AuthorRemoves(x)) \/ UNCHANGED vars
  <2>1. UNCHANGED <<pc, request, at, todo, steps>>
    BY <1>4 DEF AuthorWrites, AuthorRemoves, vars
  <2>2. CASE pc # "idle"
    BY <2>1, <2>2, PlannerQuiet DEF PlannerInv, Placed, ProcessorsKnown, RefusedDefective
  <2>3. CASE pc = "idle"
    BY <2>1, <2>3 DEF PlannerInv, Placed, ClaimsExact, ClaimsSound, ProcessorsKnown,
                      RefusedDefective
  <2> QED BY <2>2, <2>3
<1> QED BY <1>1, <1>2, <1>3, <1>4, AskKeeps, RefuseContributionKeeps, RefuseEntryKeeps,
           TakeEntryKeeps, NextContributionKeeps DEF Next

\* A request whose every entry was claimed has nothing wrong with it.
LEMMA ClaimedIsSound ==
    ASSUME PlannerInv, pc \in {"planned", "generated", "failed"}
    PROVE  ~Defective(request)
<1>1. pc # "idle" /\ at = Len(Contributions) /\ todo = {} /\ at \in Is
  BY DEF PlannerInv, ProcessorsKnown, Placed
<1>2. \A i \in Is : Contributions[i].processor \in {"copy", "substitute"}
  BY <1>1 DEF PlannerInv, ProcessorsKnown, KnownProcessor, Here, Contributions, Is
<1>3. \A i \in Is : \A e \in Contributions[i].entries : Done(i, e)
  BY <1>1 DEF Done, Is
<1>4. ASSUME NEW i \in Is, NEW e \in Contributions[i].entries,
             e.path \notin Contributions[i].overrides
      PROVE  /\ \A j \in Contributors(request, e.path) : ~(j < i)
             /\ EntriesAt(request, i, e.path) = {e}
  <2>1. ASSUME NEW j \in 1 .. i, NEW f \in EntriesAt(request, j, e.path) PROVE j = i /\ f = e
    <3>1. j \in Is /\ f \in Contributions[j].entries /\ f.path = e.path
      BY DEF EntriesAt, Contributions, Is
    <3> QED BY <1>1, <1>3, <1>4, <3>1 DEF PlannerInv, ClaimsSound
  <2>2. e \in EntriesAt(request, i, e.path) /\ i \in 1 .. i
    BY DEF EntriesAt, Contributions, Is
  <2>3. \A j \in Contributors(request, e.path) : j \in Is /\ EntriesAt(request, j, e.path) # {}
    BY DEF Contributors, Is, Contributions
  <2>4. \A j \in Is : j < i => j \in 1 .. i
    BY DEF Is
  <2>5. ASSUME NEW j \in Contributors(request, e.path), j < i PROVE FALSE
    BY <2>1, <2>3, <2>4, <2>5 DEF Is
  <2> QED BY <2>1, <2>2, <2>5
<1>5. \A i \in Is : \A e \in Contributions[i].entries : Sound(request, i, e)
  BY <1>1, <1>3 DEF PlannerInv, ClaimsSound
<1> QED BY <1>2, <1>4, <1>5 DEF Defective, Sound, Is, Contributions

\* A request is refused exactly when something is wrong with it
\* (Generation!RefusedIffDefective).
THEOREM RefusalExact == Spec => []RefusedIffDefective
<1>1. PlannerInv => RefusedIffDefective
  BY ClaimedIsSound DEF PlannerInv, RefusedDefective, RefusedIffDefective
<1> QED BY <1>1, PlannerInit, PlannerNext, PTL DEF Spec

-----------------------------------------------------------------------------
(* The order of a plan.                                                    *)

Keys == Nat \X Nat \X Nat \X Nat

\* The order is that of the first component in which two keys differ.
LEMMA LessCases ==
    ASSUME NEW a \in Keys, NEW b \in Keys
    PROVE  Less(a, b) <=>
             \/ a[1] < b[1]
             \/ a[1] = b[1] /\ a[2] < b[2]
             \/ a[1] = b[1] /\ a[2] = b[2] /\ a[3] < b[3]
             \/ a[1] = b[1] /\ a[2] = b[2] /\ a[3] = b[3] /\ a[4] < b[4]
<1> DEFINE At(i) == a[i] < b[i] /\ \A j \in 1 .. i - 1 : a[j] = b[j]
<1>1. At(1) <=> a[1] < b[1]
  OBVIOUS
<1>2. At(2) <=> a[1] = b[1] /\ a[2] < b[2]
  OBVIOUS
<1>3. At(3) <=> a[1] = b[1] /\ a[2] = b[2] /\ a[3] < b[3]
  OBVIOUS
<1>4. At(4) <=> a[1] = b[1] /\ a[2] = b[2] /\ a[3] = b[3] /\ a[4] < b[4]
  OBVIOUS
<1>5. Less(a, b) <=> At(1) \/ At(2) \/ At(3) \/ At(4)
  <2>1. 1 .. 4 = {1, 2, 3, 4}
    OBVIOUS
  <2> QED BY <2>1 DEF Less
<1> HIDE DEF At
<1> QED BY <1>1, <1>2, <1>3, <1>4, <1>5

\* It is a strict order, and total.
LEMMA LessOrder ==
    ASSUME NEW a \in Keys, NEW b \in Keys, NEW c \in Keys
    PROVE  /\ ~Less(a, a)
           /\ Less(a, b) /\ Less(b, c) => Less(a, c)
           /\ Less(a, b) \/ Less(b, a) \/ a = b
<1>1. ~Less(a, a)
  BY LessCases DEF Keys
<1>2. Less(a, b) /\ Less(b, c) => Less(a, c)
  BY LessCases DEF Keys
<1>3. Less(a, b) \/ Less(b, a) \/ a = b
  BY LessCases DEF Keys
<1> QED BY <1>1, <1>2, <1>3

\* Steps that the order tells apart.
Ordered(ss) ==
    /\ IsFiniteSet(ss)
    /\ \A s \in ss : s.path \in Path /\ s.phase \in DOMAIN PhaseOrder /\ s.no \in Nat
    /\ \A s, t \in ss :
         s.no = t.no /\ s.path = t.path /\ (s.node = Dir <=> t.node = Dir) => s = t

LEMMA KeysTellApart ==
    ASSUME NEW ss, Ordered(ss)
    PROVE  /\ \A s \in ss : SortKey(s) \in Keys
           /\ \A s, t \in ss : SortKey(s) = SortKey(t) => s = t
<1>1. ASSUME NEW s \in ss PROVE SortKey(s) \in Keys
  <2>1. PhaseOrder[s.phase] \in Nat /\ Rank[s.path] \in Nat /\ s.no \in Nat
    BY RankAssumption DEF Ordered, PhaseOrder
  <2> QED BY <2>1 DEF SortKey, Keys
<1>2. ASSUME NEW s \in ss, NEW t \in ss, SortKey(s) = SortKey(t) PROVE s = t
  <2>1. /\ (IF s.node = Dir THEN 0 ELSE 1) = IF t.node = Dir THEN 0 ELSE 1
        /\ Rank[s.path] = Rank[t.path] /\ s.no = t.no
    BY <1>2 DEF SortKey
  <2>2. s.path = t.path
    BY <2>1, RankAssumption DEF Ordered
  <2> QED BY <2>1, <2>2 DEF Ordered
<1> QED BY <1>1, <1>2

Smaller(ss, s) == {o \in ss : Less(SortKey(o), SortKey(s))}

\* A step has fewer before it than the steps after it have.
LEMMA SmallerGrows ==
    ASSUME NEW ss, Ordered(ss), NEW s \in ss
    PROVE  /\ Cardinality(Smaller(ss, s)) \in 0 .. Cardinality(ss) - 1
           /\ \A t \in ss : Less(SortKey(s), SortKey(t)) =>
                Cardinality(Smaller(ss, s)) < Cardinality(Smaller(ss, t))
<1>1. \A t \in ss : /\ Smaller(ss, t) \subseteq ss /\ t \notin Smaller(ss, t)
                    /\ IsFiniteSet(Smaller(ss, t)) /\ Cardinality(Smaller(ss, t)) \in Nat
  <2>1. ASSUME NEW t \in ss PROVE Smaller(ss, t) \subseteq ss /\ t \notin Smaller(ss, t)
    BY KeysTellApart, LessOrder DEF Smaller
  <2> QED BY <2>1, FS_Subset, FS_CardinalityType DEF Ordered
<1>2. ASSUME NEW T, Smaller(ss, s) \subseteq T, s \in T, IsFiniteSet(T)
      PROVE  Cardinality(Smaller(ss, s)) < Cardinality(T) /\ Cardinality(T) \in Nat
  <2>1. Cardinality(Smaller(ss, s)) <= Cardinality(T)
        /\ (Cardinality(T) = Cardinality(Smaller(ss, s)) => T = Smaller(ss, s))
    BY <1>2, FS_Subset
  <2>2. Cardinality(T) \in Nat
    BY <1>2, FS_CardinalityType
  <2> QED BY <1>1, <1>2, <2>1, <2>2
<1>3. Cardinality(Smaller(ss, s)) \in 0 .. Cardinality(ss) - 1
  BY <1>1, <1>2 DEF Ordered
<1>4. ASSUME NEW t \in ss, Less(SortKey(s), SortKey(t))
      PROVE  Cardinality(Smaller(ss, s)) < Cardinality(Smaller(ss, t))
  <2>1. Smaller(ss, s) \subseteq Smaller(ss, t)
    <3>1. ASSUME NEW o \in ss, Less(SortKey(o), SortKey(s)) PROVE Less(SortKey(o), SortKey(t))
      BY <1>4, <3>1, KeysTellApart, LessOrder
    <3> QED BY <3>1 DEF Smaller
  <2>2. s \in Smaller(ss, t)
    BY <1>4 DEF Smaller
  <2> QED BY <1>1, <1>2, <2>1, <2>2
<1> QED BY <1>3, <1>4

\* Sorting loses no step, adds none, and puts them in order.
LEMMA SortedFacts ==
    ASSUME NEW ss, Ordered(ss)
    PROVE  /\ Sorted(ss) \in Seq(ss) /\ Len(Sorted(ss)) = Cardinality(ss)
           /\ {Sorted(ss)[k] : k \in DOMAIN Sorted(ss)} = ss
           /\ \A i, j \in DOMAIN Sorted(ss) :
                i < j => Less(SortKey(Sorted(ss)[i]), SortKey(Sorted(ss)[j]))
<1> DEFINE n == Cardinality(ss)
           rank == [s \in ss |-> Cardinality(Smaller(ss, s))]
<1>1. n \in Nat /\ IsFiniteSet(ss)
  BY FS_CardinalityType DEF Ordered
<1>2. /\ IsFiniteSet(0 .. n - 1) /\ Cardinality(0 .. n - 1) = n
  <2>1. 0 \in Int /\ n - 1 \in Int
    BY <1>1
  <2>2. /\ IsFiniteSet(0 .. n - 1)
        /\ Cardinality(0 .. n - 1) = IF 0 > n - 1 THEN 0 ELSE n - 1 - 0 + 1
    BY <2>1, FS_Interval
  <2> QED BY <1>1, <2>2
<1>3. \A s, t \in ss : Cardinality(Smaller(ss, s)) = Cardinality(Smaller(ss, t)) => s = t
  <2>1. ASSUME NEW s \in ss, NEW t \in ss, s # t
        PROVE  Cardinality(Smaller(ss, s)) # Cardinality(Smaller(ss, t))
    <3>1. Less(SortKey(s), SortKey(t)) \/ Less(SortKey(t), SortKey(s))
      BY <2>1, KeysTellApart, LessOrder
    <3>2. Cardinality(Smaller(ss, s)) \in Int /\ Cardinality(Smaller(ss, t)) \in Int
      BY <1>1, SmallerGrows
    <3> QED BY <3>1, <3>2, SmallerGrows
  <2> QED BY <2>1
<1>4. rank \in Injection(ss, 0 .. n - 1)
  BY <1>3, SmallerGrows DEF Injection, IsInjective
<1>5. rank \in Surjection(ss, 0 .. n - 1)
  BY <1>1, <1>2, <1>4, FS_Injection
<1>6. ASSUME NEW k \in 1 .. n
      PROVE  Sorted(ss)[k] \in ss /\ Cardinality(Smaller(ss, Sorted(ss)[k])) = k - 1
  <2>0. k - 1 \in 0 .. n - 1
    BY <1>1
  <2>1. \E s \in ss : rank[s] = k - 1
    <3> HIDE DEF rank
    <3>1. \A t \in 0 .. n - 1 : \E s \in ss : rank[s] = t
      BY <1>5 DEF Surjection
    <3> QED BY <2>0, <3>1
  <2>2. \E s \in ss : Cardinality({o \in ss : Less(SortKey(o), SortKey(s))}) = k - 1
    BY <2>1 DEF Smaller
  <2>3. Sorted(ss)[k] = CHOOSE s \in ss :
                          Cardinality({o \in ss : Less(SortKey(o), SortKey(s))}) = k - 1
    BY DEF Sorted
  <2> QED BY <2>2, <2>3 DEF Smaller
<1>7. /\ Sorted(ss) \in Seq(ss) /\ Len(Sorted(ss)) = n
      /\ DOMAIN Sorted(ss) = 1 .. n
  <2>1. Sorted(ss) \in [1 .. n -> ss]
    BY <1>6 DEF Sorted
  <2>2. Sorted(ss) \in Seq(ss)
    BY <1>1, <2>1
  <2>3. DOMAIN Sorted(ss) = 1 .. n
    BY <2>1
  <2>4. Len(Sorted(ss)) = n
    BY <1>1, <2>2, <2>3, LenProperties
  <2> QED BY <2>2, <2>3, <2>4
<1>8. {Sorted(ss)[k] : k \in DOMAIN Sorted(ss)} = ss
  <2>1. ASSUME NEW s \in ss PROVE \E k \in 1 .. n : Sorted(ss)[k] = s
    <3>1. Cardinality(Smaller(ss, s)) \in 0 .. n - 1
      BY SmallerGrows
    <3>2. Cardinality(Smaller(ss, s)) + 1 \in 1 .. n
      BY <1>1, <3>1
    <3>3. Cardinality(Smaller(ss, Sorted(ss)[Cardinality(Smaller(ss, s)) + 1]))
            = Cardinality(Smaller(ss, s))
      BY <1>6, <3>1, <3>2
    <3> QED BY <1>3, <1>6, <3>2, <3>3
  <2> QED BY <1>6, <1>7, <2>1
<1>9. ASSUME NEW i \in 1 .. n, NEW j \in 1 .. n, i < j
      PROVE  Less(SortKey(Sorted(ss)[i]), SortKey(Sorted(ss)[j]))
  <2> DEFINE s == Sorted(ss)[i]
             t == Sorted(ss)[j]
  <2>1. /\ s \in ss /\ t \in ss
        /\ Cardinality(Smaller(ss, s)) = i - 1 /\ Cardinality(Smaller(ss, t)) = j - 1
    BY <1>6
  <2> HIDE DEF s, t
  <2>2. Cardinality(Smaller(ss, s)) < Cardinality(Smaller(ss, t))
    BY <1>1, <1>9, <2>1
  <2>3. ~Less(SortKey(t), SortKey(s))
    <3>1. Less(SortKey(t), SortKey(s)) =>
            Cardinality(Smaller(ss, t)) < Cardinality(Smaller(ss, s))
      BY <2>1, SmallerGrows
    <3> QED BY <1>1, <1>9, <2>1, <3>1
  <2>4. s # t
    BY <1>1, <1>9, <2>1
  <2>5. Less(SortKey(s), SortKey(t))
    BY <2>1, <2>3, <2>4, KeysTellApart, LessOrder
  <2> QED BY <2>5 DEF s, t
<1> QED BY <1>7, <1>8, <1>9

-----------------------------------------------------------------------------
(* The steps of a plan.                                                    *)

\* The step an entry calls for, without its number.
FileOf(r, i, e) ==
    [phase |-> r.contributions[i].phase, path |-> e.path,
     node |-> Processed(r.contributions[i], e.payload),
     ownership |-> ClassFrom(r, i, e.path), origin |-> i]

DirectoryOf(x, phase) ==
    [phase |-> phase, path |-> x, node |-> Dir, ownership |-> "seeded", origin |-> 0]

DirsOf(ss) == ss \ FilesOf(ss)

\* One file step for each entry claimed.
FilesExact ==
    /\ \A s \in FilesOf(steps) :
         /\ s.origin \in Is
         /\ \E e \in Contributions[s.origin].entries :
              Done(s.origin, e) /\ Unnumbered(s) = FileOf(request, s.origin, e)
    /\ \A i \in Is : \A e \in Contributions[i].entries :
         Done(i, e) => \E s \in FilesOf(steps) : Unnumbered(s) = FileOf(request, i, e)

\* One directory step for each directory above a claimed path, of the phase of the
\* first contribution with a file in it.
DirectoriesExact ==
    /\ \A s \in DirsOf(steps) :
         /\ Unnumbered(s) = DirectoryOf(s.path, s.phase)
         /\ \E i \in Is :
              /\ s.phase = Contributions[i].phase
              /\ \E e \in Contributions[i].entries : Done(i, e) /\ s.path \in Under[e.path]
              /\ \A j \in Is : \A f \in Contributions[j].entries :
                   Done(j, f) /\ s.path \in Under[f.path] => i <= j
    /\ \A i \in Is : \A e \in Contributions[i].entries :
         Done(i, e) => Under[e.path] \subseteq Directories

\* The order of emission is that of the contributions.
Numbered ==
    /\ IsFiniteSet(steps)
    /\ \A s \in steps :
         /\ s.path \in Path /\ s.phase \in {"template", "kit", "package"}
         /\ s.no \in 1 .. Cardinality(steps) /\ s.origin \in 0 .. at
    /\ \A s, t \in steps :
         s.no = t.no /\ s.path = t.path /\ (s.node = Dir <=> t.node = Dir) => s = t
    /\ \A s, t \in DirsOf(steps) : s.path = t.path => s = t
    /\ \A s, t \in FilesOf(steps) : s.no < t.no => s.origin <= t.origin
    /\ OneEntryEach(request) =>
         \A s, t \in FilesOf(steps) : s.path = t.path /\ s.origin = t.origin => s = t

PlanMade ==
    /\ pc \in {"planned", "generated", "failed"} => plan = Sorted(steps \cup WorkingDirectoryStep)
    /\ pc = "generated" => record = Provenance

StepsInv == (pc # "idle" => FilesExact /\ DirectoriesExact /\ Numbered) /\ PlanMade

LEMMA StepsInit == Init => StepsInv
BY DEF Init, StepsInv, PlanMade

LEMMA StepsAsk == PlannerInv /\ Ask => StepsInv'
<1> SUFFICES ASSUME PlannerInv, Ask PROVE StepsInv'
  OBVIOUS
<1>1. PICK r \in Requests : request' = r /\ todo' = r.contributions[1].entries
  BY DEF Ask
<1>2. pc' = "building" /\ at' = 1 /\ steps' = {}
  BY DEF Ask, PlannerInv, Placed
<1>3. FilesOf(steps)' = {} /\ DirsOf(steps)' = {}
  BY <1>2 DEF FilesOf, DirsOf
<1>4. \A i \in Is' : \A e \in Contributions'[i].entries : ~Done(i, e)'
  BY <1>1, <1>2 DEF Is, Contributions, Done
<1>5. FilesExact' /\ DirectoriesExact'
  BY <1>3, <1>4 DEF FilesExact, DirectoriesExact
<1>6. Numbered'
  BY <1>2, <1>3, FS_EmptySet DEF Numbered
<1> QED BY <1>2, <1>5, <1>6 DEF StepsInv, PlanMade

\* The step for e, and the steps for the directories above it.
LEMMA StepsTakeEntry ==
    ASSUME PlannerInv, StepsInv, TakeEntry
    PROVE  StepsInv'
<1> DEFINE no == Cardinality(steps) + 1
<1>1. PICK e \in todo :
        /\ ~Refusable(e) /\ todo' = todo \ {e} /\ FileStep(e, no).node # Dir
        /\ steps' = steps \cup {DirStep(x, Here.phase, no) : x \in NewDirectories(e.path)}
                          \cup {FileStep(e, no)}
  BY TakeEntryFacts
<1> DEFINE new == FileStep(e, no)
           dirs == {DirStep(x, Here.phase, no) : x \in NewDirectories(e.path)}
<1>2. pc = "building" /\ UNCHANGED <<pc, request, at, plan, record>>
  BY DEF TakeEntry
<1>3. at \in Is /\ e \in Contributions[at].entries /\ Here = Contributions[at]
  BY <1>2 DEF PlannerInv, Placed, Here, Contributions
<1>4. /\ Contributions' = Contributions /\ Is' = Is
      /\ \A i \in Is : \A f : Done(i, f)' <=> (Done(i, f) \/ (i = at /\ f = e))
      /\ ~Done(at, e)
  BY <1>1, <1>2, <1>3 DEF Contributions, Is, Done
<1>5. FilesExact /\ DirectoriesExact /\ Numbered
  BY <1>2 DEF StepsInv
<1>6. e.path \in Path /\ Under[e.path] \subseteq Path /\ IsFiniteSet(Under[e.path])
      /\ Here.phase \in {"template", "kit", "package"} /\ at \in Nat \ {0}
  <2>1. Here \in Contribution /\ e.path \in Path \cup {Unsafe}
    BY <1>2, <1>3, RequestFacts DEF PlannerInv, Placed, Contributions, Is
  <2>2. e.path \in Path
    BY <1>1, <2>1 DEF Refusable
  <2>3. at \in Nat \ {0}
    BY <1>3 DEF Is
  <2> QED BY <2>1, <2>2, <2>3, PathAssumption, UnderAssumption DEF Contribution
<1>7. /\ new.no = no /\ new.path = e.path /\ new.phase = Here.phase /\ new.origin = at
      /\ new.node # Dir
      /\ Unnumbered(new) = FileOf(request, at, e)
  <2>1. Here = request.contributions[at]
    BY DEF Here
  <2> QED BY <1>1, <2>1 DEF FileStep, Unnumbered, FileOf, ClassFrom
<1>8. \A s \in dirs : /\ s.no = no /\ s.path \in NewDirectories(e.path) /\ s.phase = Here.phase
                      /\ s.node = Dir /\ s.origin = 0
                      /\ Unnumbered(s) = DirectoryOf(s.path, s.phase)
                      /\ s = DirStep(s.path, Here.phase, no)
  BY DEF DirStep, Unnumbered, DirectoryOf
<1>9. \A x \in NewDirectories(e.path) : \E s \in dirs : s.path = x
  <2>1. \A x \in NewDirectories(e.path) :
          DirStep(x, Here.phase, no) \in dirs /\ DirStep(x, Here.phase, no).path = x
    BY DEF DirStep
  <2> QED BY <2>1
<1>10. IsFiniteSet(dirs)
  <2>1. IsFiniteSet(NewDirectories(e.path))
    BY <1>6, FS_Subset DEF NewDirectories
  <2> DEFINE step == [x \in NewDirectories(e.path) |-> DirStep(x, Here.phase, no)]
  <2>2. step \in Surjection(NewDirectories(e.path), dirs)
    BY DEF Surjection
  <2> QED BY <2>1, <2>2, FS_Surjection
<1> HIDE DEF new, dirs
<1>11. steps' = steps \cup dirs \cup {new}
  BY <1>1 DEF new, dirs
<1>12. /\ FilesOf(steps)' = FilesOf(steps) \cup {new}
       /\ DirsOf(steps)' = DirsOf(steps) \cup dirs
  BY <1>7, <1>8, <1>11 DEF FilesOf, DirsOf
<1>13. Directories' = Directories \cup Under[e.path]
  <2>1. Directories' = Directories \cup {s.path : s \in dirs}
    BY <1>12 DEF Directories, DirsOf
  <2>2. {s.path : s \in dirs} = NewDirectories(e.path)
    BY <1>8, <1>9
  <2> QED BY <2>1, <2>2 DEF NewDirectories
<1>14. FilesExact'
  <2>1. \A s \in FilesOf(steps)' :
          /\ s.origin \in Is
          /\ \E f \in Contributions[s.origin].entries :
               Done(s.origin, f)' /\ Unnumbered(s) = FileOf(request, s.origin, f)
    BY <1>3, <1>4, <1>5, <1>7, <1>12 DEF FilesExact
  <2>2. ASSUME NEW i \in Is, NEW f \in Contributions[i].entries, Done(i, f)'
        PROVE  \E s \in FilesOf(steps)' : Unnumbered(s) = FileOf(request, i, f)
    BY <1>4, <1>5, <1>7, <1>12, <2>2 DEF FilesExact
  <2> QED BY <1>2, <1>4, <2>1, <2>2 DEF FilesExact
<1>15. DirectoriesExact'
  <2>1. ASSUME NEW s \in DirsOf(steps)'
        PROVE  /\ Unnumbered(s) = DirectoryOf(s.path, s.phase)
               /\ \E i \in Is :
                    /\ s.phase = Contributions[i].phase
                    /\ \E f \in Contributions[i].entries : Done(i, f)' /\ s.path \in Under[f.path]
                    /\ \A j \in Is : \A f \in Contributions[j].entries :
                         Done(j, f)' /\ s.path \in Under[f.path] => i <= j
    <3>1. CASE s \in DirsOf(steps)
      <4>1. PICK i \in Is :
              /\ s.phase = Contributions[i].phase
              /\ \E f \in Contributions[i].entries : Done(i, f) /\ s.path \in Under[f.path]
              /\ \A j \in Is : \A f \in Contributions[j].entries :
                   Done(j, f) /\ s.path \in Under[f.path] => i <= j
        BY <1>5, <3>1 DEF DirectoriesExact
      <4>2. i <= at
        BY <1>3, <4>1 DEF Done, Is
      <4>3. Unnumbered(s) = DirectoryOf(s.path, s.phase)
        BY <1>5, <3>1 DEF DirectoriesExact
      <4> QED BY <1>4, <4>1, <4>2, <4>3
    <3>2. CASE s \in dirs
      <4>1. s.path \in Under[e.path] /\ s.path \notin Directories
        BY <1>8, <3>2 DEF NewDirectories
      <4>2. ASSUME NEW j \in Is, NEW f \in Contributions[j].entries,
                   Done(j, f)', s.path \in Under[f.path]
            PROVE  j = at
        BY <1>4, <1>5, <4>1, <4>2 DEF DirectoriesExact
      <4>3. \A j \in Is : \A f \in Contributions[j].entries :
              Done(j, f)' /\ s.path \in Under[f.path] => at <= j
        BY <1>3, <4>2 DEF Is
      <4>4. s.phase = Contributions[at].phase /\ Unnumbered(s) = DirectoryOf(s.path, s.phase)
        BY <1>3, <1>8, <3>2
      <4>5. PICK i \in Is : i = at /\ Done(i, e)'
        BY <1>3, <1>4
      <4> QED BY <1>3, <4>1, <4>3, <4>4, <4>5
    <3> QED BY <1>12, <2>1, <3>1, <3>2
  <2>2. ASSUME NEW i \in Is, NEW f \in Contributions[i].entries, Done(i, f)'
        PROVE  Under[f.path] \subseteq Directories'
    BY <1>4, <1>5, <1>13, <2>2 DEF DirectoriesExact
  <2> QED BY <1>4, <2>1, <2>2 DEF DirectoriesExact
<1>16. Numbered'
  <2>1. /\ IsFiniteSet(steps') /\ Cardinality(steps) \in Nat /\ Cardinality(steps') \in Nat
        /\ no <= Cardinality(steps')
    <3>1. IsFiniteSet(steps \cup dirs) /\ IsFiniteSet(steps')
      BY <1>5, <1>10, <1>11, FS_Union, FS_AddElement DEF Numbered
    <3>2. new \notin steps \cup dirs
      <4>1. Cardinality(steps) \in Nat
        BY <1>5, FS_CardinalityType DEF Numbered
      <4> QED BY <1>5, <1>7, <1>8, <4>1 DEF Numbered
    <3>3. Cardinality(steps') = Cardinality(steps \cup dirs) + 1
      BY <1>11, <3>1, <3>2, FS_AddElement
    <3>4. Cardinality(steps) <= Cardinality(steps \cup dirs)
      BY <3>1, FS_Subset
    <3>5. Cardinality(steps) \in Nat /\ Cardinality(steps') \in Nat
          /\ Cardinality(steps \cup dirs) \in Nat
      BY <1>5, <3>1, FS_CardinalityType DEF Numbered
    <3> QED BY <3>1, <3>3, <3>4, <3>5
  <2> HIDE DEF no
  <2>2. /\ no \in 1 .. Cardinality(steps')
        /\ \A s \in steps : s.no < no /\ s.no \in 1 .. Cardinality(steps')
    BY <1>5, <2>1 DEF Numbered, no
  <2>3. ASSUME NEW s \in steps'
        PROVE  /\ s.path \in Path /\ s.phase \in {"template", "kit", "package"}
               /\ s.no \in 1 .. Cardinality(steps') /\ s.origin \in 0 .. at
    <3>1. CASE s \in steps
      BY <1>5, <2>2, <3>1 DEF Numbered
    <3>2. CASE s \in dirs
      BY <1>6, <1>8, <2>2, <3>2 DEF NewDirectories
    <3>3. CASE s = new
      BY <1>6, <1>7, <2>2, <3>3
    <3> QED BY <1>11, <2>3, <3>1, <3>2, <3>3
  <2>4. ASSUME NEW s \in steps', NEW t \in steps', s.no = t.no, s.path = t.path,
               s.node = Dir <=> t.node = Dir
        PROVE  s = t
    <3>1. CASE s \in steps /\ t \in steps
      BY <1>5, <2>4, <3>1 DEF Numbered
    <3>2. CASE s \in dirs /\ t \in dirs
      BY <1>8, <2>4, <3>2
    <3>3. CASE s = new /\ t = new
      BY <3>3
    <3>4. CASE (s \in steps /\ t \notin steps) \/ (s \notin steps /\ t \in steps)
      <4>1. \A u \in dirs \cup {new} : u.no = no
        BY <1>7, <1>8
      <4>2. s.no # t.no
        <5>1. \A u \in steps : u.no # no
          BY <2>1, <2>2, <1>5 DEF Numbered, no
        <5> QED BY <1>11, <2>4, <3>4, <4>1, <5>1
      <4> QED BY <2>4, <4>2
    <3> QED BY <1>7, <1>8, <1>11, <2>4, <3>1, <3>2, <3>3, <3>4
  <2>5. ASSUME NEW s \in DirsOf(steps)', NEW t \in DirsOf(steps)', s.path = t.path
        PROVE  s = t
    <3>1. \A u \in DirsOf(steps) : u.path \in Directories
      BY DEF Directories, DirsOf
    <3>2. \A u \in dirs : u.path \notin Directories
      BY <1>8 DEF NewDirectories
    <3>3. CASE s \in DirsOf(steps) /\ t \in DirsOf(steps)
      BY <1>5, <2>5, <3>3 DEF Numbered
    <3>4. CASE s \in dirs /\ t \in dirs
      BY <1>8, <2>5, <3>4
    <3> QED BY <1>12, <2>5, <3>1, <3>2, <3>3, <3>4
  <2>6. ASSUME NEW s \in FilesOf(steps)', NEW t \in FilesOf(steps)', s.no < t.no
        PROVE  s.origin <= t.origin
    <3>1. CASE s \in FilesOf(steps) /\ t \in FilesOf(steps)
      BY <1>5, <2>6, <3>1 DEF Numbered
    <3>2. CASE s \in FilesOf(steps) /\ t = new
      <4>1. s.origin \in 0 .. at
        BY <1>5, <3>2 DEF Numbered, FilesOf
      <4> QED BY <1>7, <3>2, <4>1
    <3>3. CASE s = new
      <4>1. t.no \in 1 .. Cardinality(steps') /\ (t \in steps => t.no < no)
        BY <1>12, <2>2, <2>6, <1>7 DEF FilesOf
      <4> QED BY <1>7, <1>12, <2>2, <2>6, <3>3, <4>1 DEF FilesOf
    <3> QED BY <1>12, <2>6, <3>1, <3>2, <3>3
  <2>7. ASSUME OneEntryEach(request), NEW s \in FilesOf(steps)', NEW t \in FilesOf(steps)',
               s.path = t.path, s.origin = t.origin
        PROVE  s = t
    <3>1. ASSUME NEW u \in FilesOf(steps), u.path = e.path, u.origin = at PROVE FALSE
      <4>1. PICK f \in Contributions[at].entries :
              Done(at, f) /\ Unnumbered(u) = FileOf(request, at, f)
        BY <1>5, <3>1 DEF FilesExact
      <4>2. f.path = e.path
        BY <3>1, <4>1 DEF Unnumbered, FileOf
      <4>3. EntriesAt(request, at, e.path) = {e}
        BY <1>3, <2>7 DEF OneEntryEach, Is, Contributions
      <4>4. f = e
        BY <4>2, <4>3 DEF EntriesAt, Contributions
      <4> QED BY <1>4, <4>1, <4>4
    <3>2. CASE s \in FilesOf(steps) /\ t \in FilesOf(steps)
      BY <1>5, <2>7, <3>2 DEF Numbered
    <3> QED BY <1>7, <1>12, <2>7, <3>1, <3>2
  <2> QED BY <1>2, <2>1, <2>3, <2>4, <2>5, <2>6, <2>7 DEF Numbered
<1> QED BY <1>2, <1>14, <1>15, <1>16 DEF StepsInv, PlanMade

LEMMA StepsNextContribution ==
    ASSUME PlannerInv, StepsInv, NextContribution
    PROVE  StepsInv'
<1>1. /\ pc = "building" /\ UNCHANGED <<pc, request, steps, plan, record>>
      /\ todo = {} /\ at < Len(Contributions) /\ at' = at + 1
      /\ todo' = Contributions[at + 1].entries
  BY DEF NextContribution, Contributions
<1>2. at \in Is /\ Len(Contributions) \in Nat
  BY <1>1, RequestFacts DEF PlannerInv, Placed, Contributions
<1>3. /\ Contributions' = Contributions /\ Is' = Is /\ Directories' = Directories
      /\ FilesOf(steps)' = FilesOf(steps) /\ DirsOf(steps)' = DirsOf(steps)
      /\ \A i \in Is : \A f \in Contributions[i].entries : Done(i, f)' <=> Done(i, f)
  BY <1>1, <1>2 DEF Contributions, Is, Directories, FilesOf, DirsOf, Done
<1>4. FilesExact /\ DirectoriesExact /\ Numbered
  BY <1>1 DEF StepsInv
<1>5. FilesExact'
  BY <1>1, <1>3, <1>4 DEF FilesExact
<1>6. DirectoriesExact'
  BY <1>1, <1>3, <1>4 DEF DirectoriesExact
<1>7. Numbered'
  <2>1. \A s \in steps : s.origin \in 0 .. at => s.origin \in 0 .. at + 1
    BY <1>2 DEF Is
  <2> QED BY <1>1, <1>3, <1>4, <2>1 DEF Numbered
<1> QED BY <1>1, <1>5, <1>6, <1>7 DEF StepsInv, PlanMade

\* The steps that leave the planner's variables alone.
LEMMA StepsQuiet ==
    ASSUME StepsInv, UNCHANGED <<request, at, todo, steps>>, pc # "idle", PlanMade'
    PROVE  StepsInv'
<1>1. FilesExact' /\ DirectoriesExact' /\ Numbered'
  BY DEF StepsInv, FilesExact, DirectoriesExact, Numbered, Contributions, Is, Done, FilesOf,
         DirsOf, Directories
<1> QED BY <1>1 DEF StepsInv

\* StepsInv is inductive beside PlannerInv.
LEMMA StepsNext == PlannerInv /\ StepsInv /\ [Next]_vars => StepsInv'
<1> SUFFICES ASSUME PlannerInv, StepsInv, [Next]_vars PROVE StepsInv'
  OBVIOUS
<1>1. CASE RefuseContribution \/ RefuseEntry
  <2>1. UNCHANGED <<request, at, todo, steps>> /\ pc # "idle" /\ pc' = "refused"
    BY <1>1 DEF RefuseContribution, RefuseEntry, Refuse
  <2> QED BY <2>1, StepsQuiet DEF PlanMade
<1>2. CASE FinishPlan
  <2>1. UNCHANGED <<request, at, todo, steps>> /\ pc # "idle" /\ pc' = "planned"
        /\ plan' = Sorted(steps \cup WorkingDirectoryStep)
    BY <1>2 DEF FinishPlan
  <2>2. WorkingDirectoryStep' = WorkingDirectoryStep
    BY <2>1 DEF WorkingDirectoryStep, Directories, FilesOf
  <2> QED BY <2>1, <2>2, StepsQuiet DEF PlanMade
<1>3. CASE Generate
  <2>1. UNCHANGED <<request, at, todo, steps, plan>> /\ pc = "planned"
        /\ (pc' = "generated" => record' = Provenance)
    BY <1>3 DEF Generate
  <2>2. WorkingDirectoryStep' = WorkingDirectoryStep /\ Provenance' = Provenance
    BY <2>1 DEF WorkingDirectoryStep, Directories, FilesOf, Provenance
  <2>3. plan' = Sorted(steps \cup WorkingDirectoryStep)
    BY <2>1 DEF StepsInv, PlanMade
  <2> QED BY <2>1, <2>2, <2>3, StepsQuiet DEF PlanMade
<1>4. CASE Dismiss
  BY <1>4 DEF Dismiss, StepsInv, PlanMade
<1>5. CASE (\E x \in Path : AuthorWrites(x) \/ AuthorRemoves(x)) \/ UNCHANGED vars
  <2>1. UNCHANGED <<pc, request, at, todo, steps, plan, record>>
    BY <1>5 DEF AuthorWrites, AuthorRemoves, vars
  <2>2. PlanMade'
    BY <2>1 DEF StepsInv, PlanMade, WorkingDirectoryStep, Directories, FilesOf, Provenance
  <2>3. CASE pc # "idle"
    BY <2>1, <2>2, <2>3, StepsQuiet
  <2>4. CASE pc = "idle"
    BY <2>1, <2>2, <2>4 DEF StepsInv
  <2> QED BY <2>3, <2>4
<1> QED BY <1>1, <1>2, <1>3, <1>4, <1>5, StepsAsk, StepsTakeEntry, StepsNextContribution
        DEF Next

-----------------------------------------------------------------------------
(* What the plan is.                                                       *)

\* The order tells the steps of a plan apart.
LEMMA PlanOrdered ==
    ASSUME PlannerInv, StepsInv, pc \in {"planned", "generated", "failed"}
    PROVE  /\ Ordered(steps \cup WorkingDirectoryStep)
           /\ plan = Sorted(steps \cup WorkingDirectoryStep)
           /\ \A s \in WorkingDirectoryStep :
                /\ s.path = request.working /\ s.no = 0 /\ s.node = Dir
                /\ s.path \notin Directories
                /\ Unnumbered(s) = DirectoryOf(s.path, "workspace")
<1>1. Numbered /\ request \in Requests
  BY DEF StepsInv, PlannerInv, Placed
<1>2. \A s \in WorkingDirectoryStep :
        /\ s.path = request.working /\ s.no = 0 /\ s.node = Dir /\ s.path \notin Directories
        /\ Unnumbered(s) = DirectoryOf(s.path, "workspace")
        /\ s = DirStep(request.working, "workspace", 0) /\ s.phase = "workspace"
        /\ s.path \in Path
  BY <1>1, RequestAssumption
     DEF WorkingDirectoryStep, DirStep, Unnumbered, DirectoryOf
<1>3. IsFiniteSet(WorkingDirectoryStep)
  BY FS_EmptySet, FS_Singleton DEF WorkingDirectoryStep
<1>4. IsFiniteSet(steps \cup WorkingDirectoryStep)
  BY <1>1, <1>3, FS_Union DEF Numbered
<1>5. \A s \in steps : s.no \in Nat \ {0} /\ s.phase \in DOMAIN PhaseOrder
  <2>1. Cardinality(steps) \in Nat
    BY <1>1, FS_CardinalityType DEF Numbered
  <2> QED BY <1>1, <2>1 DEF Numbered, PhaseOrder
<1>6. \A s \in WorkingDirectoryStep : s.phase \in DOMAIN PhaseOrder
  BY <1>2 DEF PhaseOrder
<1>7. Ordered(steps \cup WorkingDirectoryStep)
  BY <1>1, <1>2, <1>4, <1>5, <1>6 DEF Ordered, Numbered
<1> QED BY <1>2, <1>7 DEF StepsInv, PlanMade

\* Nothing of the generator's is planned in the working directory.
LEMMA PlanOwned ==
    ASSUME PlannerInv, StepsInv, pc \in {"planned", "generated", "failed"},
           NEW i \in 1 .. Len(plan), plan[i].ownership = "generated"
    PROVE  ~InWorkingDirectory(request, plan[i].path)
<1>1. plan[i] \in steps \cup WorkingDirectoryStep
  <2>1. plan \in Seq(steps \cup WorkingDirectoryStep)
    BY PlanOrdered, SortedFacts
  <2> QED BY <2>1, ElementOfSeq
<1>2. \A s : /\ Unnumbered(s).ownership = s.ownership /\ Unnumbered(s).path = s.path
             /\ \A x, phase : Unnumbered(s) = DirectoryOf(x, phase) => s.ownership = "seeded"
  BY DEF Unnumbered, DirectoryOf
<1>3. plan[i] \notin WorkingDirectoryStep
  BY <1>2, PlanOrdered
<1>4. plan[i] \notin DirsOf(steps)
  BY <1>2 DEF StepsInv, DirectoriesExact
<1>5. plan[i] \in FilesOf(steps)
  BY <1>1, <1>3, <1>4 DEF DirsOf
<1>6. PICK j \in Is : \E e \in Contributions[j].entries :
        Done(j, e) /\ Unnumbered(plan[i]) = FileOf(request, j, e)
  BY <1>5 DEF StepsInv, FilesExact
<1>7. PICK e \in Contributions[j].entries :
        Done(j, e) /\ Unnumbered(plan[i]) = FileOf(request, j, e)
  BY <1>6
<1>8. plan[i].path = e.path /\ ClassFrom(request, j, e.path) = "generated"
  BY <1>2, <1>7 DEF FileOf
<1>9. Sound(request, j, e)
  BY <1>7 DEF PlannerInv, ClaimsSound
<1> QED BY <1>8, <1>9 DEF Sound

\* No file of the working directory is reported as modified, whatever an author
\* writes into it (Generation!AuthorsFilesFree).
THEOREM AuthorsFree == Spec => []AuthorsFilesFree
<1>1. PlannerInv /\ StepsInv => AuthorsFilesFree
  <2> SUFFICES ASSUME PlannerInv, StepsInv, Verifiable, NEW x \in PathsOf(Modified)
               PROVE  ~InWorkingDirectory(request, x)
    BY DEF AuthorsFilesFree
  <2>1. PICK row \in record : row.path = x /\ row.ownership = "generated"
    BY DEF PathsOf, Modified, Changed
  <2>2. pc = "generated" /\ record = Provenance
    BY DEF Verifiable, StepsInv, PlanMade
  <2>3. PICK i \in FileSteps(plan) :
          row = [path |-> plan[i].path, ownership |-> plan[i].ownership,
                 sha256 |-> HashOf(plan, plan[i].path)]
    BY <2>1, <2>2 DEF Provenance
  <2>4. row.path = plan[i].path /\ row.ownership = plan[i].ownership
    BY <2>3
  <2>5. i \in 1 .. Len(plan)
    BY DEF FileSteps
  <2> QED BY <2>1, <2>2, <2>4, <2>5, PlanOwned
<1> QED BY <1>1, PlannerInit, PlannerNext, StepsInit, StepsNext, PTL DEF Spec

-----------------------------------------------------------------------------
(* The plan is the one the request calls for.                              *)

\* Generation!Wanted in the words used here.
FilesWanted(r) ==
    UNION {{FileOf(r, i, e) : e \in r.contributions[i].entries} : i \in 1 .. Len(r.contributions)}
AboveWanted(r) == UNION {Under[f.path] : f \in FilesWanted(r)}
FilesBelow(r, x) == {f \in FilesWanted(r) : x \in Under[f.path]}
FirstBelow(r, x) ==
    CHOOSE f \in FilesBelow(r, x) : \A g \in FilesBelow(r, x) : f.origin <= g.origin

LEMMA WantedParts ==
    ASSUME NEW r
    PROVE  Wanted(r) =
             FilesWanted(r)
             \cup {DirectoryOf(x, FirstBelow(r, x).phase) : x \in AboveWanted(r)}
             \cup {DirectoryOf(x, "workspace") : x \in {r.working} \ (AboveWanted(r) \cup {None})}
BY DEF Wanted, FilesWanted, AboveWanted, FilesBelow, FirstBelow, FileOf, DirectoryOf

\* When all is claimed, the file steps are those wanted.
LEMMA FileStepsWanted ==
    ASSUME PlannerInv, StepsInv, pc = "planned"
    PROVE  /\ {Unnumbered(s) : s \in FilesOf(steps)} = FilesWanted(request)
           /\ \A f \in FilesWanted(request) :
                \E i \in Is : \E e \in Contributions[i].entries :
                  Done(i, e) /\ f = FileOf(request, i, e)
           /\ \A i \in Is : \A e \in Contributions[i].entries :
                Done(i, e) /\ FileOf(request, i, e) \in FilesWanted(request)
<1>1. FilesExact /\ at = Len(Contributions) /\ todo = {}
  BY DEF PlannerInv, ProcessorsKnown, StepsInv
<1>2. \A i \in Is : \A e \in Contributions[i].entries : Done(i, e)
  BY <1>1 DEF Done, Is
<1>3. \A i \in Is : \A e \in Contributions[i].entries :
        FileOf(request, i, e) \in FilesWanted(request)
  BY DEF FilesWanted, Is, Contributions
<1>4. \A f \in FilesWanted(request) :
        \E i \in Is : \E e \in Contributions[i].entries : f = FileOf(request, i, e)
  BY DEF FilesWanted, Is, Contributions
<1>5. \A s \in FilesOf(steps) : Unnumbered(s) \in FilesWanted(request)
  BY <1>1, <1>3 DEF FilesExact
<1>6. \A f \in FilesWanted(request) : \E s \in FilesOf(steps) : Unnumbered(s) = f
  BY <1>1, <1>2, <1>4 DEF FilesExact
<1> QED BY <1>2, <1>3, <1>4, <1>5, <1>6

\* And so are the directories, each in the phase of the first file below it.
LEMMA DirectoryStepsWanted ==
    ASSUME PlannerInv, StepsInv, pc = "planned"
    PROVE  /\ Directories = AboveWanted(request)
           /\ \A s \in DirsOf(steps) :
                Unnumbered(s) = DirectoryOf(s.path, FirstBelow(request, s.path).phase)
<1>1. DirectoriesExact
  BY DEF StepsInv
<1>2. \A i, e : /\ FileOf(request, i, e).path = e.path /\ FileOf(request, i, e).origin = i
                /\ FileOf(request, i, e).phase = Contributions[i].phase
  BY DEF FileOf, Contributions
<1>3. ASSUME NEW s \in DirsOf(steps)
      PROVE  /\ s.path \in AboveWanted(request)
             /\ Unnumbered(s) = DirectoryOf(s.path, FirstBelow(request, s.path).phase)
  <2>1. PICK i \in Is :
          /\ s.phase = Contributions[i].phase
          /\ \E e \in Contributions[i].entries : Done(i, e) /\ s.path \in Under[e.path]
          /\ \A j \in Is : \A f \in Contributions[j].entries :
               Done(j, f) /\ s.path \in Under[f.path] => i <= j
    BY <1>1 DEF DirectoriesExact
  <2>2. PICK e \in Contributions[i].entries : Done(i, e) /\ s.path \in Under[e.path]
    BY <2>1
  <2>3. FileOf(request, i, e) \in FilesBelow(request, s.path)
    BY <1>2, <2>2, FileStepsWanted DEF FilesBelow
  <2>4. \A g \in FilesBelow(request, s.path) : g.origin \in Is /\ i <= g.origin
                                               /\ g.phase = Contributions[g.origin].phase
    <3>1. ASSUME NEW g \in FilesBelow(request, s.path)
          PROVE  g.origin \in Is /\ i <= g.origin /\ g.phase = Contributions[g.origin].phase
      <4>1. g \in FilesWanted(request) /\ s.path \in Under[g.path]
        BY DEF FilesBelow
      <4>2. PICK j \in Is : \E f \in Contributions[j].entries :
                              Done(j, f) /\ g = FileOf(request, j, f)
        BY <4>1, FileStepsWanted
      <4>3. PICK f \in Contributions[j].entries : Done(j, f) /\ g = FileOf(request, j, f)
        BY <4>2
      <4> QED BY <1>2, <2>1, <4>1, <4>3
    <3> QED BY <3>1
  <2>5. \E f \in FilesBelow(request, s.path) :
          \A g \in FilesBelow(request, s.path) : f.origin <= g.origin
    BY <1>2, <2>3, <2>4
  <2> DEFINE first == FirstBelow(request, s.path)
  <2>6. first \in FilesBelow(request, s.path)
        /\ \A g \in FilesBelow(request, s.path) : first.origin <= g.origin
    BY <2>5 DEF FirstBelow
  <2> HIDE DEF first
  <2>7. first.origin = i
    <3>1. first.origin <= i
      BY <1>2, <2>3, <2>6
    <3>2. i <= first.origin /\ first.origin \in Is
      BY <2>4, <2>6
    <3> QED BY <3>1, <3>2 DEF Is
  <2>8. first.phase = s.phase
    BY <2>1, <2>4, <2>6, <2>7
  <2>9. s.path \in AboveWanted(request)
    BY <1>2, <2>2, FileStepsWanted DEF AboveWanted
  <2>10. Unnumbered(s) = DirectoryOf(s.path, s.phase)
    BY <1>1 DEF DirectoriesExact
  <2> QED BY <2>8, <2>9, <2>10 DEF first
<1>4. Directories \subseteq AboveWanted(request)
  BY <1>3 DEF Directories, DirsOf
<1>5. AboveWanted(request) \subseteq Directories
  <2>1. ASSUME NEW f \in FilesWanted(request) PROVE Under[f.path] \subseteq Directories
    <3>1. PICK i \in Is : \E e \in Contributions[i].entries :
                            Done(i, e) /\ f = FileOf(request, i, e)
      BY FileStepsWanted
    <3>2. PICK e \in Contributions[i].entries : Done(i, e) /\ f = FileOf(request, i, e)
      BY <3>1
    <3> QED BY <1>1, <1>2, <3>2 DEF DirectoriesExact
  <2> QED BY <2>1 DEF AboveWanted
<1> QED BY <1>3, <1>4, <1>5

\* The steps of the plan, as a set.
LEMMA PlanWanted ==
    ASSUME PlannerInv, StepsInv, pc = "planned"
    PROVE  {Unnumbered(plan[k]) : k \in DOMAIN plan} = Wanted(request)
<1> DEFINE all == steps \cup WorkingDirectoryStep
           U(ss) == {Unnumbered(s) : s \in ss}
<1>1. {plan[k] : k \in DOMAIN plan} = all
  <2>1. Ordered(all) /\ plan = Sorted(all)
    BY PlanOrdered
  <2> HIDE DEF all
  <2>2. {Sorted(all)[k] : k \in DOMAIN Sorted(all)} = all
    BY <2>1, SortedFacts
  <2> QED BY <2>1, <2>2
<1>2. {Unnumbered(plan[k]) : k \in DOMAIN plan} = U(all)
  BY <1>1
<1>3. all = FilesOf(steps) \cup DirsOf(steps) \cup WorkingDirectoryStep
  BY DEF DirsOf, FilesOf
<1>4. U(FilesOf(steps)) = FilesWanted(request)
  BY FileStepsWanted
<1>5. U(DirsOf(steps)) =
        {DirectoryOf(x, FirstBelow(request, x).phase) : x \in AboveWanted(request)}
  <2>1. \A s \in DirsOf(steps) : s.path \in AboveWanted(request)
    BY DirectoryStepsWanted DEF Directories, DirsOf
  <2>2. \A x \in AboveWanted(request) : \E s \in DirsOf(steps) : s.path = x
    BY DirectoryStepsWanted DEF Directories, DirsOf
  <2> QED BY <2>1, <2>2, DirectoryStepsWanted
<1>6. U(WorkingDirectoryStep) =
        {DirectoryOf(x, "workspace") : x \in {request.working} \ (AboveWanted(request) \cup {None})}
  <2>1. \A s \in WorkingDirectoryStep :
          /\ Unnumbered(s) = DirectoryOf(request.working, "workspace")
          /\ request.working \in {request.working} \ (AboveWanted(request) \cup {None})
    BY PlanOrdered, DirectoryStepsWanted DEF WorkingDirectoryStep
  <2>2. ASSUME NEW x \in {request.working} \ (AboveWanted(request) \cup {None})
        PROVE  WorkingDirectoryStep # {} /\ x = request.working
    BY DirectoryStepsWanted DEF WorkingDirectoryStep
  <2> QED BY <2>1, <2>2
<1>7. U(all) = U(FilesOf(steps)) \cup U(DirsOf(steps)) \cup U(WorkingDirectoryStep)
  BY <1>3
<1> HIDE DEF U, all
<1> QED BY <1>2, <1>4, <1>5, <1>6, <1>7, WantedParts

\* Between steps that agree in phase, kind and path, the number of a step and the
\* contribution it comes from are in one order.
LEMMA OriginOrders ==
    ASSUME PlannerInv, StepsInv, pc = "planned", OneEntryEach(request),
           NEW s \in steps \cup WorkingDirectoryStep, NEW t \in steps \cup WorkingDirectoryStep,
           s.path = t.path, s.node = Dir <=> t.node = Dir, s.no < t.no
    PROVE  s.origin < t.origin
<1>1. Numbered
  BY DEF StepsInv
<1>2. CASE s.node = Dir
  <2>1. \A u \in steps \cup WorkingDirectoryStep :
          u.node = Dir => u \in DirsOf(steps) \/ u \in WorkingDirectoryStep
    BY DEF DirsOf, FilesOf
  <2>2. \A u \in DirsOf(steps) : u.path \in Directories
    BY DEF DirsOf, Directories
  <2>3. CASE s \in DirsOf(steps) /\ t \in DirsOf(steps)
    <3>1. s = t
      BY <1>1, <2>3 DEF Numbered
    <3>2. s.no \in Nat
      <4>1. s \in steps /\ Cardinality(steps) \in Nat
        BY <1>1, <2>3, FS_CardinalityType DEF Numbered, DirsOf
      <4> QED BY <1>1, <4>1 DEF Numbered
    <3> QED BY <3>1, <3>2
  <2>4. CASE s \in WorkingDirectoryStep /\ t \in WorkingDirectoryStep
    BY <2>4, PlanOrdered
  <2> QED BY <1>2, <2>1, <2>2, <2>3, <2>4, PlanOrdered
<1>3. CASE s.node # Dir
  <2>1. s \in FilesOf(steps) /\ t \in FilesOf(steps)
    BY <1>3, PlanOrdered DEF FilesOf
  <2>2. s.origin <= t.origin /\ s.origin \in Is /\ t.origin \in Is
    BY <1>1, <2>1 DEF Numbered, StepsInv, FilesExact
  <2>3. s.origin # t.origin
    <3>1. s # t
      <4>1. s \in steps /\ Cardinality(steps) \in Nat
        BY <1>1, <2>1, FS_CardinalityType DEF Numbered, FilesOf
      <4>2. s.no \in Nat
        BY <1>1, <4>1 DEF Numbered
      <4> QED BY <4>2
    <3> QED BY <1>1, <2>1, <3>1 DEF Numbered
  <2> QED BY <2>2, <2>3 DEF Is
<1> QED BY <1>2, <1>3

\* Equal requests have equal plans, in whatever order entries are listed
\* (Generation!PlanIsCanonical).
THEOREM Canonical == Spec => []PlanIsCanonical
<1>1. PlannerInv /\ StepsInv => PlanIsCanonical
  <2> SUFFICES ASSUME PlannerInv, StepsInv, pc = "planned", OneEntryEach(request)
               PROVE  /\ {Unnumbered(plan[i]) : i \in DOMAIN plan} = Wanted(request)
                      /\ \A i, j \in DOMAIN plan : i < j =>
                            Less([SortKey(plan[i]) EXCEPT ![4] = plan[i].origin],
                                 [SortKey(plan[j]) EXCEPT ![4] = plan[j].origin])
    BY DEF PlanIsCanonical
  <2> DEFINE all == steps \cup WorkingDirectoryStep
  <2>1. ASSUME NEW i \in DOMAIN plan, NEW j \in DOMAIN plan, i < j
        PROVE  Less([SortKey(plan[i]) EXCEPT ![4] = plan[i].origin],
                    [SortKey(plan[j]) EXCEPT ![4] = plan[j].origin])
    <3>1. PICK s \in all, t \in all : s = plan[i] /\ t = plan[j]
      BY PlanOrdered, SortedFacts
    <3>2. Less(SortKey(s), SortKey(t))
      BY <2>1, <3>1, PlanOrdered, SortedFacts
    <3>3. SortKey(s) \in Keys /\ SortKey(t) \in Keys
      BY PlanOrdered, KeysTellApart
    <3>4. s.origin \in Nat /\ t.origin \in Nat
      <4>1. \A u \in steps : u.origin \in Nat
        BY DEF StepsInv, Numbered, PlannerInv, Placed, Is
      <4>2. \A u : Unnumbered(u).origin = u.origin
                   /\ \A x, phase : Unnumbered(u) = DirectoryOf(x, phase) => u.origin = 0
        BY DEF Unnumbered, DirectoryOf
      <4>3. \A u \in WorkingDirectoryStep : u.origin = 0
        BY <4>2, PlanOrdered
      <4> QED BY <4>1, <4>3
    <3>5. SortKey(s)[1] = SortKey(t)[1] /\ SortKey(s)[2] = SortKey(t)[2]
          /\ SortKey(s)[3] = SortKey(t)[3] /\ SortKey(s)[4] < SortKey(t)[4]
          => s.origin < t.origin
      <4> SUFFICES ASSUME SortKey(s)[2] = SortKey(t)[2], SortKey(s)[3] = SortKey(t)[3],
                          SortKey(s)[4] < SortKey(t)[4]
                   PROVE  s.origin < t.origin
        OBVIOUS
      <4>1. (s.node = Dir <=> t.node = Dir) /\ Rank[s.path] = Rank[t.path] /\ s.no < t.no
        BY DEF SortKey
      <4>2. s.path \in Path /\ t.path \in Path
        BY PlanOrdered DEF Ordered
      <4>3. s.path = t.path
        BY <4>1, <4>2, RankAssumption
      <4> QED BY <4>1, <4>3, OriginOrders
    <3> DEFINE a == [SortKey(s) EXCEPT ![4] = s.origin]
               b == [SortKey(t) EXCEPT ![4] = t.origin]
    <3>6. /\ a \in Keys /\ a[1] = SortKey(s)[1] /\ a[2] = SortKey(s)[2]
          /\ a[3] = SortKey(s)[3] /\ a[4] = s.origin
      BY <3>3, <3>4 DEF Keys
    <3>7. /\ b \in Keys /\ b[1] = SortKey(t)[1] /\ b[2] = SortKey(t)[2]
          /\ b[3] = SortKey(t)[3] /\ b[4] = t.origin
      BY <3>3, <3>4 DEF Keys
    <3> HIDE DEF a, b
    <3>8. Less(a, b)
      BY <3>2, <3>3, <3>5, <3>6, <3>7, LessCases
    <3> QED BY <3>1, <3>8 DEF a, b
  <2> QED BY <2>1, PlanWanted
<1> QED BY <1>1, PlannerInit, PlannerNext, StepsInit, StepsNext, PTL DEF Spec
-----------------------------------------------------------------------------
(* What executing a plan leaves.                                           *)

Planned == pc \in {"planned", "generated", "failed"}

StepNode == Content \cup {Unexpandable, Dir}
NodeSet  == Content \cup {Unexpandable, Record, UserContent, None, Dir}
Tree     == [Path -> NodeSet]

\* What a file step writes can be read, and its class is one of the engine's.
LEMMA FileOfType ==
    ASSUME PlannerInv, NEW i \in Is, NEW e \in Contributions[i].entries, Done(i, e), pc # "idle"
    PROVE  /\ FileOf(request, i, e).node \in Content \cup {Unexpandable}
           /\ FileOf(request, i, e).ownership \in Owners
<1>1. Sound(request, i, e) /\ e.payload \in Payload
  BY RequestFacts DEF PlannerInv, ClaimsSound, Placed, Is, Contributions
<1>2. e.payload \in Content \cup {Unexpandable}
  BY <1>1 DEF Sound, Payload
<1>3. Expand[e.payload] \in Content \cup {Unexpandable}
  BY <1>1, <1>2, ExpandAssumption DEF Payload
<1>4. Processed(Contributions[i], e.payload) \in Content \cup {Unexpandable}
  BY <1>2, <1>3 DEF Processed
<1>5. ClassFrom(request, i, e.path) \in Owners
  BY DEF ClassFrom, Classify, FromManifest, Owners
<1> QED BY <1>4, <1>5 DEF FileOf, Contributions

LEMMA StepsType ==
    ASSUME PlannerInv, StepsInv, pc # "idle"
    PROVE  \A s \in steps \cup WorkingDirectoryStep :
             s.path \in Path /\ s.node \in StepNode /\ s.ownership \in Owners
<1>1. FilesExact /\ DirectoriesExact /\ Numbered
  BY DEF StepsInv
<1>2. \A s : /\ Unnumbered(s).node = s.node /\ Unnumbered(s).ownership = s.ownership
             /\ \A x, phase : Unnumbered(s) = DirectoryOf(x, phase) =>
                                s.node = Dir /\ s.ownership = "seeded"
  BY DEF Unnumbered, DirectoryOf
<1>3. ASSUME NEW s \in FilesOf(steps) PROVE s.node \in StepNode /\ s.ownership \in Owners
  <2>1. PICK e \in Contributions[s.origin].entries :
          Done(s.origin, e) /\ Unnumbered(s) = FileOf(request, s.origin, e)
    BY <1>1 DEF FilesExact
  <2>2. s.origin \in Is
    BY <1>1 DEF FilesExact
  <2> QED BY <1>2, <2>1, <2>2, FileOfType DEF StepNode
<1>4. \A s \in DirsOf(steps) : s.node \in StepNode /\ s.ownership \in Owners
  BY <1>1, <1>2 DEF DirectoriesExact, StepNode, Owners
<1>5. \A s \in steps : s.path \in Path
  BY <1>1 DEF Numbered
<1>6. \A s \in WorkingDirectoryStep :
        s.path \in Path /\ s.node \in StepNode /\ s.ownership \in Owners
  <2>1. request \in Requests
    BY DEF PlannerInv, Placed
  <2> QED BY <2>1, RequestAssumption DEF WorkingDirectoryStep, DirStep, StepNode, Owners
<1> QED BY <1>3, <1>4, <1>5, <1>6 DEF DirsOf

\* A plan has the steps emitted and that of the working directory.
LEMMA PlannedSteps ==
    ASSUME PlannerInv, StepsInv, Planned
    PROVE  /\ plan \in Seq(steps \cup WorkingDirectoryStep)
           /\ Len(plan) \in Nat /\ DOMAIN plan = 1 .. Len(plan)
           /\ {plan[k] : k \in DOMAIN plan} = steps \cup WorkingDirectoryStep
           /\ \A k \in DOMAIN plan :
                /\ plan[k] \in steps \cup WorkingDirectoryStep
                /\ plan[k].path \in Path /\ plan[k].node \in StepNode
                /\ plan[k].ownership \in Owners
<1> DEFINE all == steps \cup WorkingDirectoryStep
<1>1. Ordered(all) /\ plan = Sorted(all)
  BY PlanOrdered DEF Planned
<1>2. \A s \in all : s.path \in Path /\ s.node \in StepNode /\ s.ownership \in Owners
  BY StepsType DEF Planned
<1> HIDE DEF all
<1>3. plan \in Seq(all) /\ {plan[k] : k \in DOMAIN plan} = all
  BY <1>1, SortedFacts
<1>4. Len(plan) \in Nat /\ DOMAIN plan = 1 .. Len(plan)
  BY <1>3, LenProperties
<1>5. \A k \in DOMAIN plan : plan[k] \in all
  BY <1>3
<1> QED BY <1>2, <1>3, <1>4, <1>5 DEF all

\* What is executed: the plan, then the record.
LEMMA ExecutedFacts ==
    ASSUME PlannerInv, StepsInv, Planned
    PROVE  /\ Len(Executed) = Len(plan) + 1
           /\ \A k \in 1 .. Len(plan) : Executed[k] = plan[k]
           /\ Executed[Len(plan) + 1].path = RecordFile
           /\ Executed[Len(plan) + 1].node = Record
           /\ \A k \in 1 .. Len(Executed) :
                Executed[k].path \in Path /\ Executed[k].node \in StepNode \cup {Record}
<1> DEFINE last == [path |-> RecordFile, node |-> Record]
           all == steps \cup WorkingDirectoryStep \cup {last}
<1>1. plan \in Seq(all)
  BY PlannedSteps, SeqMonotonic
<1>2. last \in all /\ last.path = RecordFile /\ last.node = Record
  OBVIOUS
<1> HIDE DEF last, all
<1>3. Executed = Append(plan, last)
  BY DEF Executed, last
<1>4. /\ Len(Executed) = Len(plan) + 1 /\ Executed[Len(plan) + 1] = last
      /\ \A k \in 1 .. Len(plan) : Executed[k] = plan[k]
  BY <1>1, <1>2, <1>3, AppendProperties
<1>5. \A k \in 1 .. Len(Executed) : k \in 1 .. Len(plan) \/ k = Len(plan) + 1
  BY <1>4, PlannedSteps
<1> QED BY <1>2, <1>4, <1>5, PlannedSteps, RecordAssumption

\* The recursion that defines TreeAfter has a solution.
LEMMA TreeAfterSteps ==
    /\ TreeAfter[0] = Empty
    /\ \A n \in Nat :
         TreeAfter[n + 1] = Put(TreeAfter[n], Executed[n + 1].path, Executed[n + 1].node)
<1> DEFINE V == [Path -> {None, Dir} \cup {Executed[n].node : n \in Nat}]
           step == [at_n \in V \X Nat |-> Put(at_n[1], Executed[at_n[2]].path, Executed[at_n[2]].node)]
           Solves(f) == f = [n \in Nat |->
             IF n = 0 THEN Empty ELSE Put(f[n - 1], Executed[n].path, Executed[n].node)]
<1>1. Empty \in V
  BY DEF Empty
<1>2. step \in [V \X Nat -> V]
  <2>1. ASSUME NEW tree \in V, NEW n \in Nat
        PROVE  Put(tree, Executed[n].path, Executed[n].node) \in V
    BY DEF Put
  <2> HIDE DEF V
  <2> QED BY <2>1
<1>3. \A tree \in V, n \in Nat : step[<<tree, n>>] = Put(tree, Executed[n].path, Executed[n].node)
  OBVIOUS
<1> HIDE DEF V, step
<1>4. PICK f : Solution(V, Empty, step, f)
  BY <1>1, <1>2, RecursionExists DEF Recursion
<1>5. Solves(f)
  <2>1. ASSUME NEW n \in Nat
        PROVE  f[n] = IF n = 0 THEN Empty ELSE Put(f[n - 1], Executed[n].path, Executed[n].node)
    <3>1. CASE n = 0
      BY <1>4, <3>1 DEF Solution
    <3>2. CASE n # 0
      <4>1. n - 1 \in Nat /\ (n - 1) + 1 = n
        BY <3>2
      <4>2. f[n] = step[<<f[n - 1], n>>] /\ f[n - 1] \in V
        BY <1>4, <4>1 DEF Solution
      <4> QED BY <1>3, <3>2, <4>2
    <3> QED BY <3>1, <3>2
  <2> QED BY <1>4, <2>1 DEF Solution
<1>6. TreeAfter = CHOOSE g : Solves(g)
  BY DEF TreeAfter
<1> HIDE DEF Solves
<1>7. Solves(TreeAfter)
  BY <1>5, <1>6
<1>8. \A n \in Nat : TreeAfter[n] =
        IF n = 0 THEN Empty ELSE Put(TreeAfter[n - 1], Executed[n].path, Executed[n].node)
  BY <1>7 DEF Solves
<1>9. \A n \in Nat : n + 1 \in Nat /\ n + 1 # 0 /\ (n + 1) - 1 = n
  OBVIOUS
<1> QED BY <1>8, <1>9

\* One more step, and the tree is what one more step leaves.
LEMMA PutBuilds ==
    ASSUME NEW nodes0, NEW pl, NEW n \in Nat \ {0}, Built(nodes0, pl, n - 1),
           \A k \in 1 .. n : pl[k].node # None
    PROVE  Built(Put(nodes0, pl[n].path, pl[n].node), pl, n)
<1> DEFINE new == Put(nodes0, pl[n].path, pl[n].node)
           At(x, m) == {k \in 1 .. m : pl[k].path = x}
<1>1. \A k : k \in 1 .. n <=> k \in 1 .. n - 1 \/ k = n
  OBVIOUS
<1>2. \A x \in Path : new[x] = IF x = pl[n].path THEN pl[n].node
                               ELSE IF x \in Under[pl[n].path] /\ nodes0[x] = None THEN Dir
                               ELSE nodes0[x]
  BY DEF Put
<1>3. ASSUME NEW x \in Path
      PROVE  /\ \A k \in At(x, n) : (\A l \in At(x, n) : l <= k) => new[x] = pl[k].node
             /\ At(x, n) = {} => new[x] = IF \E k \in 1 .. n : x \in Under[pl[k].path]
                                          THEN Dir ELSE None
  <2>1. CASE x = pl[n].path
    <3>1. n \in At(x, n) /\ \A k \in At(x, n) : k <= n
      BY <2>1
    <3>2. ASSUME NEW k \in At(x, n), \A l \in At(x, n) : l <= k PROVE k = n
      BY <3>1, <3>2
    <3> QED BY <1>2, <2>1, <3>1, <3>2
  <2>2. CASE x # pl[n].path
    <3>1. At(x, n) = At(x, n - 1)
      BY <1>1, <2>2
    <3>2. /\ \A k \in At(x, n - 1) : (\A l \in At(x, n - 1) : l <= k) => nodes0[x] = pl[k].node
          /\ At(x, n - 1) = {} => nodes0[x] = IF \E k \in 1 .. n - 1 : x \in Under[pl[k].path]
                                              THEN Dir ELSE None
      BY DEF Built
    <3>3. ASSUME NEW k \in At(x, n), \A l \in At(x, n) : l <= k PROVE new[x] = pl[k].node
      <4>1. nodes0[x] = pl[k].node
        BY <3>1, <3>2, <3>3
      <4> QED BY <1>2, <2>2, <4>1
    <3>4. ASSUME At(x, n) = {}
          PROVE  new[x] = IF \E k \in 1 .. n : x \in Under[pl[k].path] THEN Dir ELSE None
      <4>1. nodes0[x] = IF \E k \in 1 .. n - 1 : x \in Under[pl[k].path] THEN Dir ELSE None
        BY <3>1, <3>2, <3>4
      <4>2. (\E k \in 1 .. n : x \in Under[pl[k].path])
              <=> (\E k \in 1 .. n - 1 : x \in Under[pl[k].path]) \/ x \in Under[pl[n].path]
        BY <1>1
      <4>3. Dir # None
        BY ExpandAssumption
      <4> QED BY <1>2, <2>2, <4>1, <4>2, <4>3
    <3> QED BY <3>3, <3>4
  <2> QED BY <2>1, <2>2
<1> QED BY <1>3 DEF Built

\* After n steps every path has what the last of them for it put there.
LEMMA TreeAfterBuilt ==
    ASSUME PlannerInv, StepsInv, Planned
    PROVE  \A n \in 0 .. Len(Executed) :
             TreeAfter[n] \in Tree /\ Built(TreeAfter[n], Executed, n)
<1> DEFINE S == {n \in Nat : n <= Len(Executed) =>
                               TreeAfter[n] \in Tree /\ Built(TreeAfter[n], Executed, n)}
<1>1. 0 \in S
  <2>1. Empty \in Tree /\ Built(Empty, Executed, 0)
    BY DEF Empty, Tree, NodeSet, Built
  <2> QED BY <2>1, TreeAfterSteps
<1>2. ASSUME NEW n \in Nat, n \in S PROVE n + 1 \in S
  <2>1. SUFFICES ASSUME n + 1 <= Len(Executed)
                 PROVE  TreeAfter[n + 1] \in Tree /\ Built(TreeAfter[n + 1], Executed, n + 1)
    OBVIOUS
  <2>2. Len(Executed) \in Nat
    BY ExecutedFacts, PlannedSteps
  <2>3. TreeAfter[n] \in Tree /\ Built(TreeAfter[n], Executed, n)
    BY <1>2, <2>1, <2>2
  <2> DEFINE m == n + 1
  <2>4. m \in Nat \ {0} /\ m - 1 = n /\ m <= Len(Executed) /\ m \in 1 .. Len(Executed)
    BY <2>1, <2>2
  <2>5. TreeAfter[m] = Put(TreeAfter[n], Executed[m].path, Executed[m].node)
    BY TreeAfterSteps
  <2> HIDE DEF m
  <2>6. \A k \in 1 .. m : Executed[k].node \in NodeSet /\ Executed[k].node # None
    <3>1. \A k \in 1 .. m : Executed[k].node \in StepNode \cup {Record}
      BY <2>2, <2>4, ExecutedFacts
    <3> QED BY <3>1, ExpandAssumption, RecordAssumption DEF StepNode, NodeSet, Payload
  <2>7. Built(TreeAfter[m], Executed, m)
    BY <2>3, <2>4, <2>5, <2>6, PutBuilds
  <2>8. TreeAfter[m] \in Tree
    <3>1. Executed[m].node \in NodeSet
      BY <2>4, <2>6
    <3> QED BY <2>3, <2>5, <3>1 DEF Put, Tree, NodeSet
  <2> QED BY <2>7, <2>8 DEF m
<1> HIDE DEF S
<1>3. Nat \subseteq S
  BY <1>1, <1>2, SetInduction
<1> QED BY <1>3 DEF S

\* What a step puts at a path stays a directory, or a file, to the end.
LEMMA KindStays ==
    ASSUME PlannerInv, StepsInv, Planned, Executable, NEW k \in 1 .. Len(Executed)
    PROVE  /\ TreeAfter[Len(Executed)][Executed[k].path] # None
           /\ TreeAfter[Len(Executed)][Executed[k].path] = Dir <=> Executed[k].node = Dir
<1> DEFINE x == Executed[k].path
           Kept(n) == /\ TreeAfter[n][x] # None
                      /\ TreeAfter[n][x] = Dir <=> Executed[k].node = Dir
           S == {n \in Nat : k <= n /\ n <= Len(Executed) => Kept(n)}
<1>1. Len(Executed) \in Nat
  BY ExecutedFacts, PlannedSteps
<1>2. \A j \in 1 .. Len(Executed) : Executed[j].path \in Path /\ Executed[j].node # None
  <2>1. None \notin StepNode \cup {Record}
    BY ExpandAssumption, RecordAssumption DEF StepNode, Payload
  <2> QED BY <2>1, ExecutedFacts
<1>3. 0 \in S
  BY <1>1
<1>4. ASSUME NEW n \in Nat, n \in S PROVE n + 1 \in S
  <2> DEFINE m == n + 1
  <2>1. SUFFICES ASSUME k <= m, m <= Len(Executed) PROVE Kept(m)
    OBVIOUS
  <2>2. m \in 1 .. Len(Executed) /\ m - 1 = n
    BY <1>1, <2>1
  <2>3. TreeAfter[m] = Put(TreeAfter[n], Executed[m].path, Executed[m].node)
    BY TreeAfterSteps
  <2>4. Creatable(TreeAfter[n], Executed[m].path, Executed[m].node)
    <3>1. Creatable(TreeAfter[m - 1], Executed[m].path, Executed[m].node)
      BY <2>2 DEF Executable
    <3> QED BY <2>2, <3>1
  <2>5. CASE k = m
    BY <1>2, <2>3, <2>5 DEF Put
  <2>6. CASE k # m
    <3>1. Kept(n)
      BY <1>1, <1>4, <2>1, <2>6
    <3> QED BY <1>2, <2>2, <2>3, <2>4, <3>1 DEF Put, Creatable
  <2> QED BY <2>5, <2>6
<1> HIDE DEF S
<1>5. Nat \subseteq S
  BY <1>3, <1>4, SetInduction
<1>6. Kept(Len(Executed))
  <2>1. Len(Executed) \in S /\ k <= Len(Executed)
    BY <1>1, <1>5
  <2> QED BY <2>1 DEF S
<1> QED BY <1>6

\* The file steps of a plan are those of the entries of the request.
LEMMA PlannedFiles ==
    ASSUME PlannerInv, StepsInv, Planned
    PROVE  /\ FileSteps(plan) = {k \in DOMAIN plan : plan[k] \in FilesOf(steps)}
           /\ \A k \in FileSteps(plan) :
                /\ plan[k].path \in Path /\ plan[k].origin \in Contributors(request, plan[k].path)
                /\ plan[k].phase = Contributions[plan[k].origin].phase
                /\ plan[k].ownership = ClassFrom(request, plan[k].origin, plan[k].path)
                /\ \E e \in EntriesAt(request, plan[k].origin, plan[k].path) :
                     plan[k].node = Processed(Contributions[plan[k].origin], e.payload)
           /\ \A i \in Is : \A e \in Contributions[i].entries :
                \E k \in FileSteps(plan) :
                  /\ plan[k].path = e.path /\ plan[k].origin = i
                  /\ plan[k].node = Processed(Contributions[i], e.payload)
<1>1. FilesExact /\ at = Len(Contributions) /\ todo = {}
  BY DEF PlannerInv, ProcessorsKnown, StepsInv, Planned
<1>2. \A i \in Is : \A e \in Contributions[i].entries : Done(i, e)
  BY <1>1 DEF Done, Is
<1>3. \A s : /\ Unnumbered(s).path = s.path /\ Unnumbered(s).node = s.node
             /\ Unnumbered(s).origin = s.origin /\ Unnumbered(s).phase = s.phase
             /\ Unnumbered(s).ownership = s.ownership
  BY DEF Unnumbered
<1>4. \A s \in WorkingDirectoryStep : s.node = Dir
  BY PlanOrdered DEF Planned
<1>5. \A k \in DOMAIN plan : plan[k] \in steps \cup WorkingDirectoryStep /\ plan[k].path \in Path
  BY PlannedSteps
<1>6. FileSteps(plan) = {k \in DOMAIN plan : plan[k] \in FilesOf(steps)}
  BY <1>4, <1>5, PlannedSteps DEF FileSteps, FilesOf
<1>7. ASSUME NEW k \in FileSteps(plan)
      PROVE  /\ plan[k].path \in Path /\ plan[k].origin \in Contributors(request, plan[k].path)
             /\ plan[k].phase = Contributions[plan[k].origin].phase
             /\ plan[k].ownership = ClassFrom(request, plan[k].origin, plan[k].path)
             /\ \E e \in EntriesAt(request, plan[k].origin, plan[k].path) :
                  plan[k].node = Processed(Contributions[plan[k].origin], e.payload)
  <2>1. plan[k] \in FilesOf(steps) /\ plan[k].path \in Path
    BY <1>5, <1>6
  <2>2. plan[k].origin \in Is
    BY <1>1, <2>1 DEF FilesExact
  <2>3. PICK e \in Contributions[plan[k].origin].entries :
          Unnumbered(plan[k]) = FileOf(request, plan[k].origin, e)
    BY <1>1, <2>1 DEF FilesExact
  <2>4. /\ plan[k].path = e.path /\ plan[k].phase = Contributions[plan[k].origin].phase
        /\ plan[k].ownership = ClassFrom(request, plan[k].origin, e.path)
        /\ plan[k].node = Processed(Contributions[plan[k].origin], e.payload)
    BY <1>3, <2>3 DEF FileOf, Contributions
  <2>5. e \in EntriesAt(request, plan[k].origin, plan[k].path)
    BY <2>4 DEF EntriesAt, Contributions
  <2>6. plan[k].origin \in Contributors(request, plan[k].path)
    BY <2>2, <2>5 DEF Contributors, Is, Contributions
  <2> QED BY <2>1, <2>4, <2>5, <2>6
<1>8. ASSUME NEW i \in Is, NEW e \in Contributions[i].entries
      PROVE  \E k \in FileSteps(plan) :
               /\ plan[k].path = e.path /\ plan[k].origin = i
               /\ plan[k].node = Processed(Contributions[i], e.payload)
  <2>1. PICK s \in FilesOf(steps) : Unnumbered(s) = FileOf(request, i, e)
    BY <1>1, <1>2 DEF FilesExact
  <2>2. PICK k \in DOMAIN plan : plan[k] = s
    BY PlannedSteps DEF FilesOf
  <2>3. s.path = e.path /\ s.origin = i /\ s.node = Processed(Contributions[i], e.payload)
    BY <1>3, <2>1 DEF FileOf, Contributions
  <2> QED BY <1>6, <2>1, <2>2, <2>3
<1> QED BY <1>6, <1>7, <1>8

\* Of two file steps for one path the later is of the later contribution.
LEMMA PlannedOrder ==
    ASSUME PlannerInv, StepsInv, Planned, NEW k \in FileSteps(plan), NEW l \in FileSteps(plan),
           k < l, plan[k].path = plan[l].path
    PROVE  plan[k].origin <= plan[l].origin
<1> DEFINE s == plan[k]
           t == plan[l]
<1>1. k \in DOMAIN plan /\ l \in DOMAIN plan /\ s \in FilesOf(steps) /\ t \in FilesOf(steps)
  BY PlannedFiles
<1>2. s \in steps /\ t \in steps /\ s.node # Dir /\ t.node # Dir
  BY <1>1 DEF FilesOf
<1>3. Less(SortKey(s), SortKey(t))
  BY <1>1, PlanOrdered, SortedFacts DEF Planned
<1>4. SortKey(s) \in Keys /\ SortKey(t) \in Keys
  BY <1>2, PlanOrdered, KeysTellApart DEF Planned
<1>5. /\ SortKey(s)[1] = PhaseOrder[s.phase] /\ SortKey(t)[1] = PhaseOrder[t.phase]
      /\ SortKey(s)[2] = SortKey(t)[2] /\ SortKey(s)[3] = SortKey(t)[3]
      /\ SortKey(s)[4] = s.no /\ SortKey(t)[4] = t.no
  BY <1>2 DEF SortKey
<1>6. PhaseOrder[s.phase] \in Nat /\ PhaseOrder[t.phase] \in Nat
  BY <1>4, <1>5 DEF Keys
<1>7. s.no \in Nat /\ t.no \in Nat
  BY <1>4, <1>5 DEF Keys
<1> HIDE DEF s, t
<1>8. PhaseOrder[s.phase] < PhaseOrder[t.phase]
      \/ (PhaseOrder[s.phase] = PhaseOrder[t.phase] /\ s.no < t.no)
  <2>1. LET a == SortKey(s) b == SortKey(t) IN
        \/ a[1] < b[1]
        \/ a[1] = b[1] /\ a[2] < b[2]
        \/ a[1] = b[1] /\ a[2] = b[2] /\ a[3] < b[3]
        \/ a[1] = b[1] /\ a[2] = b[2] /\ a[3] = b[3] /\ a[4] < b[4]
    BY <1>3, <1>4, LessCases
  <2>2. SortKey(t)[2] \in Nat /\ SortKey(t)[3] \in Nat
    BY <1>4 DEF Keys
  <2> QED BY <1>5, <2>1, <2>2
<1>9. s.origin \in Is /\ t.origin \in Is
  BY <1>1 DEF StepsInv, FilesExact, Planned
<1>10. CASE s.no < t.no
  BY <1>1, <1>10 DEF StepsInv, Numbered, Planned, s, t
<1>11. CASE PhaseOrder[s.phase] < PhaseOrder[t.phase]
  <2>1. s.phase = Contributions[s.origin].phase /\ t.phase = Contributions[t.origin].phase
    BY PlannedFiles DEF s, t
  <2>2. request \in Requests /\ DOMAIN Contributions = Is
    BY RequestFacts, LenProperties DEF PlannerInv, Placed, Planned, Contributions, Is
  <2>3. t.origin <= s.origin => PhaseOrder[t.phase] <= PhaseOrder[s.phase]
    BY <1>9, <2>1, <2>2, PhaseAssumption DEF Contributions
  <2>4. s.origin \in Int /\ t.origin \in Int
    BY <1>9 DEF Is
  <2>5. ~ (PhaseOrder[t.phase] <= PhaseOrder[s.phase])
    BY <1>6, <1>11
  <2>6. s.origin <= t.origin
    BY <2>3, <2>4, <2>5
  <2> QED BY <2>6 DEF s, t
<1> QED BY <1>8, <1>10, <1>11 DEF s, t

\* The directory steps of a plan: every directory above a file of it, and the working
\* directory.
LEMMA PlannedDirectories ==
    ASSUME PlannerInv, StepsInv, Planned
    PROVE  /\ \A k \in DOMAIN plan : plan[k].node = Dir =>
                \/ plan[k].path = request.working
                \/ \E l \in FileSteps(plan) : plan[k].path \in Under[plan[l].path]
           /\ request.working # None =>
                \E k \in DOMAIN plan : plan[k].path = request.working /\ plan[k].node = Dir
           /\ \A k \in DOMAIN plan : plan[k].path \in Path /\ plan[k].node \in StepNode
<1>1. DirectoriesExact /\ Numbered /\ at = Len(Contributions) /\ todo = {}
  BY DEF PlannerInv, ProcessorsKnown, StepsInv, Planned
<1>2. ASSUME NEW k \in DOMAIN plan, plan[k].node = Dir
      PROVE  \/ plan[k].path = request.working
             \/ \E l \in FileSteps(plan) : plan[k].path \in Under[plan[l].path]
  <2>1. CASE plan[k] \in WorkingDirectoryStep
    BY <2>1, PlanOrdered DEF Planned
  <2>2. CASE plan[k] \notin WorkingDirectoryStep
    <3>1. plan[k] \in DirsOf(steps)
      BY <1>2, <2>2, PlannedSteps DEF DirsOf, FilesOf
    <3>2. PICK i \in Is : \E e \in Contributions[i].entries : plan[k].path \in Under[e.path]
      BY <1>1, <3>1 DEF DirectoriesExact
    <3>3. PICK e \in Contributions[i].entries : plan[k].path \in Under[e.path]
      BY <3>2
    <3>4. PICK l \in FileSteps(plan) : plan[l].path = e.path
      BY PlannedFiles
    <3> QED BY <3>3, <3>4
  <2> QED BY <2>1, <2>2
<1>3. ASSUME request.working # None
      PROVE  \E k \in DOMAIN plan : plan[k].path = request.working /\ plan[k].node = Dir
  <2>1. CASE request.working \in Directories
    <3>1. PICK s \in DirsOf(steps) : s.path = request.working
      BY <2>1 DEF Directories, DirsOf
    <3>2. s \in steps /\ s.node = Dir
      BY DEF DirsOf, FilesOf
    <3> QED BY <3>1, <3>2, PlannedSteps
  <2>2. CASE request.working \notin Directories
    <3>1. DirStep(request.working, "workspace", 0) \in WorkingDirectoryStep
      BY <1>3, <2>2 DEF WorkingDirectoryStep
    <3>2. /\ DirStep(request.working, "workspace", 0).path = request.working
          /\ DirStep(request.working, "workspace", 0).node = Dir
      BY DEF DirStep
    <3> QED BY <3>1, <3>2, PlannedSteps
  <2> QED BY <2>1, <2>2
<1> QED BY <1>2, <1>3, PlannedSteps

\* What GeneratesRequest says is at x.
AskedFor(x) ==
    LET is == Contributors(request, x)
        Used == {RecordFile, request.working} \cup
                {y \in Path : Contributors(request, y) # {}}
    IN IF x = RecordFile THEN Record
       ELSE IF is # {} THEN ContentFrom(request, Last(is), x)
       ELSE IF x = request.working THEN Dir
       ELSE IF \E y \in Used \cap Path : x \in Under[y] THEN Dir
       ELSE None

\* The last file step for x is that of the last contribution with x.
LEMMA LastIsAskedFor ==
    ASSUME PlannerInv, StepsInv, Planned, OneEntryEach(request), NEW m \in FileSteps(plan),
           \A k \in FileSteps(plan) : plan[k].path = plan[m].path => k <= m
    PROVE  plan[m].node = ContentFrom(request, Last(Contributors(request, plan[m].path)), plan[m].path)
<1> DEFINE x == plan[m].path
           is == Contributors(request, x)
           i  == plan[m].origin
<1>1. m \in Int /\ \A k \in FileSteps(plan) : k \in Int
  BY PlannedSteps DEF FileSteps
<1>2. i \in is /\ is \subseteq Is
  BY PlannedFiles DEF Contributors, Is, Contributions
<1>3. ASSUME NEW j \in is PROVE j <= i
  <2>1. PICK e \in Contributions[j].entries : e.path = x
    BY <1>2 DEF Contributors, EntriesAt, Contributions
  <2>2. PICK k \in FileSteps(plan) : plan[k].path = x /\ plan[k].origin = j
    BY <1>2, <2>1, PlannedFiles
  <2>3. k <= m
    BY <2>2
  <2>4. CASE k = m
    BY <1>2, <2>2, <2>4 DEF Is
  <2>5. CASE k < m
    BY <2>2, <2>5, PlannedOrder
  <2> QED BY <1>1, <2>3, <2>4, <2>5
<1>4. Last(is) = i
  <2>1. \A j \in is : (\A l \in is : l <= j) => j = i
    BY <1>2, <1>3 DEF Is
  <2> QED BY <1>2, <1>3, <2>1 DEF Last
<1>5. PICK e \in EntriesAt(request, i, x) : plan[m].node = Processed(Contributions[i], e.payload)
  BY PlannedFiles
<1>6. EntriesAt(request, i, x) = {e}
  <2>1. e \in request.contributions[i].entries /\ e.path = x
    BY <1>5 DEF EntriesAt
  <2>2. i \in 1 .. Len(request.contributions)
    BY <1>2 DEF Is, Contributions
  <2> QED BY <2>1, <2>2 DEF OneEntryEach
<1> QED BY <1>4, <1>5, <1>6 DEF ContentFrom, Contributions

LEMMA TreeIsAskedFor ==
    ASSUME PlannerInv, StepsInv, Planned, Executable, OneEntryEach(request), NEW x \in Path
    PROVE  TreeAfter[Len(Executed)][x] = AskedFor(x)
<1> DEFINE N  == Len(Executed)
           T  == TreeAfter[N]
           At == {k \in 1 .. N : Executed[k].path = x}
           Used == {RecordFile, request.working} \cup {y \in Path : Contributors(request, y) # {}}
<1>1. /\ N \in Nat /\ N = Len(plan) + 1 /\ N \in 1 .. N /\ DOMAIN plan = 1 .. Len(plan)
      /\ Executed[N].path = RecordFile /\ Executed[N].node = Record
      /\ \A k \in 1 .. Len(plan) : Executed[k] = plan[k] /\ k \in 1 .. N
      /\ \A k \in 1 .. N : k \in 1 .. Len(plan) \/ k = N
  <2>1. Len(plan) \in Nat /\ DOMAIN plan = 1 .. Len(plan)
    BY PlannedSteps
  <2> QED BY <2>1, ExecutedFacts
<1>2. /\ \A k \in At : (\A j \in At : j <= k) => T[x] = Executed[k].node
      /\ At = {} => T[x] = IF \E k \in 1 .. N : x \in Under[Executed[k].path] THEN Dir ELSE None
  <2>1. Built(T, Executed, N)
    BY <1>1, TreeAfterBuilt
  <2> QED BY <2>1 DEF Built
<1>3. \A k \in At : T[x] = Dir <=> Executed[k].node = Dir
  BY KindStays
<1>4. \A k \in FileSteps(plan) : plan[k].path \in Used \cap Path /\ k \in 1 .. Len(plan)
  <2>1. \A k \in FileSteps(plan) : plan[k].path \in Path /\ Contributors(request, plan[k].path) # {}
    BY PlannedFiles
  <2> QED BY <2>1 DEF FileSteps
<1>5. FileSteps(plan) = {k \in 1 .. Len(plan) : plan[k].node # Dir}
  BY DEF FileSteps
<1>6. RecordFile \in Used \cap Path
  BY RecordAssumption
<1>7. \A y \in Path : y = request.working => request.working # None
  BY RecordAssumption
<1>8. \A y \in Path : Contributors(request, y) # {} => \E k \in FileSteps(plan) : plan[k].path = y
  <2> TAKE y \in Path
  <2> HAVE Contributors(request, y) # {}
  <2>1. PICK i \in Is : \E e \in Contributions[i].entries : e.path = y
    BY DEF Contributors, EntriesAt, Is, Contributions
  <2> QED BY <2>1, PlannedFiles
<1> HIDE DEF N, T
<1>9. CASE x = RecordFile
  <2>1. N \in At /\ \A k \in At : k <= N
    BY <1>1, <1>9
  <2> QED BY <1>1, <1>2, <1>9, <2>1 DEF AskedFor, T, N
<1>10. CASE x # RecordFile /\ Contributors(request, x) # {}
  <2>1. \A k \in At : k \in 1 .. Len(plan) /\ Executed[k] = plan[k]
    BY <1>1, <1>10
  <2>2. PICK l \in FileSteps(plan) : plan[l].path = x
    BY <1>8, <1>10
  <2>3. l \in At /\ Executed[l].node # Dir
    BY <1>1, <1>5, <2>2
  <2>4. \A k \in At : k \in FileSteps(plan) /\ plan[k].path = x
    BY <1>3, <1>5, <2>1, <2>3
  <2>5. PICK m \in At : \A k \in At : k <= m
    <3>1. At \subseteq 0 .. N
      BY <1>1
    <3> QED BY <1>1, <2>3, <3>1, GreatestNumber
  <2>6. T[x] = plan[m].node
    BY <1>2, <2>1, <2>5
  <2>7. m \in FileSteps(plan) /\ plan[m].path = x
    BY <2>4
  <2>8. \A k \in FileSteps(plan) : plan[k].path = plan[m].path => k <= m
    BY <1>1, <1>5, <2>5, <2>7
  <2>9. plan[m].node = ContentFrom(request, Last(Contributors(request, x)), x)
    BY <2>7, <2>8, LastIsAskedFor
  <2> QED BY <1>10, <2>6, <2>9 DEF AskedFor, T, N
<1>11. CASE x # RecordFile /\ Contributors(request, x) = {}
  <2>1. \A k \in At : k \in 1 .. Len(plan) /\ Executed[k] = plan[k] /\ plan[k].path = x
    BY <1>1, <1>11
  <2>2. \A k \in At : plan[k].node = Dir
    BY <1>5, <1>11, <2>1, PlannedFiles
  <2>3. \A k \in At : T[x] = Dir
    BY <1>3, <2>1, <2>2
  <2>4. CASE x = request.working
    <3>1. PICK k \in 1 .. Len(plan) : plan[k].path = x /\ plan[k].node = Dir
      BY <1>1, <1>7, <2>4, PlannedDirectories
    <3>2. k \in At
      BY <1>1, <3>1
    <3> QED BY <1>11, <2>3, <2>4, <3>2 DEF AskedFor, T, N
  <2>5. CASE x # request.working /\ \E y \in Used \cap Path : x \in Under[y]
    <3>1. PICK y \in Used \cap Path : x \in Under[y]
      BY <2>5
    <3>2. \E k \in 1 .. N : Executed[k].path = y
      <4>1. CASE y = RecordFile
        BY <1>1, <4>1
      <4>2. CASE y = request.working
        BY <1>1, <1>7, <4>2, PlannedDirectories
      <4>3. CASE Contributors(request, y) # {}
        BY <1>1, <1>5, <1>8, <4>3
      <4> QED BY <4>1, <4>2, <4>3
    <3>3. T[x] = Dir
      BY <1>2, <2>3, <3>1, <3>2
    <3> QED BY <1>11, <2>5, <3>3 DEF AskedFor, T, N
  <2>6. CASE x # request.working /\ ~ \E y \in Used \cap Path : x \in Under[y]
    <3>1. \A k \in 1 .. Len(plan) : plan[k].node = Dir =>
            plan[k].path # x /\ x \notin Under[plan[k].path]
      <4> SUFFICES ASSUME NEW k \in 1 .. Len(plan), plan[k].node = Dir
                   PROVE  plan[k].path # x /\ x \notin Under[plan[k].path]
        OBVIOUS
      <4>1. plan[k].path \in Path
        BY <1>1, PlannedDirectories
      <4>2. CASE plan[k].path = request.working
        BY <2>6, <4>1, <4>2
      <4>3. CASE \E l \in FileSteps(plan) : plan[k].path \in Under[plan[l].path]
        <5>1. PICK l \in FileSteps(plan) : plan[k].path \in Under[plan[l].path]
          BY <4>3
        <5>2. plan[l].path \in Used \cap Path /\ Under[plan[k].path] \subseteq Under[plan[l].path]
          BY <1>4, <5>1, UnderAssumption
        <5> QED BY <2>6, <5>1, <5>2
      <4> QED BY <1>1, <4>2, <4>3, PlannedDirectories
    <3>2. At = {}
      BY <2>1, <2>2, <3>1
    <3>3. \A k \in 1 .. N : x \notin Under[Executed[k].path]
      <4> TAKE k \in 1 .. N
      <4>1. CASE k = N
        BY <1>1, <1>6, <2>6, <4>1
      <4>2. CASE k \in 1 .. Len(plan) /\ plan[k].node = Dir
        BY <1>1, <3>1, <4>2
      <4>3. CASE k \in 1 .. Len(plan) /\ plan[k].node # Dir
        BY <1>1, <1>4, <1>5, <2>6, <4>3
      <4> QED BY <1>1, <4>1, <4>2, <4>3
    <3>4. T[x] = None
      BY <1>2, <3>2, <3>3
    <3> QED BY <1>11, <2>6, <3>4 DEF AskedFor, T, N
  <2> QED BY <2>4, <2>5, <2>6
<1> QED BY <1>9, <1>10, <1>11

\* A generated workspace is what the request asks for, at every path
\* (Generation!GeneratesRequest).
THEOREM GeneratesAsked == Spec => GeneratesRequest
<1> DEFINE Asked == pc = "planned" /\ pc' = "generated" /\ OneEntryEach(request) =>
                      \A x \in Path : nodes'[x] = AskedFor(x)
<1>1. PlannerInv /\ StepsInv /\ [Next]_vars => Asked
  <2> SUFFICES ASSUME PlannerInv, StepsInv, [Next]_vars, pc = "planned", pc' = "generated",
                      OneEntryEach(request), NEW x \in Path
               PROVE  nodes'[x] = AskedFor(x)
    OBVIOUS
  <2>1. Generate
    BY DEF Next, vars, Ask, RefuseContribution, RefuseEntry, TakeEntry, NextContribution,
           FinishPlan, Dismiss, AuthorWrites, AuthorRemoves
  <2>2. Executable /\ nodes' = TreeAfter[Len(Executed)]
    BY <2>1 DEF Generate
  <2> QED BY <2>2, TreeIsAskedFor DEF Planned
<1>2. [](PlannerInv /\ StepsInv) /\ [][Next]_vars => [][Asked]_vars
  BY <1>1, PTL
<1>3. [][Asked]_vars => GeneratesRequest
  <2>1. Asked => (pc = "planned" /\ pc' = "generated" /\ OneEntryEach(request) =>
         \A x \in Path :
            LET is == Contributors(request, x)
                Used == {RecordFile, request.working} \cup
                        {y \in Path : Contributors(request, y) # {}}
            IN nodes'[x] = IF x = RecordFile THEN Record
                           ELSE IF is # {} THEN ContentFrom(request, Last(is), x)
                           ELSE IF x = request.working THEN Dir
                           ELSE IF \E y \in Used \cap Path : x \in Under[y] THEN Dir
                           ELSE None)
    BY DEF AskedFor
  <2> QED BY <2>1, PTL DEF GeneratesRequest
<1> QED BY <1>2, <1>3, PlannerInit, PlannerNext, StepsInit, StepsNext, PTL DEF Spec

-----------------------------------------------------------------------------
(* What verify reports.                                                    *)

\* The row of a file step, when no other step writes its path: its hash and its class
\* are those the request gives the path.
RowOf(k) == [path |-> plan[k].path, ownership |-> plan[k].ownership,
             sha256 |-> HashOf(plan, plan[k].path)]

LEMMA RowIsAskedFor ==
    ASSUME PlannerInv, StepsInv, Planned, WritesApart, NEW k \in FileSteps(plan)
    PROVE  LET x == plan[k].path i == Last(Contributors(request, x)) IN
           RowOf(k).path = x /\ RowOf(k).sha256 = ContentFrom(request, i, x)
           /\ RowOf(k).ownership = ClassFrom(request, i, x)
<1> DEFINE x == plan[k].path
           i == plan[k].origin
<1>1. \A l \in FileSteps(plan) : plan[l].path = x => l = k
  BY DEF WritesApart
<1>2. i \in Contributors(request, x) /\ Contributors(request, x) \subseteq Is
      /\ plan[k].ownership = ClassFrom(request, i, x)
  BY PlannedFiles DEF Contributors, Is, Contributions
<1>3. ASSUME NEW j \in Is, NEW e \in EntriesAt(request, j, x)
      PROVE  j = i /\ plan[k].node = Processed(Contributions[j], e.payload)
  <2>1. e \in Contributions[j].entries /\ e.path = x
    BY DEF EntriesAt, Contributions
  <2>2. PICK l \in FileSteps(plan) : /\ plan[l].path = x /\ plan[l].origin = j
                                     /\ plan[l].node = Processed(Contributions[j], e.payload)
    BY <2>1, PlannedFiles
  <2> QED BY <1>1, <2>2
<1>4. \A j \in Contributors(request, x) : j = i
  BY <1>2, <1>3 DEF Contributors
<1>5. Last(Contributors(request, x)) = i
  <2>1. i \in Int
    BY <1>2 DEF Is
  <2>2. i \in Contributors(request, x) /\ \A j \in Contributors(request, x) : j <= i
    BY <1>2, <1>4, <2>1
  <2> QED BY <1>4, <2>2 DEF Last
<1>6. ContentFrom(request, i, x) = plan[k].node
  <2>1. EntriesAt(request, i, x) # {}
    BY <1>2 DEF Contributors
  <2> DEFINE e == CHOOSE e \in EntriesAt(request, i, x) : TRUE
  <2>2. e \in EntriesAt(request, i, x)
    BY <2>1
  <2> HIDE DEF e
  <2>3. plan[k].node = Processed(Contributions[i], e.payload)
    BY <1>2, <1>3, <2>2
  <2> QED BY <2>3 DEF ContentFrom, Contributions, e
<1>7. HashOf(plan, x) = plan[k].node
  <2> DEFINE First(l) == plan[l].path = x /\ \A j \in FileSteps(plan) : plan[j].path = x => l <= j
  <2>1. k \in Int
    BY PlannedSteps DEF FileSteps
  <2>2. First(k) /\ \A l \in FileSteps(plan) : First(l) => l = k
    BY <1>1, <2>1
  <2>3. (CHOOSE l \in FileSteps(plan) : First(l)) = k
    <3> HIDE DEF First
    <3> QED BY <2>2
  <2> QED BY <2>3 DEF HashOf
<1> QED BY <1>2, <1>5, <1>6, <1>7 DEF RowOf

\* workspace.verify finds exactly the drift (Generation!DriftExact).
THEOREM DriftFound == Spec => []DriftExact
<1>1. PlannerInv /\ StepsInv => DriftExact
  <2> DEFINE Files == {x \in Path : Contributors(request, x) # {}}
             Original(x) == ContentFrom(request, Last(Contributors(request, x)), x)
             Class(x) == ClassFrom(request, Last(Contributors(request, x)), x)
  <2> SUFFICES ASSUME PlannerInv, StepsInv, Verifiable, WritesApart
               PROVE  /\ PathsOf(Missing) = {x \in Files : nodes[x] = None}
                      /\ PathsOf(Modified) = {x \in Files : /\ nodes[x] \notin {None, Original(x)}
                                                            /\ Class(x) = "generated"}
    BY DEF DriftExact
  <2>1. Planned /\ record = {RowOf(k) : k \in FileSteps(plan)}
    BY DEF Verifiable, StepsInv, PlanMade, Planned, Provenance, RowOf
  <2>2. \A k \in FileSteps(plan) : RowOf(k).path = plan[k].path
    BY DEF RowOf
  <2>3. \A k \in FileSteps(plan) : plan[k].path \in Files
    BY <2>1, PlannedFiles
  <2>4. ASSUME NEW x \in Files PROVE \E k \in FileSteps(plan) : plan[k].path = x
    <3>1. PICK i \in Is : \E e \in Contributions[i].entries : e.path = x
      BY DEF Contributors, EntriesAt, Is, Contributions
    <3> QED BY <2>1, <3>1, PlannedFiles
  <2>5. \A row \in record : /\ row.path \in Files /\ row.sha256 = Original(row.path)
                            /\ row.ownership = Class(row.path)
    <3>1. \A k \in FileSteps(plan) : /\ RowOf(k).sha256 = Original(RowOf(k).path)
                                     /\ RowOf(k).ownership = Class(RowOf(k).path)
      BY <2>1, <2>2, RowIsAskedFor
    <3> QED BY <2>1, <2>2, <2>3, <3>1
  <2>6. \A x \in Files : \E row \in record : row.path = x
    BY <2>1, <2>2, <2>4
  <2> HIDE DEF Files, Original, Class
  <2>7. PathsOf(Missing) = {x \in Files : nodes[x] = None}
    BY <2>5, <2>6 DEF PathsOf, Missing
  <2>8. PathsOf(Modified) = {x \in Files : /\ nodes[x] \notin {None, Original(x)}
                                          /\ Class(x) = "generated"}
    BY <2>5, <2>6 DEF PathsOf, Modified, Changed
  <2> QED BY <2>7, <2>8
<1> QED BY <1>1, PlannerInit, PlannerNext, StepsInit, StepsNext, PTL DEF Spec

-----------------------------------------------------------------------------
(* Types.                                                                  *)

\* There is a plan only when one was made, and the workspace is a tree with a record.
WorkspaceInv ==
    /\ pc \in {"idle", "building", "refused"} => plan = <<>>
    /\ nodes \in Tree
    /\ \A row \in record : row.ownership \in Owners

LEMMA WorkspaceInit == Init => WorkspaceInv
BY DEF Init, WorkspaceInv, Empty, Tree, NodeSet

LEMMA WorkspaceNext == PlannerInv /\ StepsInv /\ WorkspaceInv /\ [Next]_vars => WorkspaceInv'
<1> SUFFICES ASSUME PlannerInv, StepsInv, WorkspaceInv, [Next]_vars PROVE WorkspaceInv'
  OBVIOUS
<1>1. CASE Ask \/ RefuseContribution \/ RefuseEntry \/ TakeEntry \/ NextContribution
  BY <1>1 DEF WorkspaceInv, Ask, RefuseContribution, RefuseEntry, Refuse, TakeEntry, NextContribution
<1>2. CASE FinishPlan
  BY <1>2 DEF WorkspaceInv, FinishPlan
<1>3. CASE Generate
  <2>1. Planned /\ plan' = plan /\ pc' \in {"generated", "failed"}
    BY <1>3 DEF Generate, Planned
  <2>2. nodes' \in Tree
    <3>1. Len(Executed) \in 0 .. Len(Executed)
      BY <2>1, ExecutedFacts, PlannedSteps
    <3>2. TreeAfter[Len(Executed)] \in Tree
      BY <2>1, <3>1, TreeAfterBuilt
    <3> QED BY <1>3, <3>2 DEF Generate, WorkspaceInv
  <2>3. \A row \in record' : row.ownership \in Owners
    <3>1. \A k \in FileSteps(plan) : plan[k].ownership \in Owners
      BY <2>1, PlannedSteps DEF FileSteps
    <3>2. \A row \in Provenance : row.ownership \in Owners
      BY <3>1 DEF Provenance
    <3> QED BY <1>3, <3>2 DEF Generate, WorkspaceInv
  <2> QED BY <2>1, <2>2, <2>3 DEF WorkspaceInv
<1>4. CASE Dismiss
  BY <1>4 DEF WorkspaceInv, Dismiss
<1>5. CASE \E x \in Path : AuthorWrites(x) \/ AuthorRemoves(x)
  <2>1. PICK x \in Path : AuthorWrites(x) \/ AuthorRemoves(x)
    BY <1>5
  <2>2. /\ pc' = pc /\ pc = "generated" /\ record' = record
        /\ \/ \E node \in {UserContent, Dir} : nodes' = Put(nodes, x, node)
           \/ nodes' = [y \in Path |-> IF y = x \/ x \in Under[y] THEN None ELSE nodes[y]]
    BY <2>1 DEF AuthorWrites, AuthorRemoves
  <2>3. nodes' \in Tree
    BY <2>2 DEF WorkspaceInv, Tree, NodeSet, Put
  <2> QED BY <2>2, <2>3 DEF WorkspaceInv
<1>6. CASE UNCHANGED vars
  BY <1>6 DEF WorkspaceInv, vars
<1> QED BY <1>1, <1>2, <1>3, <1>4, <1>5, <1>6 DEF Next

\* The planner's state, the plan, the workspace and the record are of their types
\* (Generation!TypeOK).
THEOREM TypeCorrect == Spec => []TypeOK
<1>1. PlannerInv /\ StepsInv /\ WorkspaceInv => TypeOK
  <2> SUFFICES ASSUME PlannerInv, StepsInv, WorkspaceInv PROVE TypeOK
    OBVIOUS
  <2>1. /\ pc \in {"idle", "building", "refused", "planned", "generated", "failed"}
        /\ request \in Requests \/ pc = "idle"
        /\ at \in 1 .. Len(request.contributions) \/ pc = "idle"
        /\ pc # "idle" => todo \subseteq Here.entries
    BY DEF PlannerInv, Placed, Is, Contributions, Here
  <2>2. ASSUME NEW s \in steps
        PROVE  /\ s.path \in Path /\ s.node \in Content \cup {Unexpandable, Dir}
               /\ s.ownership \in Owners /\ s.origin \in 0 .. at
               /\ s.phase \in DOMAIN PhaseOrder /\ s.no \in 1 .. Cardinality(steps)
    <3>1. pc # "idle"
      BY DEF PlannerInv, Placed
    <3>2. s.path \in Path /\ s.node \in StepNode /\ s.ownership \in Owners
      BY <3>1, StepsType
    <3>3. s.origin \in 0 .. at /\ s.phase \in DOMAIN PhaseOrder /\ s.no \in 1 .. Cardinality(steps)
      BY <3>1 DEF StepsInv, Numbered, PhaseOrder
    <3> QED BY <3>2, <3>3 DEF StepNode
  <2>3. \A k \in DOMAIN plan : plan[k].path \in Path /\ plan[k].ownership \in Owners
    <3>1. CASE Planned
      BY <3>1, PlannedSteps
    <3>2. CASE ~Planned
      <4>1. plan = <<>>
        BY <2>1, <3>2 DEF Planned, WorkspaceInv
      <4> QED BY <4>1
    <3> QED BY <3>1, <3>2
  <2>4. nodes \in [Path -> Content \cup {Unexpandable, Record, UserContent, None, Dir}]
    BY DEF WorkspaceInv, Tree, NodeSet
  <2> QED BY <2>1, <2>2, <2>3, <2>4 DEF TypeOK, WorkspaceInv
<1> QED BY <1>1, PlannerInit, PlannerNext, StepsInit, StepsNext, WorkspaceInit, WorkspaceNext,
           PTL DEF Spec
=============================================================================
