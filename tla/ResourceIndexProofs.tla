-------------------------- MODULE ResourceIndexProofs --------------------------
(***************************************************************************)
(* What the index keeps, for every tree of resources, every list of roots  *)
(* and every manifest.  The invariant that carries the rest relates the    *)
(* index to the candidates looked at so far: among those that make one     *)
(* claim there is a first one, and it is the one the index holds.          *)
(***************************************************************************)
EXTENDS ResourceIndex, SequenceTheorems, TLAPS

\* A manifest is well formed, and nothing is indexed before the roots are scanned.
Settled ==
  /\ \A l \in Locations :
       file[l] # Unreadable => file[l].id \in Identities /\ file[l].version \in Token
  /\ roots \in Seq(Directories)
  /\ candidates \in Seq(Locations) /\ next \in 1..(Len(candidates) + 1)
  /\ status \in {"scanning", "indexing", "built", "failed"}
  /\ status \in {"scanning", "failed"} => next = 1

Represented(s) ==
  \A i \in ClaimPositions(s, file) :
    \E k \in FirstClaims(s, file) : SameClaim(Claim(s, file, k), Claim(s, file, i))

IInv == Settled /\ FirstClaimKept /\ Represented(Seen)

-----------------------------------------------------------------------------
(* Claims.                                                                 *)

\* Making the same claim is an equivalence (ResourceIndex::insert compares with ==).
LEMMA SameClaimEquivalence ==
  /\ \A a : SameClaim(a, a)
  /\ \A a, b : SameClaim(a, b) => SameClaim(b, a)
  /\ \A a, b, c : SameClaim(a, b) /\ SameClaim(b, c) => SameClaim(a, c)
BY DEF SameClaim, Same

\* One more candidate changes no claim made before it.
LEMMA OneMore ==
  ASSUME NEW s \in Seq(Locations), NEW x \in Locations
  PROVE  LET t == Append(s, x)
             n == Len(s) + 1
         IN /\ t \in Seq(Locations) /\ n \in Nat
            /\ \A i \in ClaimPositions(s, file) : i \in Nat /\ i < n
            /\ \A i \in ClaimPositions(s, file) : Claim(t, file, i) = Claim(s, file, i)
            /\ Claim(t, file, n) = RecordOf(x, file[x])
            /\ ClaimPositions(t, file) =
                 ClaimPositions(s, file) \cup (IF Indexable(file[x]) THEN {n} ELSE {})
<1> DEFINE t == Append(s, x)
           n == Len(s) + 1
<1>1. /\ t \in Seq(Locations) /\ n \in Nat /\ DOMAIN s = 1..Len(s)
      /\ DOMAIN t = DOMAIN s \cup {n} /\ n \notin DOMAIN s
      /\ \A i \in DOMAIN s : i \in Nat /\ i < n /\ t[i] = s[i]
      /\ t[n] = x
  OBVIOUS
<1> HIDE DEF t, n
<1>2. QED BY <1>1 DEF ClaimPositions, Claim, t, n

LEMMA FirstClaimsFacts ==
  ASSUME NEW s, NEW k \in FirstClaims(s, file)
  PROVE  /\ k \in ClaimPositions(s, file)
         /\ \A j \in ClaimPositions(s, file) :
              SameClaim(Claim(s, file, j), Claim(s, file, k)) => k <= j
BY DEF FirstClaims

-----------------------------------------------------------------------------
(* What one more candidate does to what the index should hold.             *)

LEMMA OneMorePassedOver ==
  ASSUME NEW s \in Seq(Locations), NEW x \in Locations, ~Indexable(file[x]), Represented(s)
  PROVE  /\ RecordsOf(Append(s, x), file) = RecordsOf(s, file)
         /\ ConflictsOf(Append(s, x), file) = ConflictsOf(s, file)
         /\ Represented(Append(s, x))
<1> DEFINE t == Append(s, x)
<1>1. /\ ClaimPositions(t, file) = ClaimPositions(s, file)
      /\ \A i \in ClaimPositions(s, file) : Claim(t, file, i) = Claim(s, file, i)
  BY OneMore
<1> HIDE DEF t
<1>2. FirstClaims(t, file) = FirstClaims(s, file)
  BY <1>1 DEF FirstClaims
<1>3. FirstClaims(s, file) \subseteq ClaimPositions(s, file)
  BY DEF FirstClaims
<1>4. RecordsOf(t, file) = RecordsOf(s, file)
  BY <1>1, <1>2, <1>3 DEF RecordsOf
<1>5. ConflictsOf(t, file) = ConflictsOf(s, file)
  BY <1>1, <1>2, <1>3 DEF ConflictsOf
<1>6. Represented(t)
  BY <1>1, <1>2, <1>3 DEF Represented
<1> QED BY <1>4, <1>5, <1>6 DEF t

LEMMA OneMoreClaim ==
  ASSUME NEW s \in Seq(Locations), NEW x \in Locations, Indexable(file[x]), Represented(s),
         \A c \in RecordsOf(s, file) : ~SameClaim(c, RecordOf(x, file[x]))
  PROVE  /\ RecordsOf(Append(s, x), file) = RecordsOf(s, file) \cup {RecordOf(x, file[x])}
         /\ ConflictsOf(Append(s, x), file) = ConflictsOf(s, file)
         /\ Represented(Append(s, x))
<1> DEFINE t == Append(s, x)
           n == Len(s) + 1
           r == RecordOf(x, file[x])
           P == ClaimPositions(s, file)
           F == FirstClaims(s, file)
<1>1. /\ ClaimPositions(t, file) = P \cup {n} /\ n \in Nat
      /\ \A i \in P : i \in Nat /\ i < n /\ Claim(t, file, i) = Claim(s, file, i)
      /\ Claim(t, file, n) = r
  BY OneMore
<1>2. F \subseteq P /\ \A k \in F : Claim(s, file, k) \in RecordsOf(s, file)
  BY DEF FirstClaims, RecordsOf
<1>3. \A i \in P : ~SameClaim(Claim(s, file, i), r)
  <2> SUFFICES ASSUME NEW i \in P, SameClaim(Claim(s, file, i), r) PROVE FALSE
    OBVIOUS
  <2>1. PICK k \in F : SameClaim(Claim(s, file, k), Claim(s, file, i))
    BY DEF Represented
  <2> QED BY <2>1, <1>2, SameClaimEquivalence
<1> HIDE DEF t, n, r, P
<1>4. FirstClaims(t, file) = F \cup {n}
  <2>1. \A i \in P \cup {n} : i \in FirstClaims(t, file) <=>
          \A j \in P \cup {n} : SameClaim(Claim(t, file, j), Claim(t, file, i)) => i <= j
    BY <1>1 DEF FirstClaims
  <2>2. n \in FirstClaims(t, file)
    BY <1>1, <1>3, <2>1
  <2>3. \A i \in P : ~SameClaim(Claim(t, file, n), Claim(t, file, i))
    BY <1>1, <1>3, SameClaimEquivalence
  <2>4. \A i \in P : i \in FirstClaims(t, file) <=> i \in F
    BY <1>1, <2>1, <2>3 DEF FirstClaims, P
  <2>5. FirstClaims(t, file) \subseteq P \cup {n}
    BY <1>1 DEF FirstClaims
  <2> QED BY <1>2, <2>2, <2>4, <2>5
<1> HIDE DEF F
<1>5. RecordsOf(t, file) = RecordsOf(s, file) \cup {r}
  BY <1>1, <1>2, <1>4 DEF RecordsOf, F
<1>6. ConflictsOf(t, file) = ConflictsOf(s, file)
  <2> DEFINE Pairs == {q \in F \X P : q[1] < q[2] /\ SameClaim(Claim(s, file, q[1]), Claim(s, file, q[2]))}
             Wider == {q \in (F \cup {n}) \X (P \cup {n}) :
                         q[1] < q[2] /\ SameClaim(Claim(t, file, q[1]), Claim(t, file, q[2]))}
  <2>1. Wider = Pairs
    BY <1>1, <1>2, <1>3
  <2>2. \A q \in Pairs : Conflict(Claim(t, file, q[1]), Claim(t, file, q[2])) =
                           Conflict(Claim(s, file, q[1]), Claim(s, file, q[2]))
    BY <1>1, <1>2
  <2>3. ConflictsOf(s, file) = {Conflict(Claim(s, file, q[1]), Claim(s, file, q[2])) : q \in Pairs}
    BY DEF ConflictsOf, F, P
  <2>4. ConflictsOf(t, file) = {Conflict(Claim(t, file, q[1]), Claim(t, file, q[2])) : q \in Wider}
    BY <1>1, <1>4 DEF ConflictsOf
  <2> HIDE DEF Pairs, Wider
  <2> QED BY <2>1, <2>2, <2>3, <2>4
<1>7. Represented(t)
  <2> SUFFICES ASSUME NEW i \in P \cup {n}
               PROVE  \E k \in F \cup {n} : SameClaim(Claim(t, file, k), Claim(t, file, i))
    BY <1>1, <1>4 DEF Represented
  <2>1. CASE i \in P
    BY <2>1, <1>1, <1>2 DEF Represented, P, F
  <2>2. CASE i = n
    BY <2>2, SameClaimEquivalence
  <2> QED BY <2>1, <2>2
<1> QED BY <1>5, <1>6, <1>7 DEF t, r

LEMMA OneMoreClash ==
  ASSUME NEW s \in Seq(Locations), NEW x \in Locations, Indexable(file[x]), Represented(s),
         \E c \in RecordsOf(s, file) : SameClaim(c, RecordOf(x, file[x]))
  PROVE  LET r == RecordOf(x, file[x])
             clashes == {c \in RecordsOf(s, file) : SameClaim(c, r)}
         IN /\ RecordsOf(Append(s, x), file) = RecordsOf(s, file)
            /\ ConflictsOf(Append(s, x), file) =
                 ConflictsOf(s, file) \cup {Conflict(c, r) : c \in clashes}
            /\ Represented(Append(s, x))
<1> DEFINE t == Append(s, x)
           n == Len(s) + 1
           r == RecordOf(x, file[x])
           P == ClaimPositions(s, file)
           F == FirstClaims(s, file)
           clashes == {c \in RecordsOf(s, file) : SameClaim(c, r)}
<1>1. /\ ClaimPositions(t, file) = P \cup {n} /\ n \in Nat
      /\ \A i \in P : i \in Nat /\ i < n /\ Claim(t, file, i) = Claim(s, file, i)
      /\ Claim(t, file, n) = r
  BY OneMore
<1>2. F \subseteq P /\ RecordsOf(s, file) = {Claim(s, file, k) : k \in F}
  BY DEF FirstClaims, RecordsOf
<1>3. PICK first \in F : SameClaim(Claim(s, file, first), r)
  BY <1>2
<1> HIDE DEF t, n, r, P
<1>4. FirstClaims(t, file) = F
  <2>1. \A i \in P \cup {n} : i \in FirstClaims(t, file) <=>
          \A j \in P \cup {n} : SameClaim(Claim(t, file, j), Claim(t, file, i)) => i <= j
    BY <1>1 DEF FirstClaims
  <2>2. n \notin FirstClaims(t, file)
    BY <1>1, <1>2, <1>3, <2>1
  <2>3. \A i \in P : i \in FirstClaims(t, file) <=> i \in F
    BY <1>1, <2>1 DEF FirstClaims, P
  <2>4. FirstClaims(t, file) \subseteq P \cup {n}
    BY <1>1 DEF FirstClaims
  <2> QED BY <1>2, <2>2, <2>3, <2>4
<1> HIDE DEF F
<1>5. RecordsOf(t, file) = RecordsOf(s, file)
  BY <1>1, <1>2, <1>4 DEF RecordsOf
<1>6. ConflictsOf(t, file) = ConflictsOf(s, file) \cup {Conflict(c, r) : c \in clashes}
  <2> DEFINE Pairs == {q \in F \X P : q[1] < q[2] /\ SameClaim(Claim(s, file, q[1]), Claim(s, file, q[2]))}
             Wider == {q \in F \X (P \cup {n}) :
                         q[1] < q[2] /\ SameClaim(Claim(t, file, q[1]), Claim(t, file, q[2]))}
             Fresh == {<<k, n>> : k \in {h \in F : SameClaim(Claim(s, file, h), r)}}
  <2>1. Wider = Pairs \cup Fresh
    BY <1>1, <1>2
  <2>2. \A q \in Pairs : Conflict(Claim(t, file, q[1]), Claim(t, file, q[2])) =
                           Conflict(Claim(s, file, q[1]), Claim(s, file, q[2]))
    BY <1>1, <1>2
  <2>3. {Conflict(Claim(t, file, q[1]), Claim(t, file, q[2])) : q \in Fresh} =
          {Conflict(c, r) : c \in clashes}
    <3> DEFINE Clashing == {h \in F : SameClaim(Claim(s, file, h), r)}
    <3>1. clashes = {Claim(s, file, h) : h \in Clashing}
      BY <1>2
    <3>2. \A k \in Clashing : /\ Claim(t, file, k) = Claim(s, file, k) /\ Claim(t, file, n) = r
                             /\ <<k, n>>[1] = k /\ <<k, n>>[2] = n
      BY <1>1, <1>2
    <3>3. {Conflict(Claim(t, file, q[1]), Claim(t, file, q[2])) : q \in Fresh} =
            {Conflict(Claim(s, file, k), r) : k \in Clashing}
      BY <3>2
    <3> HIDE DEF Clashing, clashes, Fresh
    <3> QED BY <3>1, <3>3
  <2>4. ConflictsOf(s, file) = {Conflict(Claim(s, file, q[1]), Claim(s, file, q[2])) : q \in Pairs}
    BY DEF ConflictsOf, F, P
  <2>5. ConflictsOf(t, file) = {Conflict(Claim(t, file, q[1]), Claim(t, file, q[2])) : q \in Wider}
    BY <1>1, <1>4 DEF ConflictsOf
  <2> HIDE DEF Pairs, Wider, Fresh, clashes
  <2> QED BY <2>1, <2>2, <2>3, <2>4, <2>5
<1>7. Represented(t)
  <2> SUFFICES ASSUME NEW i \in P \cup {n}
               PROVE  \E k \in F : SameClaim(Claim(t, file, k), Claim(t, file, i))
    BY <1>1, <1>4 DEF Represented
  <2>1. CASE i \in P
    BY <2>1, <1>1, <1>2 DEF Represented, P, F
  <2>2. CASE i = n
    BY <2>2, <1>1, <1>2, <1>3
  <2> QED BY <2>1, <2>2
<1> QED BY <1>5, <1>6, <1>7 DEF t, r

-----------------------------------------------------------------------------
(* The invariant.                                                          *)

LEMMA Initially == IndexInit => IInv
<1> SUFFICES ASSUME IndexInit PROVE IInv
  OBVIOUS
<1> USE DEF IndexInit
<1>1. Settled
  BY DEF Settled
<1>2. Seen = << >>
  BY DEF Seen
<1>3. ClaimPositions(Seen, file) = {} /\ FirstClaims(Seen, file) = {}
  BY <1>2 DEF ClaimPositions, FirstClaims
<1> QED BY <1>1, <1>3 DEF IInv, FirstClaimKept, Represented, RecordsOf, ConflictsOf

\* The candidates looked at, after one more.
LEMMA SeenGrows ==
  ASSUME Settled, next <= Len(candidates), next' = next + 1, candidates' = candidates
  PROVE  /\ Seen \in Seq(Locations) /\ candidates[next] \in Locations
         /\ Seen' = Append(Seen, candidates[next])
         /\ next' \in 1..(Len(candidates) + 1)
<1>1. /\ next \in 1..Len(candidates) /\ candidates \in Seq(Locations) /\ Len(candidates) \in Nat
  BY DEF Settled
<1>2. Seen \in Seq(Locations) /\ Len(Seen) = next - 1 /\ \A i \in 1..(next - 1) : Seen[i] = candidates[i]
  BY <1>1 DEF Seen
<1>3. /\ Seen' \in Seq(Locations) /\ Len(Seen') = next /\ \A i \in 1..next : Seen'[i] = candidates[i]
  BY <1>1 DEF Seen
<1>4. Seen' = Append(Seen, candidates[next])
  BY <1>1, <1>2, <1>3
<1> QED BY <1>1, <1>2, <1>4

LEMMA Inductive == IInv /\ [IndexNext]_indexVars => IInv'
<1> SUFFICES ASSUME IInv, [IndexNext]_indexVars PROVE IInv'
  OBVIOUS
<1> USE DEF IInv
<1>1. CASE ScanRoot
  <2>1. next = 1 /\ Seen = << >> /\ candidates \in Seq(Locations) /\ roots \in Seq(Directories)
    BY <1>1 DEF ScanRoot, Settled, Seen
  <2>2. /\ Head(roots) \in Directories /\ Tail(roots) \in Seq(Directories)
        /\ Collected[Head(roots)] \in Seq(Locations)
    BY <1>1, <2>1, CollectedAssumption DEF ScanRoot
  <2>3. candidates' \in Seq(Locations)
    <3>1. candidates \o Collected[Head(roots)] \in Seq(Locations)
      BY <2>1, <2>2, ConcatProperties
    <3> QED BY <1>1, <2>1, <3>1 DEF ScanRoot
  <2>4. Seen' = << >>
    BY <1>1, <2>1, <2>3 DEF ScanRoot, Seen
  <2>5. Settled'
    BY <1>1, <2>1, <2>2, <2>3 DEF ScanRoot, Settled
  <2> QED BY <1>1, <2>1, <2>4, <2>5 DEF ScanRoot, FirstClaimKept, Represented
<1>2. CASE StartIndexing \/ Finish
  <2>1. /\ UNCHANGED <<file, roots, candidates, next, records, conflicts>>
        /\ status \in {"scanning", "indexing"} /\ status' \in {"indexing", "built"}
    BY <1>2 DEF StartIndexing, Finish
  <2> QED BY <2>1 DEF Settled, FirstClaimKept, Represented, Seen
<1>3. CASE PassOver
  <2>1. /\ Seen \in Seq(Locations) /\ candidates[next] \in Locations
        /\ Seen' = Append(Seen, candidates[next])
        /\ next' \in 1..(Len(candidates) + 1)
    BY <1>3, SeenGrows DEF PassOver
  <2>2. /\ RecordsOf(Seen', file) = RecordsOf(Seen, file)
        /\ ConflictsOf(Seen', file) = ConflictsOf(Seen, file)
        /\ Represented(Append(Seen, candidates[next]))
    BY <1>3, <2>1, OneMorePassedOver DEF PassOver
  <2>3. UNCHANGED <<file, records, conflicts>>
    BY <1>3 DEF PassOver
  <2>4. Settled'
    BY <1>3, <2>1 DEF PassOver, Settled
  <2>5. FirstClaimKept'
    BY <2>2, <2>3 DEF FirstClaimKept
  <2>6. Represented(Seen)'
    BY <2>1, <2>2, <2>3 DEF Represented
  <2> QED BY <2>4, <2>5, <2>6
<1>4. CASE IndexCandidate
  <2> DEFINE x == candidates[next]
             r == RecordOf(x, file[x])
             clashes == {c \in records : SameClaim(c, r)}
  <2>1. /\ Seen \in Seq(Locations) /\ x \in Locations
        /\ Seen' = Append(Seen, x)
        /\ next' \in 1..(Len(candidates) + 1)
    BY <1>4, SeenGrows DEF IndexCandidate
  <2>2. Indexable(file[x]) /\ Insert(r) /\ file' = file
    BY <1>4 DEF IndexCandidate
  <2>3. Settled'
    BY <1>4, <2>1 DEF IndexCandidate, Settled
  <2>4. records = RecordsOf(Seen, file) /\ conflicts = ConflictsOf(Seen, file)
    BY DEF FirstClaimKept
  <2>5. CASE clashes = {}
    <3>1. \A c \in RecordsOf(Seen, file) : ~SameClaim(c, r)
      BY <2>4, <2>5
    <3>2. records' = records \cup {r} /\ conflicts' = conflicts
      BY <2>2, <2>5 DEF Insert
    <3>3. /\ RecordsOf(Append(Seen, x), file) = RecordsOf(Seen, file) \cup {r}
          /\ ConflictsOf(Append(Seen, x), file) = ConflictsOf(Seen, file)
          /\ Represented(Append(Seen, x))
      BY <2>1, <2>2, <3>1, OneMoreClaim
    <3>4. FirstClaimKept'
      BY <2>1, <2>2, <2>4, <3>2, <3>3 DEF FirstClaimKept
    <3>5. Represented(Seen)'
      BY <2>1, <2>2, <3>3 DEF Represented
    <3> QED BY <2>3, <3>4, <3>5
  <2>6. CASE clashes # {}
    <3>1. \E c \in RecordsOf(Seen, file) : SameClaim(c, r)
      BY <2>4, <2>6
    <3>2. records' = records /\ conflicts' = conflicts \cup {Conflict(c, r) : c \in clashes}
      BY <2>2, <2>6 DEF Insert
    <3>3. /\ RecordsOf(Append(Seen, x), file) = RecordsOf(Seen, file)
          /\ ConflictsOf(Append(Seen, x), file) =
               ConflictsOf(Seen, file) \cup {Conflict(c, r) : c \in clashes}
          /\ Represented(Append(Seen, x))
      BY <2>1, <2>2, <2>4, <3>1, OneMoreClash
    <3>4. FirstClaimKept'
      BY <2>1, <2>2, <2>4, <3>2, <3>3 DEF FirstClaimKept
    <3>5. Represented(Seen)'
      BY <2>1, <2>2, <3>3 DEF Represented
    <3> QED BY <2>3, <3>4, <3>5
  <2> QED BY <2>5, <2>6
<1>5. CASE UNCHANGED indexVars
  BY <1>5 DEF indexVars, Settled, FirstClaimKept, Represented, Seen
<1> QED BY <1>1, <1>2, <1>3, <1>4, <1>5 DEF IndexNext

\* The inductive invariant holds of every run of build_index.
THEOREM Invariance == IndexSpec => []IInv
<1> QED BY Initially, Inductive, PTL DEF IndexSpec

\* The index holds the first claim of each identity and version, and every later one
\* is remembered as a conflict (error.cpp 416-431).
THEOREM FirstClaim == IndexSpec => []FirstClaimKept
<1>1. IInv => FirstClaimKept
  BY DEF IInv
<1> QED BY <1>1, Invariance, PTL

\* An identity is refused as ambiguous exactly when two candidates claimed one of
\* its versions (error.cpp 433-437).
THEOREM Ambiguity == IndexSpec => []AmbiguousIffClaimedTwice
<1>1. ASSUME IInv PROVE AmbiguousIffClaimedTwice
  <2> DEFINE P == ClaimPositions(Seen, file)
             F == FirstClaims(Seen, file)
             C(i) == Claim(Seen, file, i)
  <2> SUFFICES ASSUME NEW id \in Identities
               PROVE  Ambiguous(conflicts, id) <=>
                        \E i, j \in P : i # j /\ C(i).id = id /\ SameClaim(C(i), C(j))
    BY DEF AmbiguousIffClaimedTwice
  <2>1. /\ F \subseteq P /\ P \subseteq Nat
        /\ \A k \in F, j \in P : SameClaim(C(j), C(k)) => k <= j
        /\ \A i \in P : \E k \in F : SameClaim(C(k), C(i))
    <3>1. Seen \in Seq(Locations)
      BY <1>1 DEF IInv, Settled, Seen
    <3> QED BY <1>1, <3>1 DEF IInv, FirstClaims, ClaimPositions, Represented
  <2>2. conflicts = {Conflict(C(p[1]), C(p[2])) :
                       p \in {q \in F \X P : q[1] < q[2] /\ SameClaim(C(q[1]), C(q[2]))}}
    BY <1>1 DEF IInv, FirstClaimKept, ConflictsOf
  <2> HIDE DEF P, F, C
  <2>3. ASSUME Ambiguous(conflicts, id)
        PROVE  \E i, j \in P : i # j /\ C(i).id = id /\ SameClaim(C(i), C(j))
    <3>1. PICK k \in F, j \in P : k < j /\ SameClaim(C(k), C(j)) /\ Conflict(C(k), C(j)).id = id
      BY <2>2, <2>3 DEF Ambiguous
    <3>2. C(k).id = id
      BY <3>1 DEF Conflict, SameClaim
    <3> QED BY <2>1, <3>1, <3>2
  <2>4. ASSUME NEW i \in P, NEW j \in P, i < j, C(j).id = id, SameClaim(C(i), C(j))
        PROVE  Ambiguous(conflicts, id)
    <3>1. PICK k \in F : SameClaim(C(k), C(i))
      BY <2>1
    <3>2. k < j /\ SameClaim(C(k), C(j))
      BY <2>1, <2>4, <3>1, SameClaimEquivalence
    <3>3. Conflict(C(k), C(j)) \in conflicts
      <4>1. <<k, j>> \in {q \in F \X P : q[1] < q[2] /\ SameClaim(C(q[1]), C(q[2]))}
        BY <3>2
      <4> QED BY <2>2, <4>1
    <3> QED BY <2>4, <3>3 DEF Ambiguous, Conflict
  <2>5. ASSUME NEW i \in P, NEW j \in P, i # j, C(i).id = id, SameClaim(C(i), C(j))
        PROVE  Ambiguous(conflicts, id)
    <3>1. i < j \/ j < i
      BY <2>1, <2>5
    <3>2. C(j).id = id /\ SameClaim(C(j), C(i))
      BY <2>5 DEF SameClaim, Same
    <3> QED BY <2>4, <2>5, <3>1, <3>2
  <2> QED BY <2>3, <2>5
<1> QED BY <1>1, Invariance, PTL

\* Every record is what the manifest of a location says, with the kind its identity
\* names and a version (resource_service.cpp 122-175).
THEOREM TypeCorrect == IndexSpec => []IndexTypeOK
<1>1. ASSUME IInv PROVE IndexTypeOK
  <2>1. Seen \in Seq(Locations)
    BY <1>1 DEF IInv, Settled, Seen
  <2>2. ASSUME NEW i \in ClaimPositions(Seen, file)
        PROVE  LET r == Claim(Seen, file, i)
               IN /\ r.at \in Locations /\ r = RecordOf(r.at, file[r.at])
                  /\ KindOf[r.id] = r.kind /\ r.version \in Version
    <3> DEFINE l == Seen[i]
    <3>1. l \in Locations /\ Indexable(file[l]) /\ Claim(Seen, file, i) = RecordOf(l, file[l])
      BY <2>1 DEF ClaimPositions, Claim
    <3>2. file[l].version \in Token /\ Parse(file[l].version) # NoVersion
      BY <1>1, <3>1 DEF IInv, Settled, Indexable
    <3>3. Parse(file[l].version) \in Version
      <4> DEFINE token == file[l].version
      <4>1. /\ token.parts \in Seq(Nat) /\ token.pre \in Seq(Identifier) /\ token.build \in Nat
            /\ Len(token.parts) = 3
            /\ Parse(token) = [core |-> <<token.parts[1], token.parts[2], token.parts[3]>>,
                               pre |-> token.pre, build |-> token.build]
        BY <3>2 DEF Parse, Token
      <4> HIDE DEF token
      <4>2. token.parts[1] \in Nat /\ token.parts[2] \in Nat /\ token.parts[3] \in Nat
        BY <4>1
      <4>3. Parse(token) \in Version
        BY <4>1, <4>2 DEF Version, Core
      <4> QED BY <4>3 DEF token
    <3> HIDE DEF l
    <3> QED BY <3>1, <3>3 DEF RecordOf, Indexable
  <2>3. FirstClaims(Seen, file) \subseteq ClaimPositions(Seen, file)
    BY DEF FirstClaims
  <2>4. \A r \in records : /\ r.at \in Locations
                            /\ r = RecordOf(r.at, file[r.at])
                            /\ KindOf[r.id] = r.kind /\ r.version \in Version
    BY <1>1, <2>2, <2>3 DEF IInv, FirstClaimKept, RecordsOf
  <2>5. \A c \in conflicts : c.kept \in Locations /\ c.discarded \in Locations
    BY <1>1, <2>2, <2>3 DEF IInv, FirstClaimKept, ConflictsOf, Conflict
  <2> QED BY <1>1, <2>4, <2>5 DEF IInv, Settled, IndexTypeOK
<1> QED BY <1>1, Invariance, PTL
=============================================================================
