------------------------------ MODULE TextProofs ------------------------------
(***************************************************************************)
(* The text functions, for every alphabet and every text: what a pattern   *)
(* matches is what it describes, a workspace path has one spelling, the    *)
(* directories of a path are its beginnings, a payload is filled in place. *)
(***************************************************************************)
EXTENDS TextCalls, Induction, SequenceTheorems, TLAPS

-----------------------------------------------------------------------------
(* Patterns.  From here on P and N are the lengths of pattern and path.    *)

LEMMA AtIn ==
  ASSUME NEW A, "end" \notin A, NEW t \in Seq(A), NEW i \in Int
  PROVE  At(t, i) # "end" <=> i \in 1 .. Len(t)
BY DEF At

\* Whether the pattern from p on describes the path from s on.
Describes(pattern, path, p, s) == DescribedFrom(pattern, path)[[p |-> p, s |-> s]]

LEMMA ReadingsStay ==
  ASSUME NEW pattern \in Seq(Symbol), NEW path \in Seq(Symbol),
         NEW at \in Spot(pattern, path), at.p < Len(pattern)
  PROVE  Readings(pattern, path, at) \subseteq Spot(pattern, path)
<1> DEFINE p == at.p
           s == at.s
<1>1. p \in 0 .. Len(pattern) /\ s \in 0 .. Len(path) /\ Len(pattern) \in Nat /\ Len(path) \in Nat
  BY DEF Spot
<1>2. \A i \in Int : At(pattern, i) # "end" <=> i \in 1 .. Len(pattern)
  BY SymbolAssumption, AtIn
<1>3. p + 1 <= Len(pattern)
  BY <1>1
<1>4. Doubled(pattern, p) => p + 2 <= Len(pattern)
  BY <1>1, <1>2 DEF Doubled
<1>5. At(pattern, p + 3) = "/" => p + 3 <= Len(pattern)
  BY <1>1, <1>2
<1>6. Segment(path, s) \subseteq 0 .. Len(path)
  BY <1>1 DEF Segment
<1> HIDE DEF p, s
<1> QED BY <1>1, <1>3, <1>4, <1>5, <1>6 DEF Readings, Spot, p, s

LEMMA DescribedSteps ==
  ASSUME NEW pattern \in Seq(Symbol), NEW path \in Seq(Symbol)
  PROVE  \A at \in Spot(pattern, path) :
           DescribedFrom(pattern, path)[at] <=>
             IF at.p = Len(pattern) THEN at.s = Len(path)
             ELSE \E next \in Readings(pattern, path, at) : DescribedFrom(pattern, path)[next]
<1> DEFINE S == Spot(pattern, path)
           Solves(f) == f = [at \in S |->
             IF at.p = Len(pattern) THEN at.s = Len(path)
             ELSE \E next \in Readings(pattern, path, at) : f[next]]
           describes == CHOOSE f : Solves(f)
           ends == {at \in S : at.p = Len(pattern)}
           accepts == {at \in S : at.s = Len(path)}
           moves == [at \in S |-> IF at \in ends THEN {} ELSE Readings(pattern, path, at)]
<1>1. moves \in [S -> SUBSET S]
  <2>1. ASSUME NEW at \in S, at \notin ends PROVE Readings(pattern, path, at) \subseteq S
    <3>1. at.p < Len(pattern)
      BY <2>1 DEF Spot
    <3> QED BY <3>1, ReadingsStay
  <2> QED BY <2>1
<1>2. PICK f : Search(S, ends, accepts, moves, f)
  <2> HIDE DEF moves, ends, accepts, S
  <2> QED BY <1>1, SearchExists
<1>3. Solves(f)
  <2>1. ASSUME NEW at \in S
        PROVE  f[at] <=> IF at.p = Len(pattern) THEN at.s = Len(path)
                         ELSE \E next \in Readings(pattern, path, at) : f[next]
    <3>1. CASE at.p = Len(pattern)
      BY <1>2, <3>1 DEF Search
    <3>2. CASE at.p # Len(pattern)
      <4>1. moves[at] = Readings(pattern, path, at) /\ at \notin ends
        BY <3>2
      <4> HIDE DEF moves, ends
      <4> QED BY <1>2, <3>2, <4>1 DEF Search
    <3> QED BY <3>1, <3>2
  <2>2. ASSUME NEW at \in S
        PROVE  f[at] = IF at.p = Len(pattern) THEN at.s = Len(path)
                       ELSE \E next \in Readings(pattern, path, at) : f[next]
    <3>1. f[at] \in BOOLEAN
      BY <1>2 DEF Search
    <3> QED BY <2>1, <3>1, Zenon
  <2> QED BY <1>2, <2>2 DEF Search
<1>4. DescribedFrom(pattern, path) = describes
  BY DEF DescribedFrom
<1> HIDE DEF Solves
<1>5. Solves(describes)
  BY <1>3
<1> HIDE DEF describes
<1> QED BY <1>4, <1>5 DEF Solves

\* What a place describes, by the symbol the pattern has there.
LEMMA DescribesCases ==
  ASSUME NEW pattern \in Seq(Symbol), NEW path \in Seq(Symbol),
         NEW p \in 0 .. Len(pattern), NEW s \in 0 .. Len(path)
  PROVE  LET Doc(q, k) == Describes(pattern, path, q, k)
             symbol == At(pattern, p + 1)
         IN /\ p = Len(pattern) => (Doc(p, s) <=> s = Len(path))
            /\ Doubled(pattern, p) =>
                 (Doc(p, s) <=> \/ \E k \in s .. Len(path) : Doc(p + 2, k)
                                \/ At(pattern, p + 3) = "/" /\ Doc(p + 3, s))
            /\ p < Len(pattern) /\ symbol = "*" /\ ~Doubled(pattern, p) =>
                 (Doc(p, s) <=> \E k \in Segment(path, s) : Doc(p + 1, k))
            /\ p < Len(pattern) /\ symbol # "*" =>
                 (Doc(p, s) <=> s < Len(path) /\ Fits(symbol, path[s + 1]) /\ Doc(p + 1, s + 1))
<1> DEFINE Doc(q, k) == Describes(pattern, path, q, k)
           symbol == At(pattern, p + 1)
           at == [p |-> p, s |-> s]
           describes == DescribedFrom(pattern, path)
<1>1. at \in Spot(pattern, path) /\ at.p = p /\ at.s = s
  BY DEF Spot
<1>2. Doc(p, s) <=> IF p = Len(pattern) THEN s = Len(path)
                    ELSE \E next \in Readings(pattern, path, at) : describes[next]
  BY <1>1, DescribedSteps DEF Describes
<1>3. \A q, k : Doc(q, k) <=> describes[[p |-> q, s |-> k]]
  BY DEF Describes
<1> HIDE DEF Doc, describes, at
<1>4. CASE p = Len(pattern)
  <2>1. ~Doubled(pattern, p)
    BY <1>4, SymbolAssumption, AtIn DEF Doubled
  <2> QED BY <1>2, <1>4, <2>1 DEF Doc
<1>5. CASE p # Len(pattern)
  <2>1. Doc(p, s) <=> \E next \in Readings(pattern, path, at) : describes[next]
    BY <1>2, <1>5
  <2>2. CASE Doubled(pattern, p)
    <3>1. symbol = "*"
      BY <2>2 DEF Doubled
    <3>2. Readings(pattern, path, at) =
            {[p |-> p + 2, s |-> k] : k \in s .. Len(path)}
            \cup (IF At(pattern, p + 3) = "/" THEN {[p |-> p + 3, s |-> s]} ELSE {})
      BY <1>1, <2>2, <3>1 DEF Readings
    <3> HIDE DEF symbol
    <3>3. Doc(p, s) <=> \/ \E k \in s .. Len(path) : Doc(p + 2, k)
                        \/ At(pattern, p + 3) = "/" /\ Doc(p + 3, s)
      BY <1>3, <2>1, <3>2
    <3> QED BY <1>5, <2>2, <3>1, <3>3 DEF Doc, symbol
  <2>3. CASE ~Doubled(pattern, p) /\ symbol = "*"
    <3>1. Readings(pattern, path, at) = {[p |-> p + 1, s |-> k] : k \in Segment(path, s)}
      BY <1>1, <2>3 DEF Readings
    <3> HIDE DEF symbol
    <3>2. Doc(p, s) <=> \E k \in Segment(path, s) : Doc(p + 1, k)
      BY <1>3, <2>1, <3>1
    <3> QED BY <1>5, <2>3, <3>2 DEF Doc, symbol
  <2>4. CASE ~Doubled(pattern, p) /\ symbol # "*"
    <3>1. Readings(pattern, path, at) =
            IF s < Len(path) /\ Fits(symbol, path[s + 1])
            THEN {[p |-> p + 1, s |-> s + 1]} ELSE {}
      BY <1>1, <2>4 DEF Readings
    <3> HIDE DEF symbol
    <3>2. Doc(p, s) <=> s < Len(path) /\ Fits(symbol, path[s + 1]) /\ Doc(p + 1, s + 1)
      BY <1>3, <2>1, <3>1
    <3> QED BY <1>5, <2>4, <3>2 DEF Doc, symbol
  <2> QED BY <2>2, <2>3, <2>4
<1> QED BY <1>4, <1>5

-----------------------------------------------------------------------------
(* The matcher.  It never goes back behind the last `**`, and every move   *)
(* takes it further: past that `**`, or the `**` over more of the path, or *)
(* on in both.  So of any places there is one the moves of which leave     *)
(* them, which is how it comes to an end and how it is reasoned about.     *)

Ordered(at) == at.starP <= at.p /\ at.starS <= at.s
Base(at) == IF at.starP = NoStar THEN at.p ELSE at.starP
Beyond(at, next) ==
  \/ Base(next) > Base(at)
  \/ Base(next) = Base(at) /\ next.starS > at.starS
  \/ Base(next) = Base(at) /\ next.starS = at.starS /\ next.p + next.s > at.p + at.s

LEMMA FurthestPlace ==
  ASSUME NEW pattern \in Seq(Symbol), NEW path \in Seq(Symbol),
         NEW T, T \subseteq Place(pattern, path), T # {}
  PROVE  \E at \in T : \A other \in T : ~Beyond(at, other)
<1>1. Len(pattern) \in Nat /\ Len(path) \in Nat /\ NoStar = -1
  BY DEF NoStar
<1>2. \A at \in T : /\ Base(at) \in 0 .. Len(pattern) /\ at.starS \in 0 .. Len(path)
                    /\ at.p + at.s \in 0 .. Len(pattern) + Len(path)
  <2>1. \A at \in T : at \in Place(pattern, path)
    OBVIOUS
  <2> QED BY <1>1, <2>1 DEF Place, Base
<1>3. PICK a \in T : \A other \in T : Base(other) <= Base(a)
  <2> DEFINE B == {Base(at) : at \in T}
  <2>1. B \subseteq 0 .. Len(pattern) /\ B # {}
    BY <1>2
  <2>2. \E n \in B : \A m \in B : m <= n
    <3> HIDE DEF B
    <3> QED BY <1>1, <2>1, GreatestNumber
  <2> QED BY <2>2
<1>4. PICK b \in T : /\ Base(b) = Base(a)
                     /\ \A other \in T : Base(other) = Base(a) => other.starS <= b.starS
  <2> DEFINE B == {at.starS : at \in {other \in T : Base(other) = Base(a)}}
  <2>1. B \subseteq 0 .. Len(path) /\ B # {}
    BY <1>2
  <2>2. \E n \in B : \A m \in B : m <= n
    <3> HIDE DEF B
    <3> QED BY <1>1, <2>1, GreatestNumber
  <2> QED BY <2>2
<1>5. PICK c \in T : /\ Base(c) = Base(a) /\ c.starS = b.starS
                     /\ \A other \in T : Base(other) = Base(a) /\ other.starS = b.starS
                                           => other.p + other.s <= c.p + c.s
  <2> DEFINE B == {at.p + at.s : at \in {other \in T : Base(other) = Base(a) /\ other.starS = b.starS}}
  <2>1. B \subseteq 0 .. Len(pattern) + Len(path) /\ B # {}
    BY <1>2, <1>4
  <2>2. \E n \in B : \A m \in B : m <= n
    <3> HIDE DEF B
    <3>1. Len(pattern) + Len(path) \in Nat
      BY <1>1
    <3> QED BY <2>1, <3>1, GreatestNumber
  <2> QED BY <2>2
<1>6. ASSUME NEW other \in T PROVE ~Beyond(c, other)
  <2>1. /\ Base(other) \in Nat /\ Base(c) \in Nat /\ other.starS \in Nat /\ c.starS \in Nat
        /\ other.p + other.s \in Nat /\ c.p + c.s \in Nat
    BY <1>1, <1>2
  <2>2. Base(other) <= Base(c)
    BY <1>3, <1>5
  <2>3. Base(other) = Base(c) => other.starS <= c.starS
    BY <1>4, <1>5
  <2>4. Base(other) = Base(c) /\ other.starS = c.starS => other.p + other.s <= c.p + c.s
    BY <1>5
  <2> QED BY <2>1, <2>2, <2>3, <2>4 DEF Beyond
<1> QED BY <1>6

\* The moves, one by one.
Move(pattern, path, at, next) ==
  LET symbol == At(pattern, at.p + 1)
      Zero == /\ Doubled(pattern, at.p) /\ At(pattern, at.p + 3) = "/"
              /\ next = Afresh(at.p + 3, at.s)
      Enter == Doubled(pattern, at.p) /\ next = InTree(at.p + 2, at.s)
      Skip == symbol = "*" /\ ~Doubled(pattern, at.p) /\ next = Afresh(at.p + 1, at.s)
      More == /\ symbol = "*" /\ ~Doubled(pattern, at.p) /\ path[at.s + 1] # "/"
              /\ next = [at EXCEPT !.s = at.s + 1]
      Fit == /\ symbol # "*" /\ Fits(symbol, path[at.s + 1])
             /\ next = [at EXCEPT !.p = at.p + 1, !.s = at.s + 1]
      Reenter == /\ symbol # "*" /\ ~Fits(symbol, path[at.s + 1])
                 /\ at.starP # NoStar /\ at.starS < Len(path)
                 /\ next = InTree(at.starP, at.starS + 1)
  IN Zero \/ Enter \/ Skip \/ More \/ Fit \/ Reenter

LEMMA MovesAreMoves ==
  ASSUME NEW pattern, NEW path, NEW at, NEW next
  PROVE  next \in Moves(pattern, path, at) <=> Move(pattern, path, at, next)
<1>1. CASE Doubled(pattern, at.p)
  <2>1. At(pattern, at.p + 1) = "*"
    BY <1>1 DEF Doubled
  <2>2. Moves(pattern, path, at) =
          (IF At(pattern, at.p + 3) = "/" THEN {Afresh(at.p + 3, at.s)} ELSE {})
          \cup {InTree(at.p + 2, at.s)}
    BY <1>1, <2>1 DEF Moves
  <2> QED BY <1>1, <2>1, <2>2 DEF Move
<1>2. CASE ~Doubled(pattern, at.p) /\ At(pattern, at.p + 1) = "*"
  <2>1. Moves(pattern, path, at) =
          {Afresh(at.p + 1, at.s)}
          \cup (IF path[at.s + 1] # "/" THEN {[at EXCEPT !.s = @ + 1]} ELSE {})
    BY <1>2 DEF Moves
  <2> QED BY <1>2, <2>1 DEF Move
<1>3. CASE ~Doubled(pattern, at.p) /\ At(pattern, at.p + 1) # "*" /\ Fits(At(pattern, at.p + 1), path[at.s + 1])
  <2>1. Moves(pattern, path, at) = {[at EXCEPT !.p = @ + 1, !.s = @ + 1]}
    BY <1>3 DEF Moves
  <2> QED BY <1>3, <2>1 DEF Move
<1>4. CASE ~Doubled(pattern, at.p) /\ At(pattern, at.p + 1) # "*" /\ ~Fits(At(pattern, at.p + 1), path[at.s + 1])
  <2>1. Moves(pattern, path, at) =
          IF at.starP # NoStar /\ at.starS < Len(path) THEN {InTree(at.starP, at.starS + 1)} ELSE {}
    BY <1>4 DEF Moves
  <2> QED BY <1>4, <2>1 DEF Move
<1> QED BY <1>1, <1>2, <1>3, <1>4

LEMMA MovesGoOn ==
  ASSUME NEW pattern \in Seq(Symbol), NEW path \in Seq(Symbol),
         NEW at \in Place(pattern, path), at.s < Len(path),
         NEW next, Move(pattern, path, at, next)
  PROVE  next \in Place(pattern, path) /\ (Ordered(at) => Ordered(next) /\ Beyond(at, next))
<1> DEFINE P == Len(pattern)
           N == Len(path)
           p == at.p
           s == at.s
           starP == at.starP
           starS == at.starS
           symbol == At(pattern, p + 1)
<1>1. /\ P \in Nat /\ N \in Nat /\ p \in 0 .. P /\ s \in 0 .. N /\ s + 1 <= N
      /\ starP \in NoStar .. P /\ starS \in 0 .. N /\ NoStar = -1
      /\ at = [p |-> p, s |-> s, starP |-> starP, starS |-> starS]
  BY DEF Place, NoStar
<1>2. \A i \in Int : At(pattern, i) # "end" <=> i \in 1 .. P
  BY SymbolAssumption, AtIn
<1>3. path[s + 1] \in Symbol /\ path[s + 1] # "end"
  BY <1>1, SymbolAssumption
<1>4. /\ Doubled(pattern, p) => p + 2 <= P
      /\ At(pattern, p + 3) = "/" => p + 3 <= P
      /\ symbol = "*" => p + 1 <= P
      /\ Fits(symbol, path[s + 1]) => p + 1 <= P
  <2>1. /\ Doubled(pattern, p) => At(pattern, p + 2) # "end"
        /\ At(pattern, p + 3) = "/" => At(pattern, p + 3) # "end"
        /\ symbol = "*" => At(pattern, p + 1) # "end"
        /\ Fits(symbol, path[s + 1]) => At(pattern, p + 1) # "end"
    BY <1>3 DEF Doubled, Fits
  <2>2. p + 1 \in Int /\ p + 2 \in Int /\ p + 3 \in Int
    BY <1>1
  <2> QED BY <1>1, <1>2, <2>1, <2>2
<1> HIDE DEF P, N, p, s, starP, starS, symbol
<1>5. Place(pattern, path) = [p : 0 .. P, s : 0 .. N, starP : NoStar .. P, starS : 0 .. N]
  BY DEF Place, P, N
<1>6. ASSUME NEW q \in 0 .. P, NEW k \in 0 .. N PROVE Afresh(q, k) \in Place(pattern, path) /\ InTree(q, k) \in Place(pattern, path)
  BY <1>1, <1>5 DEF Afresh, InTree
<1>7. CASE Doubled(pattern, p) /\ At(pattern, p + 3) = "/" /\ next = Afresh(p + 3, s)
  BY <1>1, <1>4, <1>6, <1>7 DEF Ordered, Beyond, Base, Afresh
<1>8. CASE Doubled(pattern, p) /\ next = InTree(p + 2, s)
  BY <1>1, <1>4, <1>6, <1>8 DEF Ordered, Beyond, Base, InTree
<1>9. CASE symbol = "*" /\ next = Afresh(p + 1, s)
  BY <1>1, <1>4, <1>6, <1>9 DEF Ordered, Beyond, Base, Afresh
<1>10. CASE next = [at EXCEPT !.s = s + 1]
  <2>1. next = [p |-> p, s |-> s + 1, starP |-> starP, starS |-> starS]
    BY <1>1, <1>10
  <2> QED BY <1>1, <1>5, <2>1 DEF Ordered, Beyond, Base
<1>11. CASE Fits(symbol, path[s + 1]) /\ next = [at EXCEPT !.p = p + 1, !.s = s + 1]
  <2>1. next = [p |-> p + 1, s |-> s + 1, starP |-> starP, starS |-> starS]
    BY <1>1, <1>11
  <2> QED BY <1>1, <1>4, <1>5, <1>11, <2>1 DEF Ordered, Beyond, Base
<1>12. CASE starP # NoStar /\ starS < N /\ next = InTree(starP, starS + 1)
  BY <1>1, <1>6, <1>12 DEF Ordered, Beyond, Base, InTree
<1> QED BY <1>7, <1>8, <1>9, <1>10, <1>11, <1>12 DEF Move, P, N, p, s, starP, starS, symbol

StarsFrom(pattern, p) == \A i \in p + 1 .. Len(pattern) : pattern[i] = "*"

LEMMA MatchSteps ==
  ASSUME NEW pattern \in Seq(Symbol), NEW path \in Seq(Symbol),
         NEW at \in Place(pattern, path)
  PROVE  LET matches == MatchFrom(pattern, path)
         IN /\ at.s = Len(path) => (matches[at] <=> StarsFrom(pattern, at.p))
            /\ at.s < Len(path) =>
                 (matches[at] <=> \E next \in Place(pattern, path) :
                                     Move(pattern, path, at, next) /\ matches[next])
<1> DEFINE S == Place(pattern, path)
           Solves(f) == f = [a \in S |->
             IF a.s = Len(path) THEN \A i \in a.p + 1 .. Len(pattern) : pattern[i] = "*"
             ELSE \E next \in Moves(pattern, path, a) : f[next]]
           matches == CHOOSE f : Solves(f)
           ends == {a \in S : a.s = Len(path)}
           accepts == {a \in S : StarsFrom(pattern, a.p)}
           moves == [a \in S |-> IF a \in ends THEN {} ELSE Moves(pattern, path, a)]
<1>1. ASSUME NEW a \in S, a.s # Len(path) PROVE a.s < Len(path) /\ Moves(pattern, path, a) \subseteq S
  <2>1. a.s < Len(path)
    BY <1>1 DEF Place
  <2> QED BY <2>1, MovesAreMoves, MovesGoOn
<1>2. moves \in [S -> SUBSET S]
  BY <1>1
<1>3. PICK f : Search(S, ends, accepts, moves, f)
  <2> HIDE DEF moves, ends, accepts, S
  <2> QED BY <1>2, SearchExists
<1>4. Solves(f)
  <2>1. ASSUME NEW a \in S
        PROVE  f[a] <=> IF a.s = Len(path) THEN \A i \in a.p + 1 .. Len(pattern) : pattern[i] = "*"
                        ELSE \E next \in Moves(pattern, path, a) : f[next]
    <3>1. CASE a.s = Len(path)
      BY <1>3, <3>1 DEF Search, StarsFrom
    <3>2. CASE a.s # Len(path)
      <4>1. moves[a] = Moves(pattern, path, a) /\ a \notin ends
        BY <3>2
      <4> HIDE DEF moves, ends
      <4> QED BY <1>3, <3>2, <4>1 DEF Search
    <3> QED BY <3>1, <3>2
  <2>2. ASSUME NEW a \in S
        PROVE  f[a] = IF a.s = Len(path) THEN \A i \in a.p + 1 .. Len(pattern) : pattern[i] = "*"
                      ELSE \E next \in Moves(pattern, path, a) : f[next]
    <3>1. f[a] \in BOOLEAN
      BY <1>3 DEF Search
    <3> QED BY <2>1, <3>1, Zenon
  <2> QED BY <1>3, <2>2 DEF Search
<1>5. MatchFrom(pattern, path) = matches
  BY DEF MatchFrom
<1> HIDE DEF Solves
<1>6. Solves(matches)
  BY <1>4
<1> HIDE DEF matches
<1>7. matches[at] <=> IF at.s = Len(path) THEN StarsFrom(pattern, at.p)
                      ELSE \E next \in Moves(pattern, path, at) : matches[next]
  BY <1>6 DEF Solves, StarsFrom
<1>8. CASE at.s = Len(path)
  BY <1>5, <1>7, <1>8
<1>9. CASE at.s # Len(path)
  <2>1. matches[at] <=> \E next \in Moves(pattern, path, at) : matches[next]
    BY <1>7, <1>9
  <2>2. Moves(pattern, path, at) \subseteq S
    BY <1>1, <1>9
  <2> QED BY <1>5, <1>9, <2>1, <2>2, MovesAreMoves
<1> QED BY <1>8, <1>9

\* Stars that are left over describe the empty text.
LEMMA StarsDescribeNothing ==
  ASSUME NEW pattern \in Seq(Symbol), NEW path \in Seq(Symbol),
         NEW p \in 0 .. Len(pattern), StarsFrom(pattern, p)
  PROVE  Describes(pattern, path, p, Len(path))
<1> DEFINE P == Len(pattern)
           N == Len(path)
           T == {q \in 0 .. P : StarsFrom(pattern, q) /\ ~Describes(pattern, path, q, N)}
<1>1. P \in Nat /\ N \in Nat /\ N \in 0 .. N
  OBVIOUS
<1>2. SUFFICES ASSUME T # {} PROVE FALSE
  OBVIOUS
<1>3. PICK q \in T : \A r \in T : r <= q
  <2> HIDE DEF T
  <2>1. T \subseteq 0 .. P
    BY DEF T
  <2> QED BY <1>1, <1>2, <2>1, GreatestNumber
<1>4. q \in 0 .. P /\ StarsFrom(pattern, q) /\ ~Describes(pattern, path, q, N)
  OBVIOUS
<1>5. q # P
  BY <1>1, <1>4, DescribesCases
<1>6. At(pattern, q + 1) = "*"
  BY <1>1, <1>4, <1>5 DEF StarsFrom, At
<1>7. \A r \in 0 .. P : r > q => Describes(pattern, path, r, N)
  BY <1>1, <1>3, <1>4 DEF StarsFrom
<1>8. Doubled(pattern, q) => q + 2 \in 0 .. P
  BY <1>1, <1>4, SymbolAssumption, AtIn DEF Doubled
<1>9. CASE Doubled(pattern, q)
  <2>1. Describes(pattern, path, q + 2, N) /\ N \in N .. N
    BY <1>1, <1>4, <1>7, <1>8, <1>9
  <2> QED BY <1>1, <1>4, <1>9, <2>1, DescribesCases
<1>10. CASE ~Doubled(pattern, q)
  <2>1. Describes(pattern, path, q + 1, N) /\ N \in Segment(path, N)
    BY <1>1, <1>4, <1>5, <1>7 DEF Segment
  <2> QED BY <1>1, <1>4, <1>5, <1>6, <1>10, <2>1, DescribesCases
<1> QED BY <1>9, <1>10

\* Where the matcher accepts, the rest of the pattern describes the rest of the path,
\* or what follows the last `**` describes a later rest.
LEMMA AcceptedIsDescribed ==
  ASSUME NEW pattern \in Seq(Symbol), NEW path \in Seq(Symbol), MatchHere(pattern, path)
  PROVE  Documented(pattern, path)
<1> DEFINE P == Len(pattern)
           N == Len(path)
           matches == MatchFrom(pattern, path)
           Doc(q, k) == Describes(pattern, path, q, k)
           Claim(at) == \/ Doc(at.p, at.s)
                        \/ at.starP # NoStar /\ \E k \in at.starS + 1 .. N : Doc(at.starP, k)
           T == {at \in Place(pattern, path) : Ordered(at) /\ matches[at] /\ ~Claim(at)}
<1>1. P \in Nat /\ N \in Nat
  OBVIOUS
<1>2. T = {}
  <2> SUFFICES ASSUME T # {} PROVE FALSE
    OBVIOUS
  <2>1. PICK at \in T : \A other \in T : ~Beyond(at, other)
    <3> HIDE DEF T
    <3>1. T \subseteq Place(pattern, path)
      BY DEF T
    <3> QED BY <3>1, FurthestPlace
  <2>2. at \in Place(pattern, path) /\ Ordered(at) /\ matches[at] /\ ~Claim(at)
    OBVIOUS
  <2>3. /\ at.p \in 0 .. P /\ at.s \in 0 .. N /\ at.starP \in NoStar .. P /\ at.starS \in 0 .. N
        /\ at = [p |-> at.p, s |-> at.s, starP |-> at.starP, starS |-> at.starS]
    BY <2>2 DEF Place
  <2>4. CASE at.s = N
    <3>1. StarsFrom(pattern, at.p)
      BY <2>2, <2>4, MatchSteps
    <3> QED BY <2>2, <2>3, <2>4, <3>1, StarsDescribeNothing
  <2>5. CASE at.s < N
    <3>1. PICK next \in Place(pattern, path) : Move(pattern, path, at, next) /\ matches[next]
      BY <2>2, <2>5, MatchSteps
    <3>2. next \notin T /\ Ordered(next)
      BY <2>1, <2>2, <2>5, <3>1, MovesGoOn
    <3>3. Claim(next)
      BY <3>1, <3>2
    <3> HIDE DEF T, matches
    <3> DEFINE symbol == At(pattern, at.p + 1)
    <3>4. CASE Doubled(pattern, at.p) /\ At(pattern, at.p + 3) = "/" /\ next = Afresh(at.p + 3, at.s)
      <4>1. Doc(at.p + 3, at.s)
        BY <3>3, <3>4 DEF Afresh
      <4> QED BY <2>2, <2>3, <3>4, <4>1, DescribesCases
    <3>5. CASE Doubled(pattern, at.p) /\ next = InTree(at.p + 2, at.s)
      <4>1. \E k \in at.s .. N : Doc(at.p + 2, k)
        BY <1>1, <2>3, <3>3, <3>5 DEF InTree
      <4> QED BY <2>2, <2>3, <3>5, <4>1, DescribesCases
    <3>6. at.p = P => ~Doubled(pattern, at.p) /\ symbol = "end" /\ \A c \in Symbol : ~Fits(symbol, c)
      BY <1>1, SymbolAssumption, AtIn DEF Doubled, Fits
    <3>7. CASE symbol = "*" /\ ~Doubled(pattern, at.p) /\ next = Afresh(at.p + 1, at.s)
      <4>1. Doc(at.p + 1, at.s) /\ at.s \in Segment(path, at.s) /\ at.p < P
        BY <1>1, <2>3, <3>3, <3>6, <3>7 DEF Afresh, Segment
      <4> QED BY <2>2, <2>3, <3>7, <4>1, DescribesCases
    <3>8. CASE /\ symbol = "*" /\ ~Doubled(pattern, at.p) /\ path[at.s + 1] # "/"
               /\ next = [at EXCEPT !.s = at.s + 1]
      <4>1. Doc(at.p, at.s + 1) /\ at.p < P /\ at.s + 1 \in 0 .. N
        BY <1>1, <2>2, <2>3, <2>5, <3>3, <3>6, <3>8
      <4>2. \E k \in Segment(path, at.s + 1) : Doc(at.p + 1, k)
        BY <2>3, <3>8, <4>1, DescribesCases
      <4>3. Segment(path, at.s + 1) \subseteq Segment(path, at.s)
        BY <1>1, <2>3, <3>8, <4>1 DEF Segment
      <4> QED BY <2>2, <2>3, <3>8, <4>1, <4>2, <4>3, DescribesCases
    <3>9. CASE symbol # "*" /\ Fits(symbol, path[at.s + 1]) /\ next = [at EXCEPT !.p = at.p + 1, !.s = at.s + 1]
      <4>1. Doc(at.p + 1, at.s + 1)
        BY <2>2, <2>3, <3>3, <3>9
      <4>2. at.p < P
        BY <1>1, <2>3, <2>5, <3>6, <3>9
      <4> QED BY <2>2, <2>3, <2>5, <3>9, <4>1, <4>2, DescribesCases
    <3>10. CASE at.starP # NoStar /\ at.starS < N /\ next = InTree(at.starP, at.starS + 1)
      <4>1. \E k \in at.starS + 1 .. N : Doc(at.starP, k)
        BY <1>1, <2>3, <3>3, <3>10 DEF InTree
      <4> QED BY <2>2, <3>10, <4>1
    <3> QED BY <3>1, <3>4, <3>5, <3>7, <3>8, <3>9, <3>10 DEF Move
  <2> QED BY <1>1, <2>3, <2>4, <2>5
<1>3. Afresh(0, 0) \in Place(pattern, path) /\ Ordered(Afresh(0, 0)) /\ matches[Afresh(0, 0)]
  BY <1>1 DEF Afresh, Place, NoStar, Ordered, MatchHere
<1>4. Claim(Afresh(0, 0))
  BY <1>2, <1>3
<1> QED BY <1>4 DEF Afresh, Describes, Documented

LEMMA BeginningOf ==
  ASSUME NEW A, NEW t \in Seq(A), NEW n \in 0 .. Len(t)
  PROVE  /\ SubSeq(t, 1, n) \in Seq(A) /\ Len(SubSeq(t, 1, n)) = n
         /\ \A i \in 1 .. n : SubSeq(t, 1, n)[i] = t[i]
<1>1. Len(t) \in Nat /\ 1 \in Int /\ n \in Int /\ \A i \in 1 .. n : t[i] \in A
  OBVIOUS
<1> QED BY <1>1, SubSeqProperties

LEMMA SameBeginning ==
  ASSUME NEW A, NEW s \in Seq(A), NEW t \in Seq(A),
         NEW n \in 0 .. Len(s), n <= Len(t)
  PROVE  SubSeq(s, 1, n) = SubSeq(t, 1, n) <=> \A i \in 1 .. n : s[i] = t[i]
<1>1. n \in 0 .. Len(t)
  OBVIOUS
<1>2. /\ SubSeq(s, 1, n) \in Seq(A) /\ Len(SubSeq(s, 1, n)) = n
      /\ SubSeq(t, 1, n) \in Seq(A) /\ Len(SubSeq(t, 1, n)) = n
      /\ \A i \in 1 .. n : SubSeq(s, 1, n)[i] = s[i] /\ SubSeq(t, 1, n)[i] = t[i]
  BY <1>1, BeginningOf
<1>3. (\A i \in 1 .. n : s[i] = t[i]) => SubSeq(s, 1, n) = SubSeq(t, 1, n)
  BY <1>2, SeqEqual
<1> QED BY <1>2, <1>3

LEMMA TreeAtEnd ==
  ASSUME NEW pattern \in Seq(Symbol)
  PROVE  EndsInTree(pattern) <=> /\ Len(pattern) >= 3 /\ pattern[Len(pattern) - 2] = "/"
                                 /\ pattern[Len(pattern) - 1] = "*" /\ pattern[Len(pattern)] = "*"
<1> DEFINE P == Len(pattern)
           A == Symbol \cup {"/", "*"}
           back == Reverse(pattern)
           treeBack == Reverse(<<"/", "*", "*">>)
<1>1. P \in Nat
  OBVIOUS
<1>2. /\ back \in Seq(A) /\ Len(back) = P
      /\ \A i \in 1 .. P : back[i] = pattern[P - i + 1]
  <2>1. \A i \in 1 .. P : pattern[P - i + 1] \in A
    BY <1>1
  <2>2. back = [i \in 1 .. P |-> pattern[P - i + 1]]
    BY DEF Reverse
  <2> HIDE DEF back, A
  <2> QED BY <1>1, <2>1, <2>2
<1>3. /\ treeBack \in Seq(A) /\ Len(treeBack) = 3
      /\ treeBack[1] = "*" /\ treeBack[2] = "*" /\ treeBack[3] = "/"
  BY DEF Reverse
<1>4. EndsInTree(pattern) <=> 3 <= P /\ SubSeq(treeBack, 1, 3) = SubSeq(back, 1, 3)
  BY <1>2, <1>3 DEF EndsInTree, IsSuffix, IsPrefix
<1> HIDE DEF treeBack, back, A
<1>5. CASE 3 <= P
  <2>1. SubSeq(treeBack, 1, 3) = SubSeq(back, 1, 3) <=> \A i \in 1 .. 3 : treeBack[i] = back[i]
    <3>1. 3 \in 0 .. Len(treeBack) /\ 3 <= Len(back)
      BY <1>2, <1>3, <1>5
    <3> QED BY <1>2, <1>3, <3>1, SameBeginning
  <2>2. (\A i \in 1 .. 3 : treeBack[i] = back[i]) <=>
          back[1] = "*" /\ back[2] = "*" /\ back[3] = "/"
    BY <1>3
  <2>3. back[1] = pattern[P] /\ back[2] = pattern[P - 1] /\ back[3] = pattern[P - 2]
    BY <1>1, <1>2, <1>5
  <2> QED BY <1>1, <1>4, <1>5, <2>1, <2>2, <2>3
<1>6. CASE ~(3 <= P)
  BY <1>1, <1>4, <1>6
<1> QED BY <1>5, <1>6

\* A text describes itself, whatever is in it.
LEMMA SelfDescribed ==
  ASSUME NEW d \in Seq(Symbol)
  PROVE  Documented(d, d)
<1> DEFINE N == Len(d)
           T == {i \in 0 .. N : ~Describes(d, d, i, i)}
<1>1. N \in Nat
  OBVIOUS
<1>2. T = {}
  <2> SUFFICES ASSUME T # {} PROVE FALSE
    OBVIOUS
  <2>1. PICK i \in T : \A j \in T : j <= i
    <3> HIDE DEF T
    <3>1. T \subseteq 0 .. N
      BY DEF T
    <3> QED BY <1>1, <3>1, GreatestNumber
  <2>2. i \in 0 .. N /\ ~Describes(d, d, i, i)
    OBVIOUS
  <2>3. i # N
    BY <1>1, <2>2, DescribesCases
  <2>4. \A j \in 0 .. N : j > i => Describes(d, d, j, j)
    BY <1>1, <2>1, <2>2
  <2>5. At(d, i + 1) = d[i + 1] /\ d[i + 1] \in Symbol
    BY <1>1, <2>2, <2>3 DEF At
  <2>6. CASE Doubled(d, i)
    <3>1. i + 2 \in 0 .. N
      BY <1>1, <2>2, <2>6, SymbolAssumption, AtIn DEF Doubled
    <3>2. i + 2 \in i .. N /\ Describes(d, d, i + 2, i + 2)
      BY <1>1, <2>2, <2>4, <3>1
    <3> QED BY <2>2, <2>6, <3>2, DescribesCases
  <2>7. CASE ~Doubled(d, i) /\ d[i + 1] = "*"
    <3>1. i + 1 \in Segment(d, i) /\ Describes(d, d, i + 1, i + 1)
      BY <1>1, <2>2, <2>3, <2>4, <2>7 DEF Segment
    <3> QED BY <1>1, <2>2, <2>3, <2>5, <2>7, <3>1, DescribesCases
  <2>8. CASE ~Doubled(d, i) /\ d[i + 1] # "*"
    <3>1. Fits(d[i + 1], d[i + 1]) /\ Describes(d, d, i + 1, i + 1)
      BY <1>1, <2>2, <2>3, <2>4 DEF Fits
    <3> QED BY <1>1, <2>2, <2>3, <2>5, <2>8, <3>1, DescribesCases
  <2> QED BY <2>6, <2>7, <2>8
<1>3. Describes(d, d, 0, 0)
  BY <1>1, <1>2
<1> QED BY <1>3 DEF Documented, Describes

LEMMA TreeDescribesAll ==
  ASSUME NEW path \in Seq(Symbol), <<"*", "*">> \in Seq(Symbol)
  PROVE  Documented(<<"*", "*">>, path)
<1> DEFINE tree == <<"*", "*">>
<1>1. Len(tree) = 2 /\ Doubled(tree, 0) /\ tree \in Seq(Symbol)
  BY DEF Doubled, At
<1>2. 0 \in 0 .. 2 /\ 2 \in 0 .. 2 /\ 0 \in 0 .. Len(path) /\ Len(path) \in 0 .. Len(path)
  OBVIOUS
<1> HIDE DEF tree
<1>3. Describes(tree, path, 2, Len(path))
  BY <1>1, <1>2, DescribesCases
<1>4. Describes(tree, path, 0, 0)
  BY <1>1, <1>2, <1>3, DescribesCases
<1> QED BY <1>4 DEF Documented, Describes, tree

-----------------------------------------------------------------------------
(* What the calls answer.                                                  *)
Answers ==
  /\ subject = "glob" =>
       text \in Patterns /\ answer \in {<< >>, <<{path \in Paths : GlobMatch(text, path)}>>}
  /\ subject = "normalize" => text \in RawPaths /\ answer \in {<< >>, <<Normalize(text)>>}
  /\ subject = "ancestors" => text \in Paths /\ answer \in {<< >>, <<Ancestors(text)>>}
  /\ subject = "substitute" => text \in Contents /\ answer \in {<< >>, <<Substitute(text, Values)>>}

LEMMA AnswersHold == Spec => []Answers
<1>1. Init => Answers
  BY DEF Init, Answers
<1>2. Answers /\ [Next]_<<subject, text, answer>> => Answers'
  <2> SUFFICES ASSUME Answers, [Next]_<<subject, text, answer>> PROVE Answers'
    OBVIOUS
  <2>1. CASE CallGlob
    BY <2>1 DEF CallGlob, Returns, Answers
  <2>2. CASE CallNormalize
    BY <2>2 DEF CallNormalize, Returns, Answers
  <2>3. CASE CallAncestors
    BY <2>3 DEF CallAncestors, Returns, Answers
  <2>4. CASE CallSubstitute
    BY <2>4 DEF CallSubstitute, Returns, Answers
  <2>5. CASE UNCHANGED <<subject, text, answer>>
    BY <2>5 DEF Answers
  <2> QED BY <2>1, <2>2, <2>3, <2>4, <2>5 DEF Next
<1> QED BY <1>1, <1>2, PTL DEF Spec

\* Ownership and exclusion rules reach no path their author did not name: what
\* glob_match accepts, backtracking included, is what the pattern describes or the
\* directory itself of a closing `/**`.
THEOREM NothingElseMatched == Spec => []GlobSound
<1>1. Answers => GlobSound
  <2> SUFFICES ASSUME Answers, Answered("glob"), text # <<"*">>,
                      NEW path \in Paths, GlobMatch(text, path)
               PROVE  Promised(text, path)
    BY DEF GlobSound, Answered, Answers, Result
  <2>1. text \in Seq(Symbol) /\ path \in Seq(Symbol)
    BY PatternsAssumption, PathsAssumption DEF Answers, Answered
  <2>2. CASE text = <<"*", "*">>
    BY <2>1, <2>2, TreeDescribesAll DEF Promised
  <2>3. CASE EndsInTree(text) /\ path = Directory(text)
    BY <2>1, <2>3, SelfDescribed DEF Promised
  <2>4. CASE MatchHere(text, path)
    BY <2>1, <2>4, AcceptedIsDescribed DEF Promised
  <2> QED BY <2>2, <2>3, <2>4 DEF GlobMatch, Directory
<1> QED BY <1>1, AnswersHold, PTL

-----------------------------------------------------------------------------
(* Covered patterns lose nothing.  The matcher forgets every `**` but the  *)
(* last; the invariant of its places says that nothing is lost with the    *)
(* others: what follows the last one is plain and has been read in step.   *)

InPair(pattern, p) == p >= 1 /\ At(pattern, p) = "*" /\ At(pattern, p + 1) = "*"
InStep(pattern, at) ==
  at.starP # NoStar =>
    /\ at.starP >= 2 /\ At(pattern, at.starP - 1) = "*" /\ At(pattern, at.starP) = "*"
    /\ \A i \in at.starP + 1 .. at.p : At(pattern, i) # "*"
    /\ at.p - at.starP = at.s - at.starS
Sound(pattern, at) == Ordered(at) /\ ~InPair(pattern, at.p) /\ InStep(pattern, at)

\* Covered, said of the symbols at the places.
Coverable(pattern) ==
  LET P == Len(pattern)
      Tree(i) == At(pattern, i) = "*" /\ At(pattern, i + 1) = "*"
  IN /\ P # 0 /\ pattern[P] # "/"
     /\ \A i \in 1 .. P : ~(Tree(i) /\ Tree(i + 1))
     /\ \A i, j \in 1 .. P : Tree(i) /\ At(pattern, j) = "*" /\ ~Tree(j - 1) /\ ~Tree(j) => j < i
     /\ EndsInTree(pattern) => Plain(Directory(pattern))
     /\ \A i, j \in 1 .. P :
          i < j /\ Tree(i) /\ Tree(j) /\ At(pattern, j + 2) = "/" => At(pattern, j - 1) = "/"

LEMMA CoveredIsCoverable ==
  ASSUME NEW pattern \in Seq(Symbol), Covered(pattern)
  PROVE  Coverable(pattern)
<1> DEFINE P == Len(pattern)
           Tree(i) == At(pattern, i) = "*" /\ At(pattern, i + 1) = "*"
<1>1. P \in Nat /\ DOMAIN pattern = 1 .. P /\ P # 0
  BY DEF Covered
<1>2. \A i \in 1 .. P : At(pattern, i) = pattern[i]
  BY <1>1 DEF At
<1>3. \A i \in 1 .. P : Tree(i) <=> TreeAt(pattern, i)
  BY <1>2 DEF TreeAt
<1>4. pattern[P] # "/" /\ (EndsInTree(pattern) => Plain(Directory(pattern)))
  BY DEF Covered
<1>5. ASSUME NEW i \in 1 .. P, Tree(i), Tree(i + 1) PROVE FALSE
  <2>1. At(pattern, i + 2) = "*"
    BY <1>5
  <2> QED BY <1>1, <1>3, <1>5, <2>1 DEF Covered, TripleStar
<1>6. ASSUME NEW i \in 1 .. P, NEW j \in 1 .. P,
             Tree(i), At(pattern, j) = "*", ~Tree(j - 1), ~Tree(j)
      PROVE  j < i
  <2>1. At(pattern, j + 1) # "*" /\ At(pattern, j - 1) # "*"
    BY <1>6
  <2> QED BY <1>1, <1>2, <1>3, <1>6, <2>1 DEF Covered, SingleAt
<1>7. ASSUME NEW i \in 1 .. P, NEW j \in 1 .. P, i < j, Tree(i), Tree(j), At(pattern, j + 2) = "/"
      PROVE  At(pattern, j - 1) = "/"
  <2>1. pattern[j - 1] = "/" /\ j - 1 \in 1 .. P
    BY <1>1, <1>3, <1>7 DEF Covered
  <2> QED BY <1>2, <2>1
<1> HIDE DEF Tree
<1>8. \A i \in 1 .. P : ~(Tree(i) /\ Tree(i + 1))
  BY <1>5
<1>9. \A i, j \in 1 .. P : Tree(i) /\ At(pattern, j) = "*" /\ ~Tree(j - 1) /\ ~Tree(j) => j < i
  BY <1>6
<1>10. \A i, j \in 1 .. P :
          i < j /\ Tree(i) /\ Tree(j) /\ At(pattern, j + 2) = "/" => At(pattern, j - 1) = "/"
  BY <1>7
<1> QED BY <1>1, <1>4, <1>8, <1>9, <1>10 DEF Coverable, Tree

\* Plain symbols are read one for one.
LEMMA ReadInStep ==
  ASSUME NEW pattern \in Seq(Symbol), NEW path \in Seq(Symbol),
         NEW q \in 0 .. Len(pattern), NEW p \in q .. Len(pattern), NEW k \in 0 .. Len(path),
         \A i \in q + 1 .. p : At(pattern, i) # "*",
         Describes(pattern, path, q, k)
  PROVE  /\ k + (p - q) <= Len(path) /\ Describes(pattern, path, p, k + (p - q))
         /\ p > q => Fits(At(pattern, p), path[k + (p - q)])
<1> DEFINE N == Len(path)
           Reads(d) == /\ k + d <= N /\ Describes(pattern, path, q + d, k + d)
                       /\ d > 0 => Fits(At(pattern, q + d), path[k + d])
           S == {d \in Nat : d <= p - q => Reads(d)}
<1>1. N \in Nat /\ Len(pattern) \in Nat
  OBVIOUS
<1>2. 0 \in S
  BY <1>1
<1>3. ASSUME NEW d \in Nat, d \in S PROVE d + 1 \in S
  <2> SUFFICES ASSUME d + 1 <= p - q PROVE Reads(d + 1)
    OBVIOUS
  <2>1. Reads(d)
    BY <1>1, <1>3
  <2>2. q + d \in 0 .. Len(pattern) /\ q + d < Len(pattern) /\ k + d \in 0 .. N
    BY <1>1, <2>1
  <2>3. At(pattern, (q + d) + 1) # "*"
    BY <1>1
  <2>4. Describes(pattern, path, q + d, k + d)
    BY <2>1
  <2>5. /\ k + d < N /\ Fits(At(pattern, (q + d) + 1), path[(k + d) + 1])
        /\ Describes(pattern, path, (q + d) + 1, (k + d) + 1)
    BY <2>2, <2>3, <2>4, DescribesCases
  <2>6. (q + d) + 1 = q + (d + 1) /\ (k + d) + 1 = k + (d + 1)
    BY <1>1
  <2> QED BY <1>1, <2>5, <2>6
<1>4. Nat \subseteq S
  <2> HIDE DEF S
  <2> QED BY <1>2, <1>3, SetInduction
<1>5. Reads(p - q)
  <2>1. p - q \in Nat
    BY <1>1
  <2>2. p - q \in S
    BY <1>4, <2>1
  <2> QED BY <2>2
<1>6. q + (p - q) = p
  BY <1>1
<1> QED BY <1>1, <1>5, <1>6

\* Only stars describe the empty text, at the end of a covered pattern.
LEMMA NothingLeftIsStars ==
  ASSUME NEW pattern \in Seq(Symbol), NEW path \in Seq(Symbol), Coverable(pattern),
         NEW p \in 0 .. Len(pattern), ~InPair(pattern, p),
         Describes(pattern, path, p, Len(path))
  PROVE  StarsFrom(pattern, p)
<1> DEFINE P == Len(pattern)
           N == Len(path)
           T == {q \in 0 .. P : /\ ~InPair(pattern, q) /\ Describes(pattern, path, q, N)
                                /\ ~StarsFrom(pattern, q)}
<1>1. P \in Nat /\ N \in Nat /\ P # 0 /\ pattern[P] # "/"
  BY DEF Coverable
<1>2. SUFFICES ASSUME T # {} PROVE FALSE
  OBVIOUS
<1>3. PICK q \in T : \A r \in T : r <= q
  <2> HIDE DEF T
  <2>1. T \subseteq 0 .. P
    BY DEF T
  <2> QED BY <1>1, <1>2, <2>1, GreatestNumber
<1>4. q \in 0 .. P /\ ~InPair(pattern, q) /\ Describes(pattern, path, q, N) /\ ~StarsFrom(pattern, q)
  OBVIOUS
<1>5. \A r \in 0 .. P : r > q /\ ~InPair(pattern, r) /\ Describes(pattern, path, r, N) => StarsFrom(pattern, r)
  BY <1>1, <1>3, <1>4
<1> HIDE DEF T
<1>6. q < P
  BY <1>1, <1>4 DEF StarsFrom
<1>7. \A i \in 1 .. P : At(pattern, i) = pattern[i]
  BY DEF At
<1>8. \A i \in Int : At(pattern, i) # "end" <=> i \in 1 .. P
  BY SymbolAssumption, AtIn
<1>9. CASE Doubled(pattern, q)
  <2>1. /\ q + 2 \in 0 .. P /\ q + 1 \in 1 .. P /\ q + 2 \in 1 .. P
        /\ At(pattern, q + 1) = "*" /\ At(pattern, q + 2) = "*" /\ At(pattern, q + 3) # "*"
    <3>1. q + 1 \in Int /\ q + 2 \in Int /\ (q + 1) + 1 = q + 2 /\ ((q + 1) + 1) + 1 = q + 3
      BY <1>4
    <3>2. At(pattern, q + 1) = "*" /\ At(pattern, q + 2) = "*"
      BY <1>9 DEF Doubled
    <3>3. q + 1 \in 1 .. P /\ q + 2 \in 1 .. P
      BY <1>8, <3>1, <3>2
    <3>4. At(pattern, q + 3) # "*"
      BY <3>1, <3>2, <3>3 DEF Coverable
    <3> QED BY <1>1, <1>4, <3>2, <3>3, <3>4
  <2>2. ~InPair(pattern, q + 2)
    <3>1. (q + 2) + 1 = q + 3
      BY <1>4
    <3> QED BY <2>1, <3>1 DEF InPair
  <2>3. ~Describes(pattern, path, q + 2, N)
    <3> SUFFICES ASSUME Describes(pattern, path, q + 2, N) PROVE FALSE
      OBVIOUS
    <3>1. StarsFrom(pattern, q + 2)
      BY <1>4, <1>5, <2>1, <2>2
    <3> QED BY <1>1, <1>4, <1>7, <2>1, <3>1 DEF StarsFrom
  <2>4. At(pattern, q + 3) = "/" /\ Describes(pattern, path, q + 3, N)
    <3>1. N \in 0 .. N /\ N .. N = {N}
      BY <1>1
    <3> QED BY <1>4, <1>9, <2>3, <3>1, DescribesCases
  <2>5. q + 3 \in 1 .. P /\ q + 3 \in 0 .. P /\ pattern[q + 3] = "/"
    BY <1>1, <1>4, <1>7, <1>8, <2>4
  <2>6. StarsFrom(pattern, q + 3)
    <3>1. ~InPair(pattern, q + 3)
      BY <2>4 DEF InPair
    <3> QED BY <1>4, <1>5, <2>4, <2>5, <3>1
  <2>7. q + 3 < P
    BY <1>1, <2>5
  <2>8. q + 4 \in 1 .. P /\ pattern[q + 4] = "*" /\ At(pattern, q + 4) = "*"
    BY <1>1, <1>4, <1>7, <2>6, <2>7 DEF StarsFrom
  <2>9. At(pattern, q + 5) = "*"
    <3>1. (q + 1) + 1 = q + 2 /\ (q + 4) - 1 = q + 3 /\ (q + 4) + 1 = q + 5 /\ ~(q + 4 < q + 1)
      BY <1>4
    <3> QED BY <2>1, <2>4, <2>8, <3>1 DEF Coverable
  <2>10. q + 5 \in 1 .. P
    BY <1>4, <1>8, <2>9
  <2>11. P = q + 5
    <3> SUFFICES ASSUME q + 6 \in 1 .. P PROVE FALSE
      BY <1>1, <1>4, <2>10
    <3>1. pattern[q + 6] = "*"
      BY <1>4, <2>6 DEF StarsFrom
    <3>2. At(pattern, q + 6) = "*"
      BY <1>7, <3>1
    <3>3. (q + 4) + 1 = q + 5 /\ (q + 5) + 1 = q + 6
      BY <1>4
    <3> QED BY <2>8, <2>9, <3>2, <3>3 DEF Coverable
  <2>12. EndsInTree(pattern)
    <3>1. P >= 3 /\ P - 2 = q + 3 /\ P - 1 = q + 4
      BY <1>4, <2>11
    <3> QED BY <1>7, <2>5, <2>8, <2>9, <2>10, <2>11, <3>1, TreeAtEnd
  <2>13. Plain(Directory(pattern))
    BY <2>12 DEF Coverable
  <2>14. Directory(pattern)[q + 1] = "*" /\ q + 1 \in 1 .. Len(Directory(pattern))
    <3>1. P - 3 \in 0 .. P /\ P - 3 = q + 2
      BY <1>1, <1>4, <2>11
    <3> QED BY <1>4, <1>7, <2>1, <3>1, BeginningOf DEF Directory
  <2> QED BY <2>13, <2>14 DEF Plain, Contains
<1>10. CASE ~Doubled(pattern, q) /\ At(pattern, q + 1) = "*"
  <2>1. N \in 0 .. N /\ Segment(path, N) = {N}
    BY <1>1 DEF Segment
  <2>2. Describes(pattern, path, q + 1, N)
    BY <1>4, <1>6, <1>10, <2>1, DescribesCases
  <2>3. q + 1 \in 0 .. P /\ ~InPair(pattern, q + 1)
    <3>1. (q + 1) + 1 = q + 2
      BY <1>4
    <3> QED BY <1>1, <1>4, <1>6, <1>10, <3>1 DEF InPair, Doubled
  <2>4. StarsFrom(pattern, q + 1)
    BY <1>4, <1>5, <2>2, <2>3
  <2> QED BY <1>1, <1>4, <1>6, <1>7, <1>10, <2>4 DEF StarsFrom
<1>11. CASE At(pattern, q + 1) # "*"
  BY <1>1, <1>4, <1>6, <1>11, DescribesCases
<1> QED BY <1>9, <1>10, <1>11

\* From a sound place that what is left of the pattern describes, or what follows the
\* last `**` further on, the matcher accepts.
LEMMA DescribedIsAccepted ==
  ASSUME NEW pattern \in Seq(Symbol), NEW path \in Seq(Symbol),
         Coverable(pattern), Documented(pattern, path)
  PROVE  MatchHere(pattern, path)
<1> DEFINE P == Len(pattern)
           N == Len(path)
           matches == MatchFrom(pattern, path)
           Doc(q, k) == Describes(pattern, path, q, k)
           Later(at) == at.starP # NoStar /\ \E k \in at.starS + 1 .. N : Doc(at.starP, k)
           Claim(at) == Doc(at.p, at.s) \/ Later(at)
           T == {at \in Place(pattern, path) : Sound(pattern, at) /\ Claim(at) /\ ~matches[at]}
<1>1. P \in Nat /\ N \in Nat /\ NoStar = -1
  BY DEF NoStar
<1>2. \A i \in Int : At(pattern, i) # "end" <=> i \in 1 .. P
  BY SymbolAssumption, AtIn
<1>3. T = {}
  <2> SUFFICES ASSUME T # {} PROVE FALSE
    OBVIOUS
  <2>1. PICK at \in T : \A other \in T : ~Beyond(at, other)
    <3> HIDE DEF T
    <3>1. T \subseteq Place(pattern, path)
      BY DEF T
    <3> QED BY <3>1, FurthestPlace
  <2>2. at \in Place(pattern, path) /\ Sound(pattern, at) /\ Claim(at) /\ ~matches[at]
    OBVIOUS
  <2> DEFINE p == at.p
             s == at.s
             starP == at.starP
             starS == at.starS
             symbol == At(pattern, p + 1)
  <2>3. /\ p \in 0 .. P /\ s \in 0 .. N /\ starP \in NoStar .. P /\ starS \in 0 .. N
        /\ at = [p |-> p, s |-> s, starP |-> starP, starS |-> starS]
    BY <2>2 DEF Place
  <2>4. /\ starP <= p /\ starS <= s /\ ~InPair(pattern, p)
        /\ starP # NoStar =>
             /\ starP >= 2 /\ At(pattern, starP - 1) = "*" /\ At(pattern, starP) = "*"
             /\ \A i \in starP + 1 .. p : At(pattern, i) # "*"
             /\ p - starP = s - starS
    BY <2>2 DEF Sound, Ordered, InStep
  <2>5. ASSUME s < N, NEW next, Move(pattern, path, at, next), Sound(pattern, next) PROVE ~Claim(next)
    <3>1. next \in Place(pattern, path) /\ Beyond(at, next)
      BY <2>2, <2>5, MovesGoOn DEF Sound
    <3>2. ~matches[next]
      BY <2>2, <2>5, <3>1, MatchSteps
    <3> QED BY <2>1, <2>5, <3>1, <3>2
  <2> HIDE DEF T, matches
  <2>6. Doc(p, s) \/ (starP # NoStar /\ \E k \in starS + 1 .. N : Doc(starP, k))
    BY <2>2
  <2> HIDE DEF p, s, starP, starS, symbol
  \* What Later promises is read in step up to the place itself.
  <2>7. ASSUME starP # NoStar, NEW k \in starS + 1 .. N, Doc(starP, k)
        PROVE  \E m \in s + 1 .. N : Doc(p, m) /\ (p > starP => Fits(At(pattern, p), path[m]))
    <3>1. starP \in 0 .. P /\ p \in starP .. P /\ k \in 0 .. N
      BY <1>1, <2>3, <2>4, <2>7
    <3>2. /\ k + (p - starP) <= N /\ Doc(p, k + (p - starP))
          /\ p > starP => Fits(At(pattern, p), path[k + (p - starP)])
      BY <2>4, <2>7, <3>1, ReadInStep
    <3>3. k + (p - starP) \in s + 1 .. N
      BY <1>1, <2>3, <2>4, <2>7, <3>1, <3>2
    <3> QED BY <3>2, <3>3
  <2>8. CASE s = N
    <3>1. Doc(p, N)
      BY <1>1, <2>3, <2>6, <2>7, <2>8
    <3>2. StarsFrom(pattern, p)
      BY <2>3, <2>4, <3>1, NothingLeftIsStars
    <3> QED BY <2>2, <2>8, <3>2, MatchSteps DEF p, s, matches
  <2>9. CASE s < N /\ Doubled(pattern, p)
    <3>1. /\ p + 1 \in 1 .. P /\ p + 2 \in 1 .. P
          /\ At(pattern, p + 1) = "*" /\ At(pattern, p + 2) = "*" /\ At(pattern, p + 3) # "*"
      <4>1. p + 1 \in Int /\ p + 2 \in Int /\ (p + 1) + 1 = p + 2 /\ ((p + 1) + 1) + 1 = p + 3
        BY <2>3
      <4>2. At(pattern, p + 1) = "*" /\ At(pattern, p + 2) = "*"
        BY <2>9 DEF Doubled
      <4>3. p + 1 \in 1 .. P /\ p + 2 \in 1 .. P
        BY <1>2, <4>1, <4>2
      <4>4. At(pattern, p + 3) # "*"
        BY <4>1, <4>2, <4>3 DEF Coverable
      <4> QED BY <4>2, <4>3, <4>4
    <3> DEFINE enter == InTree(p + 2, s)
               zero == Afresh(p + 3, s)
    <3>2. Move(pattern, path, at, enter)
      BY <2>9 DEF Move, p, s
    <3>3. Sound(pattern, enter)
      <4>1. (p + 2) - 1 = p + 1 /\ (p + 2) + 1 = p + 3 /\ p + 2 >= 2 /\ (p + 2) + 1 .. p + 2 = {}
            /\ p + 2 <= p + 2 /\ s <= s /\ (p + 2) - (p + 2) = s - s
        BY <2>3
      <4> QED BY <3>1, <4>1 DEF Sound, Ordered, InPair, InStep, InTree
    <3>4. ~Claim(enter)
      BY <2>5, <2>9, <3>2, <3>3
    <3>5. \A k \in s .. N : ~Doc(p + 2, k)
      <4>1. enter.p = p + 2 /\ enter.s = s /\ enter.starP = p + 2 /\ enter.starS = s
        BY DEF InTree
      <4>2. p + 2 # NoStar
        BY <1>1, <2>3
      <4> HIDE DEF enter
      <4>3. ~Doc(p + 2, s) /\ \A k \in s + 1 .. N : ~Doc(p + 2, k)
        BY <3>4, <4>1, <4>2
      <4> QED BY <1>1, <2>3, <4>3
    <3>6. ASSUME At(pattern, p + 3) = "/" PROVE ~Doc(p + 3, s)
      <4>1. Move(pattern, path, at, zero)
        BY <2>9, <3>6 DEF Move, p, s
      <4>2. Sound(pattern, zero)
        BY <1>1, <2>3, <3>6 DEF Sound, Ordered, InPair, InStep, Afresh
      <4> QED BY <2>5, <2>9, <4>1, <4>2 DEF Afresh
    <3>7. ~Doc(p, s)
      BY <2>3, <2>9, <3>5, <3>6, DescribesCases
    <3>8. starP # NoStar
      BY <2>6, <3>7
    <3>9. PICK m \in s + 1 .. N : Doc(p, m) /\ (p > starP => Fits(At(pattern, p), path[m]))
      BY <2>6, <2>7, <3>7
    <3>10. m \in 0 .. N /\ m - 1 \in s .. N /\ m - 1 \in 0 .. N /\ m - 1 < N /\ (m - 1) + 1 = m
      BY <1>1, <2>3
    <3>11. At(pattern, p + 3) = "/" /\ Doc(p + 3, m)
      <4>1. \A k \in m .. N : ~Doc(p + 2, k)
        BY <1>1, <2>3, <3>5
      <4> QED BY <2>3, <2>9, <3>9, <3>10, <4>1, DescribesCases
    <3>12. At(pattern, p) = "/"
      <4>1. /\ starP - 1 \in 1 .. P /\ starP - 1 < p + 1 /\ (p + 1) - 1 = p
            /\ (starP - 1) + 1 = starP /\ (p + 1) + 1 = p + 2 /\ (p + 1) + 2 = p + 3
        BY <1>1, <2>3, <2>4, <3>8
      <4>2. At(pattern, starP - 1) = "*" /\ At(pattern, (starP - 1) + 1) = "*"
        BY <2>4, <3>8, <4>1
      <4>3. At(pattern, p + 1) = "*" /\ At(pattern, (p + 1) + 1) = "*" /\ At(pattern, (p + 1) + 2) = "/"
        BY <3>1, <3>11, <4>1
      <4>4. At(pattern, (p + 1) - 1) = "/"
        BY <3>1, <4>1, <4>2, <4>3 DEF Coverable
      <4> QED BY <4>1, <4>4
    <3>13. p > starP
      BY <1>1, <2>3, <2>4, <3>8, <3>12
    <3>14. path[m] = "/"
      BY <3>9, <3>12, <3>13 DEF Fits
    <3>15. p + 2 \in 0 .. P /\ p + 2 < P /\ (p + 2) + 1 = p + 3
      <4>1. p + 3 \in 1 .. P
        BY <1>2, <2>3, <3>11
      <4> QED BY <1>1, <2>3, <4>1
    <3>16. Doc(p + 2, m - 1)
      BY <3>10, <3>11, <3>14, <3>15, DescribesCases DEF Fits
    <3> QED BY <3>5, <3>10, <3>16
  <2>10. CASE s < N /\ ~Doubled(pattern, p) /\ symbol = "*"
    <3>1. p + 1 \in 1 .. P /\ p < P /\ At(pattern, p + 1) = "*" /\ At(pattern, p + 2) # "*"
      BY <1>1, <1>2, <2>3, <2>10 DEF Doubled, symbol
    <3>2. starP = NoStar
      <4> SUFFICES ASSUME starP # NoStar PROVE FALSE
        OBVIOUS
      <4>1. /\ starP - 1 \in 1 .. P /\ (starP - 1) + 1 = starP /\ ~(p + 1 < starP - 1)
            /\ (p + 1) - 1 = p /\ (p + 1) + 1 = p + 2
        BY <1>1, <2>3, <2>4
      <4>2. ~(At(pattern, p) = "*" /\ At(pattern, p + 1) = "*")
        <5>1. CASE p >= 1
          BY <2>4, <5>1 DEF InPair
        <5>2. CASE p < 1
          BY <1>1, <2>3, <2>4, <5>2
        <5> QED BY <2>3, <5>1, <5>2
      <4>3. At(pattern, starP - 1) = "*" /\ At(pattern, (starP - 1) + 1) = "*"
        BY <2>4, <4>1
      <4>4. p + 1 < starP - 1
        BY <3>1, <4>1, <4>2, <4>3 DEF Coverable
      <4> QED BY <4>1, <4>4
    <3>3. Doc(p, s)
      BY <2>6, <3>2
    <3>4. PICK k \in Segment(path, s) : Doc(p + 1, k)
      BY <2>3, <2>10, <3>1, <3>3, DescribesCases DEF symbol
    <3>5. CASE k = s
      <4> DEFINE skip == Afresh(p + 1, s)
      <4>1. Move(pattern, path, at, skip)
        BY <2>10 DEF Move, p, s, symbol
      <4>2. Sound(pattern, skip)
        <5>1. (p + 1) + 1 = p + 2
          BY <2>3
        <5> QED BY <1>1, <2>3, <3>1, <5>1 DEF Sound, Ordered, InPair, InStep, Afresh
      <4>3. Claim(skip)
        BY <3>4, <3>5 DEF Afresh
      <4> QED BY <2>5, <2>10, <4>1, <4>2, <4>3
    <3>6. CASE k # s
      <4> DEFINE more == [p |-> p, s |-> s + 1, starP |-> starP, starS |-> starS]
      <4>1. k \in s + 1 .. N /\ path[s + 1] # "/" /\ k \in Segment(path, s + 1) /\ s + 1 \in 0 .. N
        BY <1>1, <2>3, <3>6 DEF Segment
      <4>2. more = [at EXCEPT !.s = s + 1]
        BY <2>3
      <4>3. Move(pattern, path, at, more)
        <5> HIDE DEF more
        <5> QED BY <2>10, <4>1, <4>2 DEF Move, p, s, symbol
      <4>4. Sound(pattern, more)
        BY <1>1, <2>3, <2>4, <3>2 DEF Sound, Ordered, InStep
      <4>5. Doc(p, s + 1)
        BY <2>3, <2>10, <3>1, <3>4, <4>1, DescribesCases DEF symbol
      <4> QED BY <2>5, <2>10, <4>3, <4>4, <4>5
    <3> QED BY <3>5, <3>6
  <2>11. CASE s < N /\ symbol # "*" /\ Fits(symbol, path[s + 1])
    <3> DEFINE fit == [at EXCEPT !.p = p + 1, !.s = s + 1]
    <3>1. fit.p = p + 1 /\ fit.s = s + 1 /\ fit.starP = starP /\ fit.starS = starS
      BY <2>3
    <3>2. Move(pattern, path, at, fit)
      BY <2>11 DEF Move, p, s, symbol
    <3> HIDE DEF fit
    <3>3. Sound(pattern, fit)
      <4>1. ~InPair(pattern, p + 1)
        BY <2>11 DEF InPair, symbol
      <4>2. starP <= p + 1 /\ starS <= s + 1
        BY <1>1, <2>3, <2>4
      <4>3. starP # NoStar => \A i \in starP + 1 .. p + 1 : At(pattern, i) # "*"
        <5>1. \A i \in starP + 1 .. p + 1 : i \in starP + 1 .. p \/ i = p + 1
          BY <1>1, <2>3
        <5> QED BY <2>4, <2>11, <5>1 DEF symbol
      <4>4. starP # NoStar => (p + 1) - starP = (s + 1) - starS
        BY <1>1, <2>3, <2>4
      <4> QED BY <2>4, <3>1, <4>1, <4>2, <4>3, <4>4 DEF Sound, Ordered, InStep
    <3>4. p < P
      <4>1. path[s + 1] \in Symbol
        BY <1>1, <2>3, <2>11
      <4>2. symbol # "end"
        BY <2>11, <4>1, SymbolAssumption DEF Fits
      <4>3. p + 1 \in 1 .. P
        BY <1>2, <2>3, <4>2 DEF symbol
      <4> QED BY <1>1, <2>3, <4>3
    <3>5. Claim(fit)
      <4>1. CASE Doc(p, s)
        BY <2>3, <2>11, <3>1, <3>4, <4>1, DescribesCases DEF symbol
      <4>2. CASE starP # NoStar /\ \E k \in starS + 1 .. N : Doc(starP, k)
        BY <3>1, <4>2
      <4> QED BY <2>6, <4>1, <4>2
    <3> QED BY <2>5, <2>11, <3>2, <3>3, <3>5
  <2>12. CASE s < N /\ symbol # "*" /\ ~Fits(symbol, path[s + 1])
    <3>1. ~Doc(p, s)
      <4>1. CASE p = P
        BY <1>1, <2>3, <2>12, <4>1, DescribesCases
      <4>2. CASE p # P
        <5>1. p < P
          BY <1>1, <2>3, <4>2
        <5> QED BY <2>3, <2>12, <5>1, DescribesCases DEF symbol
      <4> QED BY <4>1, <4>2
    <3>2. starP # NoStar
      BY <2>6, <3>1
    <3>3. PICK k \in starS + 1 .. N : Doc(starP, k)
      BY <2>6, <3>1
    <3> DEFINE again == InTree(starP, starS + 1)
    <3>4. Move(pattern, path, at, again)
      <4>1. starS < N
        BY <1>1, <2>3
      <4> QED BY <2>12, <3>2, <4>1 DEF Move, p, s, starP, starS, symbol
    <3>5. Sound(pattern, again)
      <4>1. At(pattern, starP + 1) # "*"
        <5>1. starP - 1 \in 1 .. P /\ (starP - 1) + 1 = starP /\ ((starP - 1) + 1) + 1 = starP + 1
          BY <1>1, <2>3, <2>4, <3>2
        <5>2. At(pattern, starP - 1) = "*" /\ At(pattern, starP) = "*"
          BY <2>4, <3>2
        <5> QED BY <5>1, <5>2 DEF Coverable
      <4>2. starP + 1 .. starP = {} /\ starP - starP = (starS + 1) - (starS + 1)
            /\ starP <= starP /\ starS + 1 <= starS + 1
        BY <1>1, <2>3
      <4> QED BY <2>4, <3>2, <4>1, <4>2 DEF Sound, Ordered, InPair, InStep, InTree
    <3>6. Claim(again)
      <4>1. k = starS + 1 \/ k \in (starS + 1) + 1 .. N
        BY <1>1, <2>3
      <4> QED BY <3>2, <3>3, <4>1 DEF InTree
    <3> QED BY <2>5, <2>12, <3>4, <3>5, <3>6
  <2>13. Doubled(pattern, p) => symbol = "*"
    BY DEF Doubled, symbol
  <2> QED BY <1>1, <2>3, <2>8, <2>9, <2>10, <2>11, <2>12, <2>13
<1>4. Afresh(0, 0) \in Place(pattern, path) /\ Sound(pattern, Afresh(0, 0))
  BY <1>1 DEF Afresh, Place, Sound, Ordered, InPair, InStep
<1>5. Claim(Afresh(0, 0))
  BY DEF Afresh, Describes, Documented
<1>6. matches[Afresh(0, 0)]
  BY <1>3, <1>4, <1>5
<1> QED BY <1>6 DEF MatchHere

\* A plain pattern describes itself alone.
LEMMA PlainDescribesItself ==
  ASSUME NEW d \in Seq(Symbol), NEW path \in Seq(Symbol), Plain(d), Documented(d, path)
  PROVE  path = d
<1>1. Len(d) \in Nat /\ Len(path) \in Nat
  OBVIOUS
<1>2. \A i \in 1 .. Len(d) : At(d, i) = d[i] /\ d[i] # "*" /\ d[i] # "?"
  BY DEF At, Plain, Contains
<1>3. Describes(d, path, 0, 0)
  BY DEF Documented, Describes
<1>4. ASSUME NEW p \in 0 .. Len(d)
      PROVE  p <= Len(path) /\ Describes(d, path, p, p) /\ (p > 0 => path[p] = d[p])
  <2>1. /\ 0 \in 0 .. Len(d) /\ 0 \in 0 .. Len(path) /\ p \in 0 .. Len(d)
        /\ \A i \in 0 + 1 .. p : At(d, i) # "*"
    BY <1>1, <1>2
  <2>2. /\ 0 + (p - 0) <= Len(path) /\ Describes(d, path, p, 0 + (p - 0))
        /\ p > 0 => Fits(At(d, p), path[0 + (p - 0)])
    BY <1>3, <2>1, ReadInStep
  <2>3. 0 + (p - 0) = p
    BY <1>1
  <2>4. p > 0 => At(d, p) = d[p] /\ d[p] # "?"
    BY <1>1, <1>2
  <2> QED BY <2>2, <2>3, <2>4 DEF Fits
<1>5. Len(d) <= Len(path) /\ Describes(d, path, Len(d), Len(d))
  BY <1>1, <1>4
<1>6. Len(path) = Len(d)
  <2>1. Len(d) \in 0 .. Len(d) /\ Len(d) \in 0 .. Len(path)
    BY <1>1, <1>5
  <2> QED BY <1>5, <2>1, DescribesCases
<1>7. \A i \in 1 .. Len(d) : path[i] = d[i]
  BY <1>1, <1>4
<1> QED BY <1>6, <1>7, SeqEqual

\* A `**` that the matcher has left behind is never missed: every path a covered
\* pattern describes is matched, however many `**` the pattern has.
THEOREM NothingMissed == Spec => []GlobComplete
<1>1. Answers => GlobComplete
  <2> SUFFICES ASSUME Answers, Answered("glob"), Covered(text),
                      NEW path \in Paths, path \notin Result, Promised(text, path)
               PROVE  FALSE
    BY DEF GlobComplete
  <2>1. text \in Seq(Symbol) /\ path \in Seq(Symbol)
    BY PatternsAssumption, PathsAssumption DEF Answers, Answered
  <2>2. ~GlobMatch(text, path) /\ text # << >>
    BY DEF Answers, Answered, Result, Covered
  <2>3. Coverable(text)
    BY <2>1, CoveredIsCoverable
  <2>4. CASE Documented(text, path)
    BY <2>1, <2>2, <2>3, <2>4, DescribedIsAccepted DEF GlobMatch
  <2>5. CASE EndsInTree(text) /\ Documented(Directory(text), path)
    <3>1. Directory(text) \in Seq(Symbol) /\ Plain(Directory(text))
      <4>1. Len(text) - 3 \in 0 .. Len(text)
        BY <2>1, <2>5, TreeAtEnd
      <4> QED BY <2>1, <2>5, <4>1, BeginningOf DEF Covered, Directory
    <3>2. path = Directory(text)
      BY <2>1, <2>5, <3>1, PlainDescribesItself
    <3> QED BY <2>2, <2>5, <3>2 DEF GlobMatch, Directory
  <2> QED BY <2>4, <2>5 DEF Promised
<1> QED BY <1>1, AnswersHold, PTL

-----------------------------------------------------------------------------
(* Paths.  The parts of a path and the path they join to, for texts over   *)
(* any alphabet A without "end".                                           *)

PartOf(A) == {q \in Seq(A) : q # << >> /\ \A i \in 1 .. Len(q) : q[i] # "/"}

Grown(parts, c) == [parts EXCEPT ![Len(parts)] = Append(parts[Len(parts)], c)]

LEMMA LastPartGrows ==
  ASSUME NEW A, NEW parts \in Seq(PartOf(A)), NEW c \in A, c # "/"
  PROVE  /\ Grown(parts, c) \in Seq(PartOf(A)) /\ Len(Grown(parts, c)) = Len(parts)
         /\ parts # << >> => Grown(parts, c)[Len(parts)] = Append(parts[Len(parts)], c)
         /\ \A i \in 1 .. Len(parts) - 1 : Grown(parts, c)[i] = parts[i]
<1> DEFINE n == Len(parts)
           last == Append(parts[n], c)
<1>1. n \in Nat /\ DOMAIN parts = 1 .. n
  OBVIOUS
<1>2. CASE n = 0
  <2>1. Grown(parts, c) = parts
    BY <1>1, <1>2 DEF Grown
  <2> QED BY <1>1, <1>2, <2>1
<1>3. CASE n # 0
  <2>1. n \in 1 .. n /\ parts[n] \in PartOf(A)
    BY <1>1, <1>3
  <2>2. parts[n] \in Seq(A) /\ \A i \in 1 .. Len(parts[n]) : parts[n][i] # "/"
    BY <2>1 DEF PartOf
  <2>3. last \in PartOf(A)
    <3>1. /\ last \in Seq(A) /\ last # << >> /\ Len(last) = Len(parts[n]) + 1
          /\ \A i \in 1 .. Len(parts[n]) : last[i] = parts[n][i]
          /\ last[Len(parts[n]) + 1] = c
      BY <2>2, AppendProperties
    <3>2. Len(parts[n]) \in Nat
      BY <2>2
    <3> HIDE DEF last
    <3>3. \A i \in 1 .. Len(last) : last[i] # "/"
      BY <2>2, <3>1, <3>2
    <3> QED BY <3>1, <3>3 DEF PartOf
  <2>4. Grown(parts, c) = [parts EXCEPT ![n] = last]
    BY DEF Grown
  <2> HIDE DEF last
  <2>5. /\ Grown(parts, c) \in Seq(PartOf(A)) /\ Len(Grown(parts, c)) = n
        /\ \A j \in 1 .. n : Grown(parts, c)[j] = IF j = n THEN last ELSE parts[j]
    BY <2>1, <2>3, <2>4, ExceptSeq
  <2>6. \A j \in 1 .. n - 1 : j \in 1 .. n /\ j # n
    <3> HIDE DEF n
    <3> QED BY <1>1
  <2> QED BY <2>1, <2>5, <2>6 DEF last
<1> QED BY <1>2, <1>3

LEMMA PartAdded ==
  ASSUME NEW A, NEW parts \in Seq(PartOf(A)), NEW before, NEW c \in A
  PROVE  WithSymbol(parts, before, c) \in Seq(PartOf(A))
<1>1. CASE c = "/"
  BY <1>1 DEF WithSymbol
<1>2. CASE c # "/" /\ before \in {"/", "end"}
  <2>1. <<c>> \in PartOf(A)
    BY <1>2 DEF PartOf
  <2> QED BY <1>2, <2>1, AppendProperties DEF WithSymbol
<1>3. CASE c # "/" /\ before \notin {"/", "end"}
  BY <1>3, LastPartGrows DEF WithSymbol, Grown
<1> QED BY <1>1, <1>2, <1>3

LEMMA PartSteps ==
  ASSUME NEW A, NEW path \in Seq(A)
  PROVE  /\ PartsTo(path) \in [0 .. Len(path) -> Seq(PartOf(A))]
         /\ PartsTo(path)[0] = << >>
         /\ \A n \in 1 .. Len(path) :
              PartsTo(path)[n] = WithSymbol(PartsTo(path)[n - 1], At(path, n - 1), path[n])
<1> DEFINE N == Len(path)
           V == Seq(PartOf(A))
           Solves(f) == f = [n \in 0 .. N |->
             IF n = 0 THEN << >> ELSE WithSymbol(f[n - 1], At(path, n - 1), path[n])]
           parts == CHOOSE f : Solves(f)
           step == [p_n \in V \X (1 .. N) |-> WithSymbol(p_n[1], At(path, p_n[2] - 1), path[p_n[2]])]
<1>1. N \in Nat /\ << >> \in V
  OBVIOUS
<1>2. \A p \in V, n \in 1 .. N : WithSymbol(p, At(path, n - 1), path[n]) \in V
  BY PartAdded
<1> HIDE DEF V
<1>3. step \in [V \X (1 .. N) -> V] /\ \A p \in V, n \in 1 .. N : step[<<p, n>>] = WithSymbol(p, At(path, n - 1), path[n])
  BY <1>2
<1> HIDE DEF step
<1>4. PICK f : Iterates(V, << >>, step, N, f)
  BY <1>1, <1>3, FiniteSequenceExists
<1>5. Solves(f)
  <2>1. ASSUME NEW n \in 0 .. N
        PROVE  f[n] = IF n = 0 THEN << >> ELSE WithSymbol(f[n - 1], At(path, n - 1), path[n])
    <3>1. CASE n = 0
      BY <1>4, <3>1 DEF Iterates
    <3>2. CASE n # 0
      <4>1. n \in 1 .. N /\ f[n - 1] \in V
        BY <1>1, <1>4, <3>2 DEF Iterates
      <4> QED BY <1>3, <1>4, <3>2, <4>1 DEF Iterates
    <3> QED BY <3>1, <3>2
  <2> QED BY <1>4, <2>1 DEF Iterates
<1>6. PartsTo(path) = parts
  BY DEF PartsTo
<1> HIDE DEF Solves
<1>7. Solves(parts)
  BY <1>5
<1> HIDE DEF parts
<1>8. DOMAIN parts = 0 .. N /\ parts[0] = << >>
      /\ \A n \in 1 .. N : parts[n] = WithSymbol(parts[n - 1], At(path, n - 1), path[n])
  BY <1>1, <1>7 DEF Solves
<1>9. \A n \in 0 .. N : parts[n] \in V
  <2> DEFINE S == {n \in Nat : n <= N => parts[n] \in V}
  <2>1. 0 \in S
    BY <1>1, <1>8
  <2>2. ASSUME NEW n \in Nat, n \in S PROVE n + 1 \in S
    <3> SUFFICES ASSUME n + 1 <= N PROVE parts[n + 1] \in V
      OBVIOUS
    <3>1. parts[n] \in V /\ n + 1 \in 1 .. N /\ (n + 1) - 1 = n
      BY <1>1, <2>2
    <3> QED BY <1>2, <1>8, <3>1
  <2>3. Nat \subseteq S
    <3> HIDE DEF S
    <3> QED BY <2>1, <2>2, SetInduction
  <2> QED BY <1>1, <2>3
<1>10. parts \in [0 .. N -> V]
  <2>1. parts = [n \in 0 .. N |-> parts[n]]
    BY <1>7 DEF Solves
  <2> HIDE DEF parts
  <2> QED BY <1>9, <2>1
<1> QED BY <1>6, <1>8, <1>10 DEF V

\* One symbol more.
LEMMA PartsOfLonger ==
  ASSUME NEW A, NEW t \in Seq(A), NEW c \in A
  PROVE  Parts(Append(t, c)) = WithSymbol(Parts(t), At(t, Len(t)), c)
<1> DEFINE N == Len(t)
           u == Append(t, c)
           S == {n \in Nat : n <= N => PartsTo(u)[n] = PartsTo(t)[n]}
<1>1. /\ u \in Seq(A) /\ Len(u) = N + 1 /\ N \in Nat /\ u[N + 1] = c
      /\ \A i \in 1 .. N : u[i] = t[i]
  BY AppendProperties
<1>2. \A i \in Int : i <= N => At(u, i) = At(t, i)
  BY <1>1 DEF At
<1>3. 0 \in S
  BY PartSteps, <1>1
<1>4. ASSUME NEW n \in Nat, n \in S PROVE n + 1 \in S
  <2> SUFFICES ASSUME n + 1 <= N PROVE PartsTo(u)[n + 1] = PartsTo(t)[n + 1]
    OBVIOUS
  <2>1. PartsTo(u)[n] = PartsTo(t)[n] /\ n + 1 \in 1 .. N /\ n + 1 \in 1 .. N + 1 /\ (n + 1) - 1 = n
    BY <1>1, <1>4
  <2>2. At(u, n) = At(t, n) /\ u[n + 1] = t[n + 1]
    BY <1>1, <1>2, <2>1
  <2>3. PartsTo(u)[n + 1] = WithSymbol(PartsTo(u)[(n + 1) - 1], At(u, (n + 1) - 1), u[n + 1])
    <3> HIDE DEF u
    <3> QED BY <1>1, <2>1, PartSteps
  <2>4. PartsTo(t)[n + 1] = WithSymbol(PartsTo(t)[(n + 1) - 1], At(t, (n + 1) - 1), t[n + 1])
    BY <2>1, PartSteps
  <2> QED BY <2>1, <2>2, <2>3, <2>4
<1>5. N \in S
  <2>1. Nat \subseteq S
    <3> HIDE DEF S
    <3> QED BY <1>3, <1>4, SetInduction
  <2> QED BY <1>1, <2>1
<1>6. PartsTo(u)[N] = PartsTo(t)[N]
  BY <1>1, <1>5
<1> HIDE DEF u, S
<1>7. PartsTo(u)[N + 1] = WithSymbol(PartsTo(u)[(N + 1) - 1], At(u, (N + 1) - 1), u[N + 1])
  <2>1. N + 1 \in 1 .. Len(u)
    BY <1>1
  <2> QED BY <1>1, <2>1, PartSteps
<1>8. (N + 1) - 1 = N /\ At(u, N) = At(t, N)
  BY <1>1, <1>2
<1> QED BY <1>1, <1>6, <1>7, <1>8 DEF Parts, u

LEMMA JoinSteps ==
  ASSUME NEW A, "/" \in A, NEW parts \in Seq(PartOf(A))
  PROVE  /\ JoinTo(parts) \in [0 .. Len(parts) -> Seq(A)]
         /\ JoinTo(parts)[0] = << >>
         /\ \A n \in 1 .. Len(parts) : JoinTo(parts)[n] = WithPart(JoinTo(parts)[n - 1], parts[n])
<1> DEFINE N == Len(parts)
           V == Seq(A)
           Solves(f) == f = [n \in 0 .. N |-> IF n = 0 THEN << >> ELSE WithPart(f[n - 1], parts[n])]
           after == CHOOSE f : Solves(f)
           step == [v_n \in V \X (1 .. N) |-> WithPart(v_n[1], parts[v_n[2]])]
<1>1. N \in Nat /\ << >> \in V
  OBVIOUS
<1>2. \A v \in V, n \in 1 .. N : WithPart(v, parts[n]) \in V
  <2> SUFFICES ASSUME NEW v \in V, NEW n \in 1 .. N PROVE WithPart(v, parts[n]) \in V
    OBVIOUS
  <2>1. parts[n] \in Seq(A) /\ <<"/">> \in Seq(A)
    BY DEF PartOf
  <2> QED BY <2>1, ConcatProperties DEF WithPart
<1> HIDE DEF V
<1>3. /\ step \in [V \X (1 .. N) -> V]
      /\ \A v \in V, n \in 1 .. N : step[<<v, n>>] = WithPart(v, parts[n])
  BY <1>2
<1> HIDE DEF step
<1>4. PICK f : Iterates(V, << >>, step, N, f)
  BY <1>1, <1>3, FiniteSequenceExists
<1>5. Solves(f)
  <2>1. ASSUME NEW n \in 0 .. N
        PROVE  f[n] = IF n = 0 THEN << >> ELSE WithPart(f[n - 1], parts[n])
    <3>1. CASE n = 0
      BY <1>4, <3>1 DEF Iterates
    <3>2. CASE n # 0
      <4>1. n \in 1 .. N /\ f[n - 1] \in V
        BY <1>1, <1>4, <3>2 DEF Iterates
      <4> QED BY <1>3, <1>4, <3>2, <4>1 DEF Iterates
    <3> QED BY <3>1, <3>2
  <2> QED BY <1>4, <2>1 DEF Iterates
<1>6. JoinTo(parts) = after
  BY DEF JoinTo
<1> HIDE DEF Solves
<1>7. Solves(after)
  BY <1>5
<1> HIDE DEF after
<1>8. DOMAIN after = 0 .. N /\ after[0] = << >>
      /\ \A n \in 1 .. N : after[n] = WithPart(after[n - 1], parts[n])
  BY <1>1, <1>7 DEF Solves
<1>9. \A n \in 0 .. N : after[n] \in V
  <2> DEFINE S == {n \in Nat : n <= N => after[n] \in V}
  <2>1. 0 \in S
    BY <1>1, <1>8
  <2>2. ASSUME NEW n \in Nat, n \in S PROVE n + 1 \in S
    <3> SUFFICES ASSUME n + 1 <= N PROVE after[n + 1] \in V
      OBVIOUS
    <3>1. after[n] \in V /\ n + 1 \in 1 .. N /\ (n + 1) - 1 = n
      BY <1>1, <2>2
    <3> QED BY <1>2, <1>8, <3>1
  <2>3. Nat \subseteq S
    <3> HIDE DEF S
    <3> QED BY <2>1, <2>2, SetInduction
  <2> QED BY <1>1, <2>3
<1>10. after \in [0 .. N -> V]
  <2>1. after = [n \in 0 .. N |-> after[n]]
    BY <1>7 DEF Solves
  <2> HIDE DEF after
  <2> QED BY <1>9, <2>1
<1> QED BY <1>6, <1>8, <1>10 DEF V

\* The first n parts join to the same whatever comes after them.
LEMMA JoinOfBeginning ==
  ASSUME NEW A, "/" \in A, NEW s \in Seq(PartOf(A)), NEW t \in Seq(PartOf(A)),
         NEW m \in 0 .. Len(s), m <= Len(t), \A i \in 1 .. m : s[i] = t[i]
  PROVE  JoinTo(s)[m] = JoinTo(t)[m]
<1> DEFINE S == {n \in Nat : n <= m => JoinTo(s)[n] = JoinTo(t)[n]}
<1>1. 0 \in S
  BY JoinSteps
<1>2. ASSUME NEW n \in Nat, n \in S PROVE n + 1 \in S
  <2> SUFFICES ASSUME n + 1 <= m PROVE JoinTo(s)[n + 1] = JoinTo(t)[n + 1]
    OBVIOUS
  <2>1. /\ JoinTo(s)[n] = JoinTo(t)[n] /\ n + 1 \in 1 .. Len(s) /\ n + 1 \in 1 .. Len(t)
        /\ (n + 1) - 1 = n /\ s[n + 1] = t[n + 1]
    BY <1>2
  <2> QED BY <2>1, JoinSteps
<1>3. Nat \subseteq S
  <2> HIDE DEF S
  <2> QED BY <1>1, <1>2, SetInduction
<1> QED BY <1>3

LEMMA JoinOfLonger ==
  ASSUME NEW A, "/" \in A, NEW parts \in Seq(PartOf(A)), NEW q \in PartOf(A)
  PROVE  Join(Append(parts, q)) = WithPart(Join(parts), q)
<1> DEFINE longer == Append(parts, q)
           n == Len(parts)
<1>1. /\ longer \in Seq(PartOf(A)) /\ Len(longer) = n + 1 /\ longer[n + 1] = q
      /\ \A i \in 1 .. n : longer[i] = parts[i]
  BY AppendProperties
<1>2. n \in Nat /\ n \in 0 .. Len(parts) /\ n <= n + 1 /\ (n + 1) - 1 = n /\ n + 1 \in 1 .. n + 1
  OBVIOUS
<1> HIDE DEF longer, n
<1>3. JoinTo(parts)[n] = JoinTo(longer)[n]
  BY <1>1, <1>2, JoinOfBeginning DEF n
<1>4. JoinTo(longer)[n + 1] = WithPart(JoinTo(longer)[(n + 1) - 1], longer[n + 1])
  BY <1>1, <1>2, JoinSteps
<1> QED BY <1>1, <1>2, <1>3, <1>4 DEF Join, longer, n

LEMMA JoinTyped ==
  ASSUME NEW A, "/" \in A, NEW parts \in Seq(PartOf(A))
  PROVE  Join(parts) \in Seq(A) /\ (Join(parts) = << >> <=> parts = << >>)
<1>1. Len(parts) \in Nat
  OBVIOUS
<1>2. Join(parts) \in Seq(A)
  BY <1>1, JoinSteps DEF Join
<1>3. CASE parts = << >>
  <2>1. Len(parts) = 0 /\ JoinTo(parts)[0] = << >>
    BY <1>3, JoinSteps
  <2>2. Join(parts) = << >>
    BY <2>1 DEF Join
  <2> QED BY <1>2, <1>3, <2>2
<1>4. CASE parts # << >>
  <2>1. Len(parts) \in 1 .. Len(parts) /\ Len(parts) - 1 \in 0 .. Len(parts)
    BY <1>1, <1>4
  <2>2. Join(parts) = WithPart(JoinTo(parts)[Len(parts) - 1], parts[Len(parts)])
    BY <2>1, JoinSteps DEF Join
  <2>3. parts[Len(parts)] \in Seq(A) /\ parts[Len(parts)] # << >>
    BY <2>1 DEF PartOf
  <2>4. JoinTo(parts)[Len(parts) - 1] \in Seq(A)
    BY <2>1, JoinSteps
  <2> HIDE DEF Join
  <2>5. CASE JoinTo(parts)[Len(parts) - 1] = << >>
    BY <1>4, <1>2, <2>2, <2>3, <2>5 DEF WithPart
  <2>6. CASE JoinTo(parts)[Len(parts) - 1] # << >>
    <3>1. <<"/">> \in Seq(A) /\ JoinTo(parts)[Len(parts) - 1] \o <<"/">> \in Seq(A)
      BY <2>4
    <3>2. Join(parts) # << >>
      BY <2>2, <2>3, <2>6, <3>1, ConcatEqualIffEmpty DEF WithPart
    <3> QED BY <1>2, <1>4, <3>2
  <2> QED BY <2>5, <2>6
<1> QED BY <1>2, <1>3, <1>4

LEMMA OneLonger ==
  ASSUME NEW A, NEW t \in Seq(A), NEW n \in 0 .. Len(t) - 1
  PROVE  SubSeq(t, 1, n + 1) = Append(SubSeq(t, 1, n), t[n + 1])
<1>1. /\ Len(t) \in Nat /\ n \in 0 .. Len(t) /\ n + 1 \in 0 .. Len(t) /\ n + 1 \in 1 .. Len(t)
      /\ n \in Nat /\ t[n + 1] \in A
  OBVIOUS
<1>2. /\ SubSeq(t, 1, n) \in Seq(A) /\ Len(SubSeq(t, 1, n)) = n
      /\ \A i \in 1 .. n : SubSeq(t, 1, n)[i] = t[i]
  BY <1>1, BeginningOf
<1>3. /\ SubSeq(t, 1, n + 1) \in Seq(A) /\ Len(SubSeq(t, 1, n + 1)) = n + 1
      /\ \A i \in 1 .. n + 1 : SubSeq(t, 1, n + 1)[i] = t[i]
  BY <1>1, BeginningOf
<1> DEFINE u == Append(SubSeq(t, 1, n), t[n + 1])
<1>4. /\ u \in Seq(A) /\ Len(u) = n + 1 /\ u[n + 1] = t[n + 1]
      /\ \A i \in 1 .. n : u[i] = t[i]
  BY <1>1, <1>2, AppendProperties
<1> HIDE DEF u
<1>5. \A i \in 1 .. n + 1 : SubSeq(t, 1, n + 1)[i] = u[i]
  BY <1>1, <1>3, <1>4
<1>6. SubSeq(t, 1, n + 1) = u
  BY <1>3, <1>4, <1>5, SeqEqual
<1> QED BY <1>6 DEF u

LEMMA ConcatOneMore ==
  ASSUME NEW A, NEW t \in Seq(A), NEW b \in Seq(A), NEW c \in A
  PROVE  t \o Append(b, c) = Append(t \o b, c)
<1>1. <<c>> \in Seq(A) /\ t \o b \in Seq(A)
  OBVIOUS
<1>2. Append(b, c) = b \o <<c>> /\ Append(t \o b, c) = (t \o b) \o <<c>>
  BY <1>1, AppendIsConcat
<1> QED BY <1>1, <1>2, ConcatAssociative

LEMMA GrownLast ==
  ASSUME NEW A, NEW parts \in Seq(PartOf(A)), NEW b \in PartOf(A), NEW c \in A, c # "/"
  PROVE  Append(b, c) \in PartOf(A) /\ Grown(Append(parts, b), c) = Append(parts, Append(b, c))
<1> DEFINE P == Append(parts, b)
           n == Len(parts)
           Q == Append(parts, Append(b, c))
<1>1. b \in Seq(A) /\ n \in Nat
  BY DEF PartOf
<1>2. Append(b, c) \in PartOf(A)
  <2>1. /\ Append(b, c) \in Seq(A) /\ Append(b, c) # << >> /\ Len(Append(b, c)) = Len(b) + 1
        /\ \A i \in 1 .. Len(b) : Append(b, c)[i] = b[i]
        /\ Append(b, c)[Len(b) + 1] = c
    BY <1>1, AppendProperties
  <2>2. \A i \in 1 .. Len(b) + 1 : i \in 1 .. Len(b) \/ i = Len(b) + 1
    BY <1>1
  <2> QED BY <2>1, <2>2 DEF PartOf
<1>3. /\ P \in Seq(PartOf(A)) /\ P # << >> /\ Len(P) = n + 1 /\ P[n + 1] = b
      /\ \A i \in 1 .. n : P[i] = parts[i]
  BY AppendProperties
<1> HIDE DEF P
<1>4. /\ Grown(P, c) \in Seq(PartOf(A)) /\ Len(Grown(P, c)) = n + 1
      /\ Grown(P, c)[n + 1] = Append(b, c)
      /\ \A i \in 1 .. n : Grown(P, c)[i] = parts[i]
  <2>1. (n + 1) - 1 = n
    BY <1>1
  <2> HIDE DEF n
  <2>2. /\ Grown(P, c) \in Seq(PartOf(A)) /\ Len(Grown(P, c)) = Len(P)
        /\ Grown(P, c)[Len(P)] = Append(P[Len(P)], c)
        /\ \A i \in 1 .. Len(P) - 1 : Grown(P, c)[i] = P[i]
    BY <1>3, LastPartGrows
  <2> QED BY <1>3, <2>1, <2>2
<1>5. /\ Q \in Seq(PartOf(A)) /\ Len(Q) = n + 1 /\ Q[n + 1] = Append(b, c)
      /\ \A i \in 1 .. n : Q[i] = parts[i]
  BY <1>2, AppendProperties
<1> HIDE DEF Q
<1>6. \A i \in 1 .. n + 1 : Grown(P, c)[i] = Q[i]
  <2>1. \A i \in 1 .. n + 1 : i \in 1 .. n \/ i = n + 1
    BY <1>1
  <2> HIDE DEF n
  <2> QED BY <1>4, <1>5, <2>1
<1>7. Grown(P, c) = Q
  <2> HIDE DEF n
  <2> QED BY <1>4, <1>5, <1>6, SeqEqual
<1> QED BY <1>2, <1>7 DEF P, Q

LEMMA PartsTyped ==
  ASSUME NEW A, NEW t \in Seq(A)
  PROVE  Parts(t) \in Seq(PartOf(A)) /\ (t = << >> => Parts(t) = << >>)
<1>1. Len(t) \in 0 .. Len(t) /\ (t = << >> => Len(t) = 0)
  OBVIOUS
<1> QED BY <1>1, PartSteps DEF Parts

\* A part after a separator is a part more.
LEMMA PartsOfPart ==
  ASSUME NEW A, "end" \notin A, NEW t \in Seq(A), At(t, Len(t)) \in {"/", "end"}, NEW q \in PartOf(A)
  PROVE  Parts(t \o q) = Append(Parts(t), q)
<1> DEFINE S == {n \in Nat : n + 1 <= Len(q) =>
                   Parts(t \o SubSeq(q, 1, n + 1)) = Append(Parts(t), SubSeq(q, 1, n + 1))}
<1>1. /\ q \in Seq(A) /\ Len(q) \in Nat /\ q # << >> /\ Len(q) >= 1
      /\ \A i \in 1 .. Len(q) : q[i] \in A /\ q[i] # "/" /\ q[i] # "end"
  BY DEF PartOf
<1>2. Parts(t) \in Seq(PartOf(A))
  BY PartsTyped
<1>3. \A n \in 0 .. Len(q) : SubSeq(q, 1, n) \in Seq(A) /\ Len(SubSeq(q, 1, n)) = n
                             /\ \A i \in 1 .. n : SubSeq(q, 1, n)[i] = q[i]
  BY <1>1, BeginningOf
<1>4. 0 \in S
  <2>1. SubSeq(q, 1, 0 + 1) = <<q[1]>>
    <3>1. 0 \in 0 .. Len(q) - 1 /\ 0 + 1 = 1
      BY <1>1
    <3>2. SubSeq(q, 1, 0) = << >>
      BY SubSeqEmpty
    <3>3. SubSeq(q, 1, 0 + 1) = Append(SubSeq(q, 1, 0), q[0 + 1])
      BY <1>1, <3>1, OneLonger
    <3>4. Append(<< >>, q[1]) = <<q[1]>>
      OBVIOUS
    <3> QED BY <3>1, <3>2, <3>3, <3>4
  <2>2. t \o <<q[1]>> = Append(t, q[1])
    BY <1>1, AppendIsConcat
  <2>3. Parts(Append(t, q[1])) = WithSymbol(Parts(t), At(t, Len(t)), q[1])
    BY <1>1, PartsOfLonger
  <2>4. q[1] # "/"
    BY <1>1
  <2> QED BY <2>1, <2>2, <2>3, <2>4 DEF WithSymbol
<1>5. ASSUME NEW n \in Nat, n \in S PROVE n + 1 \in S
  <2> SUFFICES ASSUME (n + 1) + 1 <= Len(q)
               PROVE  Parts(t \o SubSeq(q, 1, (n + 1) + 1)) = Append(Parts(t), SubSeq(q, 1, (n + 1) + 1))
    OBVIOUS
  <2> DEFINE b == SubSeq(q, 1, n + 1)
             c == q[(n + 1) + 1]
             u == t \o b
  <2>1. /\ n + 1 \in 1 .. Len(q) /\ n + 1 \in 0 .. Len(q) - 1 /\ (n + 1) + 1 \in 1 .. Len(q)
        /\ n + 1 \in 0 .. Len(q) /\ n + 1 \in 1 .. n + 1 /\ n + 1 <= Len(q)
    BY <1>1
  <2>2. Parts(u) = Append(Parts(t), b)
    BY <1>5, <2>1
  <2>3. SubSeq(q, 1, (n + 1) + 1) = Append(b, c)
    BY <1>1, <2>1, OneLonger
  <2>4. /\ b \in Seq(A) /\ Len(b) = n + 1 /\ b[n + 1] = q[n + 1]
        /\ \A i \in 1 .. n + 1 : b[i] = q[i]
    BY <1>3, <2>1
  <2>5. c \in A /\ c # "/" /\ q[n + 1] # "/" /\ q[n + 1] # "end"
    BY <1>1, <2>1
  <2> HIDE DEF b, c, S
  <2>6. b \in PartOf(A)
    <3>1. b # << >>
      BY <2>4
    <3>2. \A i \in 1 .. n + 1 : i \in 1 .. Len(q)
      BY <1>1, <2>1
    <3> QED BY <1>1, <2>4, <3>1, <3>2 DEF PartOf
  <2>7. /\ u \in Seq(A) /\ Len(u) = Len(t) + (n + 1) /\ At(u, Len(u)) = q[n + 1]
    <3>1. /\ u \in Seq(A) /\ Len(u) = Len(t) + Len(b)
          /\ \A i \in 1 .. Len(t) + Len(b) :
               u[i] = IF i <= Len(t) THEN t[i] ELSE b[i - Len(t)]
      BY <2>4, ConcatProperties
    <3>2. /\ Len(t) \in Nat /\ Len(t) + (n + 1) \in 1 .. Len(t) + (n + 1)
          /\ ~(Len(t) + (n + 1) <= Len(t)) /\ (Len(t) + (n + 1)) - Len(t) = n + 1
      OBVIOUS
    <3> HIDE DEF u
    <3> QED BY <2>4, <3>1, <3>2 DEF At
  <2>8. t \o Append(b, c) = Append(u, c)
    BY <2>4, <2>5, ConcatOneMore
  <2>9. Parts(Append(u, c)) = WithSymbol(Parts(u), At(u, Len(u)), c)
    <3> HIDE DEF u
    <3> QED BY <2>5, <2>7, PartsOfLonger
  <2> HIDE DEF u
  <2>10. WithSymbol(Parts(u), At(u, Len(u)), c) = Grown(Parts(u), c)
    BY <2>5, <2>7 DEF WithSymbol, Grown
  <2>11. Grown(Append(Parts(t), b), c) = Append(Parts(t), Append(b, c))
    BY <1>2, <2>5, <2>6, GrownLast
  <2> QED BY <2>2, <2>3, <2>8, <2>9, <2>10, <2>11
<1>6. Len(q) - 1 \in S
  <2>1. Nat \subseteq S
    <3> HIDE DEF S
    <3> QED BY <1>4, <1>5, SetInduction
  <2>2. Len(q) - 1 \in Nat
    BY <1>1
  <2> HIDE DEF S
  <2> QED BY <2>1, <2>2
<1>7. (Len(q) - 1) + 1 = Len(q) /\ Len(q) <= Len(q)
  BY <1>1
<1>8. Parts(t \o SubSeq(q, 1, Len(q))) = Append(Parts(t), SubSeq(q, 1, Len(q)))
  BY <1>6, <1>7
<1>9. SubSeq(q, 1, Len(q)) = q
  BY <1>1, SubSeqFull
<1> QED BY <1>8, <1>9

\* Parts joined come apart again.
LEMMA PartsOfJoin ==
  ASSUME NEW A, "end" \notin A, "/" \in A, NEW ps \in Seq(PartOf(A))
  PROVE  Parts(Join(ps)) = ps
<1> DEFINE J(n) == Join(SubSeq(ps, 1, n))
           S == {n \in Nat : n <= Len(ps) => Parts(J(n)) = SubSeq(ps, 1, n)}
<1>1. Len(ps) \in Nat
  OBVIOUS
<1>2. \A n \in 0 .. Len(ps) : SubSeq(ps, 1, n) \in Seq(PartOf(A)) /\ Len(SubSeq(ps, 1, n)) = n
  BY BeginningOf
<1>3. 0 \in S
  <2>1. SubSeq(ps, 1, 0) = << >> /\ << >> \in Seq(PartOf(A)) /\ << >> \in Seq(A)
    OBVIOUS
  <2>2. Join(<< >>) = << >> /\ Parts(<< >>) = << >>
    BY <2>1, JoinTyped, PartsTyped
  <2> QED BY <2>1, <2>2
<1>4. ASSUME NEW n \in Nat, n \in S PROVE n + 1 \in S
  <2> SUFFICES ASSUME n + 1 <= Len(ps) PROVE Parts(J(n + 1)) = SubSeq(ps, 1, n + 1)
    OBVIOUS
  <2> DEFINE b == SubSeq(ps, 1, n)
             q == ps[n + 1]
             t == IF Join(b) = << >> THEN << >> ELSE Append(Join(b), "/")
  <2>1. n \in 0 .. Len(ps) - 1 /\ n \in 0 .. Len(ps) /\ n + 1 \in 1 .. Len(ps) /\ n <= Len(ps)
    BY <1>1
  <2>2. SubSeq(ps, 1, n + 1) = Append(b, q)
    BY <2>1, OneLonger
  <2>3. Parts(Join(b)) = b
    BY <1>4, <2>1
  <2>4. b \in Seq(PartOf(A)) /\ q \in PartOf(A)
    BY <1>2, <2>1
  <2> HIDE DEF b, q, S
  <2>5. Join(b) \in Seq(A) /\ q \in Seq(A)
    BY <2>4, JoinTyped DEF PartOf
  <2>6. Join(Append(b, q)) = WithPart(Join(b), q)
    BY <2>4, JoinOfLonger
  <2>7. WithPart(Join(b), q) = t \o q
    <3>1. Join(b) \o <<"/">> = Append(Join(b), "/")
      BY <2>5, AppendIsConcat
    <3>2. << >> \o q = q
      BY <2>5, ConcatEmptySeq
    <3> QED BY <3>1, <3>2 DEF WithPart
  <2>8. t \in Seq(A) /\ At(t, Len(t)) \in {"/", "end"} /\ Parts(t) = b
    <3>1. CASE Join(b) = << >>
      <4>1. t = << >> /\ At(<< >>, Len(<< >>)) = "end"
        BY <3>1 DEF At
      <4> QED BY <2>3, <3>1, <4>1
    <3>2. CASE Join(b) # << >>
      <4>1. t = Append(Join(b), "/")
        BY <3>2
      <4> HIDE DEF t
      <4>2. /\ t \in Seq(A) /\ Len(t) = Len(Join(b)) + 1 /\ t[Len(Join(b)) + 1] = "/"
        BY <2>5, <4>1, AppendProperties
      <4>3. At(t, Len(t)) = "/"
        BY <2>5, <4>2 DEF At
      <4>4. Parts(t) = WithSymbol(Parts(Join(b)), At(Join(b), Len(Join(b))), "/")
        BY <2>5, <4>1, PartsOfLonger
      <4> QED BY <2>3, <4>2, <4>3, <4>4 DEF WithSymbol
    <3> QED BY <3>1, <3>2
  <2> HIDE DEF t
  <2>9. Parts(t \o q) = Append(b, q)
    BY <2>4, <2>8, PartsOfPart
  <2> QED BY <2>2, <2>6, <2>7, <2>9
<1>5. Len(ps) \in S
  <2>1. Nat \subseteq S
    <3> HIDE DEF S
    <3> QED BY <1>3, <1>4, SetInduction
  <2> QED BY <1>1, <2>1
<1>6. Parts(J(Len(ps))) = SubSeq(ps, 1, Len(ps))
  BY <1>1, <1>5
<1>7. SubSeq(ps, 1, Len(ps)) = ps
  BY SubSeqFull
<1> QED BY <1>6, <1>7

LEMMA KeptSteps ==
  ASSUME NEW B, NEW parts \in Seq(B)
  PROVE  /\ KeptTo(parts) \in [0 .. Len(parts) -> Seq(B)]
         /\ KeptTo(parts)[0] = << >>
         /\ \A n \in 1 .. Len(parts) : KeptTo(parts)[n] = WithKept(KeptTo(parts)[n - 1], parts[n])
<1> DEFINE N == Len(parts)
           V == Seq(B)
           Solves(f) == f = [n \in 0 .. N |-> IF n = 0 THEN << >> ELSE WithKept(f[n - 1], parts[n])]
           after == CHOOSE f : Solves(f)
           step == [v_n \in V \X (1 .. N) |-> WithKept(v_n[1], parts[v_n[2]])]
<1>1. N \in Nat /\ << >> \in V
  OBVIOUS
<1>2. \A v \in V, n \in 1 .. N : WithKept(v, parts[n]) \in V
  BY AppendProperties DEF WithKept
<1> HIDE DEF V
<1>3. /\ step \in [V \X (1 .. N) -> V]
      /\ \A v \in V, n \in 1 .. N : step[<<v, n>>] = WithKept(v, parts[n])
  BY <1>2
<1> HIDE DEF step
<1>4. PICK f : Iterates(V, << >>, step, N, f)
  BY <1>1, <1>3, FiniteSequenceExists
<1>5. Solves(f)
  <2>1. ASSUME NEW n \in 0 .. N
        PROVE  f[n] = IF n = 0 THEN << >> ELSE WithKept(f[n - 1], parts[n])
    <3>1. CASE n = 0
      BY <1>4, <3>1 DEF Iterates
    <3>2. CASE n # 0
      <4>1. n \in 1 .. N /\ f[n - 1] \in V
        BY <1>1, <1>4, <3>2 DEF Iterates
      <4> QED BY <1>3, <1>4, <3>2, <4>1 DEF Iterates
    <3> QED BY <3>1, <3>2
  <2> QED BY <1>4, <2>1 DEF Iterates
<1>6. KeptTo(parts) = after
  BY DEF KeptTo
<1> HIDE DEF Solves
<1>7. Solves(after)
  BY <1>5
<1> HIDE DEF after
<1>8. DOMAIN after = 0 .. N /\ after[0] = << >>
      /\ \A n \in 1 .. N : after[n] = WithKept(after[n - 1], parts[n])
  BY <1>1, <1>7 DEF Solves
<1>9. \A n \in 0 .. N : after[n] \in V
  <2> DEFINE S == {n \in Nat : n <= N => after[n] \in V}
  <2>1. 0 \in S
    BY <1>1, <1>8
  <2>2. ASSUME NEW n \in Nat, n \in S PROVE n + 1 \in S
    <3> SUFFICES ASSUME n + 1 <= N PROVE after[n + 1] \in V
      OBVIOUS
    <3>1. after[n] \in V /\ n + 1 \in 1 .. N /\ (n + 1) - 1 = n
      BY <1>1, <2>2
    <3> QED BY <1>2, <1>8, <3>1
  <2>3. Nat \subseteq S
    <3> HIDE DEF S
    <3> QED BY <2>1, <2>2, SetInduction
  <2> QED BY <1>1, <2>3
<1>10. after \in [0 .. N -> V]
  <2>1. after = [n \in 0 .. N |-> after[n]]
    BY <1>7 DEF Solves
  <2> HIDE DEF after
  <2> QED BY <1>9, <2>1
<1> QED BY <1>6, <1>8, <1>10 DEF V

\* What is kept is some of the parts, none of them ".", the first one with them.
LEMMA KeptIsSome ==
  ASSUME NEW B, NEW parts \in Seq(B)
  PROVE  /\ Kept(parts) \in Seq(B)
         /\ \A i \in 1 .. Len(Kept(parts)) :
              Kept(parts)[i] # Dot /\ \E j \in 1 .. Len(parts) : Kept(parts)[i] = parts[j]
         /\ parts # << >> /\ parts[1] # Dot => Kept(parts) # << >> /\ Kept(parts)[1] = parts[1]
<1> DEFINE N == Len(parts)
           K(n) == KeptTo(parts)[n]
           Some(n) == /\ \A i \in 1 .. Len(K(n)) :
                           K(n)[i] # Dot /\ \E j \in 1 .. N : K(n)[i] = parts[j]
                      /\ n >= 1 /\ parts[1] # Dot => Len(K(n)) >= 1 /\ K(n)[1] = parts[1]
           S == {n \in Nat : n <= N => Some(n)}
<1>1. N \in Nat
  OBVIOUS
<1>2. \A n \in 0 .. N : K(n) \in Seq(B)
  BY KeptSteps
<1>3. 0 \in S
  <2>1. K(0) = << >>
    BY KeptSteps
  <2> HIDE DEF K
  <2> QED BY <2>1
<1>4. ASSUME NEW n \in Nat, n \in S PROVE n + 1 \in S
  <2> SUFFICES ASSUME n + 1 <= N PROVE Some(n + 1)
    OBVIOUS
  <2>1. n \in 0 .. N /\ n + 1 \in 1 .. N /\ n <= N /\ (n + 1) - 1 = n
    BY <1>1
  <2>2. Some(n) /\ K(n) \in Seq(B)
    BY <1>2, <1>4, <2>1
  <2>3. K(n + 1) = WithKept(K(n), parts[n + 1])
    <3>1. K(n + 1) = WithKept(K((n + 1) - 1), parts[n + 1])
      BY <2>1, KeptSteps
    <3> QED BY <2>1, <3>1
  <2>4. parts[n + 1] \in B
    BY <2>1
  <2> HIDE DEF K, N
  <2>5. CASE parts[n + 1] = Dot
    <3>1. K(n + 1) = K(n)
      BY <2>3, <2>5 DEF WithKept
    <3>2. parts[1] # Dot => n >= 1
      BY <2>5
    <3> QED BY <2>2, <3>1, <3>2
  <2>6. CASE parts[n + 1] # Dot
    <3> DEFINE L == Len(K(n))
    <3>1. /\ K(n + 1) = Append(K(n), parts[n + 1]) /\ L \in Nat
          /\ Len(K(n + 1)) = L + 1 /\ K(n + 1)[L + 1] = parts[n + 1]
          /\ \A i \in 1 .. L : K(n + 1)[i] = K(n)[i]
      BY <2>2, <2>3, <2>4, <2>6, AppendProperties DEF WithKept
    <3>2. \A i \in 1 .. L + 1 : i \in 1 .. L \/ i = L + 1
      BY <3>1
    <3>3. ASSUME NEW i \in 1 .. Len(K(n + 1))
          PROVE  K(n + 1)[i] # Dot /\ \E j \in 1 .. N : K(n + 1)[i] = parts[j]
      BY <2>1, <2>2, <2>6, <3>1, <3>2
    <3>4. ASSUME parts[1] # Dot PROVE Len(K(n + 1)) >= 1 /\ K(n + 1)[1] = parts[1]
      <4>1. CASE n = 0
        <5>1. K(0) = << >>
          BY KeptSteps DEF K
        <5>2. L = 0
          BY <4>1, <5>1
        <5> HIDE DEF L
        <5> QED BY <3>1, <4>1, <5>2
      <4>2. CASE n # 0
        <5>1. L >= 1 /\ K(n)[1] = parts[1] /\ 1 \in 1 .. L
          BY <2>2, <3>1, <3>4, <4>2
        <5> HIDE DEF L
        <5> QED BY <3>1, <5>1
      <4> QED BY <4>1, <4>2
    <3> QED BY <3>3, <3>4
  <2> QED BY <2>5, <2>6
<1>5. Nat \subseteq S
  <2> HIDE DEF S
  <2> QED BY <1>3, <1>4, SetInduction
<1>6. Some(N) /\ K(N) \in Seq(B)
  BY <1>1, <1>2, <1>5
<1>7. parts # << >> => N >= 1
  BY <1>1
<1> HIDE DEF N
<1>8. Kept(parts) = K(N)
  BY DEF Kept, N
<1> HIDE DEF K
<1>9. Len(K(N)) >= 1 => K(N) # << >>
  OBVIOUS
<1> QED BY <1>6, <1>7, <1>8, <1>9 DEF N

LEMMA KeptWhole ==
  ASSUME NEW B, NEW parts \in Seq(B), \A i \in 1 .. Len(parts) : parts[i] # Dot
  PROVE  Kept(parts) = parts
<1> DEFINE N == Len(parts)
           S == {n \in Nat : n <= N => KeptTo(parts)[n] = SubSeq(parts, 1, n)}
<1>1. N \in Nat
  OBVIOUS
<1>2. 0 \in S
  <2>1. SubSeq(parts, 1, 0) = << >>
    BY SubSeqEmpty
  <2> QED BY <2>1, KeptSteps
<1>3. ASSUME NEW n \in Nat, n \in S PROVE n + 1 \in S
  <2> SUFFICES ASSUME n + 1 <= N PROVE KeptTo(parts)[n + 1] = SubSeq(parts, 1, n + 1)
    OBVIOUS
  <2>1. n \in 0 .. N - 1 /\ n + 1 \in 1 .. N /\ n <= N /\ (n + 1) - 1 = n
    BY <1>1
  <2>2. KeptTo(parts)[n] = SubSeq(parts, 1, n)
    BY <1>3, <2>1
  <2>3. KeptTo(parts)[n + 1] =
          WithKept(KeptTo(parts)[(n + 1) - 1], parts[n + 1])
    BY <2>1, KeptSteps
  <2>4. SubSeq(parts, 1, n + 1) = Append(SubSeq(parts, 1, n), parts[n + 1])
    BY <2>1, OneLonger
  <2> QED BY <2>1, <2>2, <2>3, <2>4 DEF WithKept
<1>4. Nat \subseteq S
  <2> HIDE DEF S
  <2> QED BY <1>2, <1>3, SetInduction
<1>5. KeptTo(parts)[N] = SubSeq(parts, 1, N)
  BY <1>1, <1>4
<1>6. SubSeq(parts, 1, N) = parts
  BY SubSeqFull
<1> QED BY <1>5, <1>6 DEF Kept

\* The first part is what the path begins with.
FirstBegins(t, parts, n) ==
  /\ Len(parts) >= 1 /\ Len(parts[1]) <= n
  /\ \A i \in 1 .. Len(parts[1]) : parts[1][i] = t[i]
  /\ Len(parts) = 1 /\ t[n] # "/" => Len(parts[1]) = n

LEMMA FirstPart ==
  ASSUME NEW A, "end" \notin A, NEW t \in Seq(A), t # << >>, t[1] # "/"
  PROVE  /\ Parts(t) # << >> /\ Len(Parts(t)[1]) <= Len(t)
         /\ \A i \in 1 .. Len(Parts(t)[1]) : Parts(t)[1][i] = t[i]
<1> DEFINE N == Len(t)
           P == PartsTo(t)
           S == {n \in Nat : n + 1 <= N => FirstBegins(t, P[n + 1], n + 1)}
<1>1. N \in Nat /\ N >= 1 /\ \A i \in 1 .. N : t[i] \in A /\ t[i] # "end"
  OBVIOUS
<1>2. \A n \in 0 .. N : P[n] \in Seq(PartOf(A))
  BY PartSteps
<1>3. \A n \in 1 .. N : P[n] = WithSymbol(P[n - 1], At(t, n - 1), t[n])
  BY PartSteps
<1>4. 0 \in S
  <2>1. 1 \in 1 .. N /\ 1 - 1 = 0 /\ 0 + 1 = 1 /\ At(t, 0) = "end" /\ P[0] = << >>
    BY <1>1, PartSteps DEF At
  <2>2. P[1] = Append(<< >>, <<t[1]>>)
    BY <1>3, <2>1 DEF WithSymbol
  <2>3. P[1] = << <<t[1]>> >>
    BY <2>2
  <2> HIDE DEF P
  <2>4. Len(P[1]) = 1 /\ Len(P[1][1]) = 1 /\ P[1][1][1] = t[1]
    BY <2>3
  <2>5. FirstBegins(t, P[1], 1)
    BY <2>4 DEF FirstBegins
  <2> QED BY <2>1, <2>5
<1>5. ASSUME NEW n \in Nat, n \in S PROVE n + 1 \in S
  <2> DEFINE m == n + 1
             c == t[m + 1]
  <2> SUFFICES ASSUME m + 1 <= N PROVE FirstBegins(t, P[m + 1], m + 1)
    OBVIOUS
  <2>1. m \in 1 .. N /\ m + 1 \in 1 .. N /\ (m + 1) - 1 = m /\ m <= N /\ m \in Nat /\ m \in 0 .. N
    BY <1>1
  <2>2. FirstBegins(t, P[m], m) /\ P[m] \in Seq(PartOf(A))
    BY <1>2, <1>5, <2>1
  <2>3. P[m + 1] = WithSymbol(P[m], At(t, m), c)
    BY <1>3, <2>1
  <2>4. c \in A /\ At(t, m) = t[m] /\ t[m] # "end"
    BY <1>1, <2>1 DEF At
  <2>5. Len(P[m]) \in Nat /\ P[m][1] \in Seq(A)
    <3>1. 1 \in 1 .. Len(P[m])
      BY <2>2 DEF FirstBegins
    <3>2. P[m][1] \in PartOf(A)
      BY <2>2, <3>1, ElementOfSeq
    <3> QED BY <2>2, <3>2 DEF PartOf
  <2> HIDE DEF P, N, m, S
  <2>6. CASE c = "/"
    <3>1. P[m + 1] = P[m]
      BY <2>3, <2>6 DEF WithSymbol
    <3>2. t[m + 1] = "/"
      BY <2>6
    <3> HIDE DEF c
    <3> QED BY <2>1, <2>2, <2>5, <3>1, <3>2 DEF FirstBegins
  <2>7. CASE c # "/" /\ t[m] = "/"
    <3>1. P[m + 1] = Append(P[m], <<c>>)
      BY <2>3, <2>4, <2>7 DEF WithSymbol
    <3>2. <<c>> \in PartOf(A)
      BY <2>4, <2>7 DEF PartOf
    <3> HIDE DEF c
    <3>3. Len(P[m + 1]) = Len(P[m]) + 1 /\ P[m + 1][1] = P[m][1]
      <4>1. 1 \in 1 .. Len(P[m])
        BY <2>2, <2>5 DEF FirstBegins
      <4> QED BY <2>2, <3>1, <3>2, <4>1, AppendProperties
    <3> QED BY <2>1, <2>2, <2>5, <3>3 DEF FirstBegins
  <2>8. CASE c # "/" /\ t[m] # "/"
    <3>1. P[m + 1] = Grown(P[m], c)
      BY <2>3, <2>4, <2>8 DEF WithSymbol, Grown
    <3>2. /\ Len(P[m + 1]) = Len(P[m]) /\ P[m] # << >>
          /\ P[m + 1][Len(P[m])] = Append(P[m][Len(P[m])], c)
          /\ \A i \in 1 .. Len(P[m]) - 1 : P[m + 1][i] = P[m][i]
      <4>1. P[m] # << >>
        BY <2>2 DEF FirstBegins
      <4> DEFINE ps == P[m]
                 gs == P[m + 1]
      <4>2. ps \in Seq(PartOf(A)) /\ gs = Grown(ps, c) /\ ps # << >>
        BY <2>2, <3>1, <4>1
      <4> HIDE DEF ps, gs, c
      <4>3. /\ Len(gs) = Len(ps) /\ gs[Len(ps)] = Append(ps[Len(ps)], c)
            /\ \A i \in 1 .. Len(ps) - 1 : gs[i] = ps[i]
        BY <2>4, <2>8, <4>2, LastPartGrows
      <4> QED BY <4>2, <4>3 DEF ps, gs
    <3>3. CASE Len(P[m]) = 1
      <4> DEFINE q == P[m][1]
      <4>1. Len(q) = m /\ P[m + 1][1] = Append(q, c)
        BY <2>2, <2>8, <3>2, <3>3 DEF FirstBegins
      <4>2. q \in Seq(A)
        BY <2>5
      <4>3. \A i \in 1 .. m : q[i] = t[i]
        BY <2>2, <4>1 DEF FirstBegins
      <4> HIDE DEF q
      <4>4. /\ Len(P[m + 1][1]) = m + 1 /\ P[m + 1][1][m + 1] = c
            /\ \A i \in 1 .. m : P[m + 1][1][i] = q[i]
        BY <2>4, <4>1, <4>2, AppendProperties
      <4>5. \A i \in 1 .. m + 1 : i \in 1 .. m \/ i = m + 1
        BY <2>1
      <4> QED BY <2>1, <3>2, <3>3, <4>3, <4>4, <4>5 DEF FirstBegins
    <3>4. CASE Len(P[m]) # 1
      <4>1. 1 \in 1 .. Len(P[m]) - 1
        <5> DEFINE l == Len(P[m])
        <5>1. l \in Nat /\ l >= 1 /\ l # 1
          BY <2>2, <2>5, <3>4 DEF FirstBegins
        <5> HIDE DEF l
        <5>2. 1 \in 1 .. l - 1
          BY <5>1
        <5> QED BY <5>2 DEF l
      <4>2. P[m + 1][1] = P[m][1]
        BY <3>2, <4>1
      <4> HIDE DEF c
      <4> QED BY <2>1, <2>2, <2>5, <3>2, <3>4, <4>2 DEF FirstBegins
    <3> QED BY <3>3, <3>4
  <2> QED BY <2>4, <2>6, <2>7, <2>8
<1>6. N - 1 \in S
  <2>1. Nat \subseteq S
    <3> HIDE DEF S
    <3> QED BY <1>4, <1>5, SetInduction
  <2>2. N - 1 \in Nat
    BY <1>1
  <2> HIDE DEF S
  <2> QED BY <2>1, <2>2
<1>7. (N - 1) + 1 = N
  BY <1>1
<1>8. FirstBegins(t, P[N], N)
  BY <1>6, <1>7
<1>9. Parts(t) = P[N]
  BY DEF Parts
<1> HIDE DEF P
<1> QED BY <1>8, <1>9 DEF FirstBegins

\* A part more, symbol by symbol.
OneMore(A, long, short, q, i) ==
  /\ long \in Seq(A) /\ short \in Seq(A) /\ long # << >>
  /\ i = 1 => long = q
  /\ i > 1 => /\ Len(long) = Len(short) + 1 + Len(q) /\ long[Len(short) + 1] = "/"
              /\ \A k \in 1 .. Len(short) : long[k] = short[k]
              /\ \A k \in 1 .. Len(q) : long[Len(short) + 1 + k] = q[k]
LEMMA JoinOneMore ==
  ASSUME NEW A, "/" \in A, NEW ps \in Seq(PartOf(A)), NEW i \in 1 .. Len(ps)
  PROVE  OneMore(A, JoinTo(ps)[i], JoinTo(ps)[i - 1], ps[i], i)
<1> DEFINE J == JoinTo(ps)
           N == Len(ps)
<1>1. N \in Nat /\ \A k \in 0 .. N : J[k] \in Seq(A)
  BY JoinSteps
<1>2. J[0] = << >> /\ \A k \in 1 .. N : J[k] = WithPart(J[k - 1], ps[k])
  BY JoinSteps
<1>3. \A k \in 1 .. N : ps[k] \in Seq(A) /\ ps[k] # << >>
  BY DEF PartOf
<1> HIDE DEF J
<1>4. ASSUME NEW k \in 1 .. N PROVE J[k] # << >>
  <2>1. k - 1 \in 0 .. N
    BY <1>1
  <2>2. CASE J[k - 1] = << >>
    BY <1>2, <1>3, <2>2 DEF WithPart
  <2>3. CASE J[k - 1] # << >>
    <3>1. <<"/">> \in Seq(A) /\ J[k - 1] \o <<"/">> \in Seq(A)
      BY <1>1, <2>1
    <3>2. (J[k - 1] \o <<"/">>) \o ps[k] # << >>
      BY <1>3, <3>1, ConcatEqualIffEmpty
    <3> QED BY <1>2, <2>3, <3>2 DEF WithPart
  <2> QED BY <2>2, <2>3
<1>5. i - 1 \in 0 .. N /\ i \in 0 .. N /\ J[i] = WithPart(J[i - 1], ps[i]) /\ J[i] # << >>
  BY <1>1, <1>2, <1>4
<1>6. CASE i = 1
  BY <1>1, <1>2, <1>5, <1>6 DEF WithPart, J, OneMore
<1>7. CASE i # 1
  <2> DEFINE a == J[i - 1]
             q == ps[i]
             u == Append(a, "/")
  <2>1. i - 1 \in 1 .. N
    BY <1>1, <1>7
  <2>2. a # << >> /\ a \in Seq(A) /\ q \in Seq(A)
    BY <1>1, <1>3, <1>4, <2>1, <1>5
  <2>3. J[i] = u \o q
    <3>1. a \o <<"/">> = u
      BY <2>2, AppendIsConcat
    <3> QED BY <1>5, <2>2, <3>1 DEF WithPart
  <2> HIDE DEF a, q
  <2>4. /\ u \in Seq(A) /\ Len(u) = Len(a) + 1 /\ u[Len(a) + 1] = "/"
        /\ \A k \in 1 .. Len(a) : u[k] = a[k]
    BY <2>2, AppendProperties
  <2> HIDE DEF u
  <2>5. /\ Len(J[i]) = Len(u) + Len(q)
        /\ \A k \in 1 .. Len(u) + Len(q) : J[i][k] = IF k <= Len(u) THEN u[k] ELSE q[k - Len(u)]
    <3>1. /\ Len(u \o q) = Len(u) + Len(q)
          /\ \A k \in 1 .. Len(u) + Len(q) : (u \o q)[k] = IF k <= Len(u) THEN u[k] ELSE q[k - Len(u)]
      BY <2>2, <2>4, ConcatProperties
    <3> QED BY <2>3, <3>1
  <2>6. Len(a) \in Nat /\ Len(q) \in Nat
    BY <2>2
  <2>7. Len(J[i]) = Len(a) + 1 + Len(q) /\ J[i][Len(a) + 1] = "/"
    BY <2>4, <2>5, <2>6
  <2>8. \A k \in 1 .. Len(a) : J[i][k] = a[k]
    BY <2>4, <2>5, <2>6
  <2>9. ASSUME NEW k \in 1 .. Len(q) PROVE J[i][Len(a) + 1 + k] = q[k]
    <3>1. /\ Len(a) + 1 + k \in 1 .. Len(u) + Len(q) /\ ~(Len(a) + 1 + k <= Len(u))
          /\ (Len(a) + 1 + k) - Len(u) = k
      BY <2>4, <2>6
    <3> QED BY <2>5, <3>1
  <2> QED BY <1>1, <1>5, <1>7, <2>7, <2>8, <2>9 DEF a, q, J, OneMore
<1> QED BY <1>6, <1>7

Extends(long, short) ==
  /\ Len(short) <= Len(long) /\ \A k \in 1 .. Len(short) : long[k] = short[k]
ExtendsBy(long, short) ==
  Extends(long, short) /\ Len(short) < Len(long) /\ long[Len(short) + 1] = "/"

LEMMA ExtendsByIsTransitive ==
  ASSUME NEW A, NEW a \in Seq(A), NEW b \in Seq(A), NEW c \in Seq(A),
         ExtendsBy(b, a), ExtendsBy(c, b)
  PROVE  ExtendsBy(c, a)
<1>1. Len(a) \in Nat /\ Len(b) \in Nat /\ Len(c) \in Nat
  OBVIOUS
<1>2. Len(a) < Len(b) /\ Len(b) < Len(c)
  BY DEF ExtendsBy
<1>3. \A k \in 1 .. Len(a) : k \in 1 .. Len(b) /\ b[k] = a[k]
  BY <1>1, <1>2 DEF ExtendsBy, Extends
<1>4. \A k \in 1 .. Len(b) : c[k] = b[k]
  BY DEF ExtendsBy, Extends
<1>5. Len(a) + 1 \in 1 .. Len(b) /\ b[Len(a) + 1] = "/"
  BY <1>1, <1>2 DEF ExtendsBy
<1> QED BY <1>1, <1>2, <1>3, <1>4, <1>5 DEF ExtendsBy, Extends

\* One more part: the path so far, and the separator.
LEMMA JoinExtendsByOne ==
  ASSUME NEW A, "/" \in A, NEW ps \in Seq(PartOf(A)), NEW i \in 1 .. Len(ps), i > 1
  PROVE  ExtendsBy(JoinTo(ps)[i], JoinTo(ps)[i - 1])
<1> DEFINE long == JoinTo(ps)[i]
           short == JoinTo(ps)[i - 1]
           q == ps[i]
<1>1. OneMore(A, long, short, q, i)
  BY JoinOneMore
<1>2. q \in Seq(A)
  BY DEF PartOf
<1> HIDE DEF long, short, q
<1>3. Len(short) \in Nat /\ Len(q) \in Nat
  BY <1>1, <1>2 DEF OneMore
<1>4. ExtendsBy(long, short)
  BY <1>1, <1>3 DEF ExtendsBy, Extends, OneMore
<1> QED BY <1>4 DEF long, short

LEMMA JoinExtends ==
  ASSUME NEW A, "/" \in A, NEW ps \in Seq(PartOf(A)), NEW i \in 1 .. Len(ps), NEW n \in 1 .. Len(ps),
         i < n
  PROVE  ExtendsBy(JoinTo(ps)[n], JoinTo(ps)[i])
<1> DEFINE J == JoinTo(ps)
           S == {d \in Nat : d > i /\ d <= Len(ps) => ExtendsBy(J[d], J[i])}
<1>1. Len(ps) \in Nat /\ \A m \in 1 .. Len(ps) : J[m] \in Seq(A)
  <2>1. J \in [0 .. Len(ps) -> Seq(A)] /\ Len(ps) \in Nat
    BY JoinSteps
  <2> HIDE DEF J
  <2> QED BY <2>1
<1>2. ASSUME NEW m \in 1 .. Len(ps), m > 1 PROVE ExtendsBy(J[m], J[m - 1])
  BY <1>2, JoinExtendsByOne
<1> HIDE DEF J
<1>3. 0 \in S
  BY <1>1
<1>4. ASSUME NEW d \in Nat, d \in S PROVE d + 1 \in S
  <2> DEFINE e == d + 1
  <2> SUFFICES ASSUME e > i, e <= Len(ps) PROVE ExtendsBy(J[e], J[i])
    OBVIOUS
  <2>1. e \in 1 .. Len(ps) /\ e > 1 /\ e - 1 = d
    BY <1>1
  <2>2. ExtendsBy(J[e], J[d])
    BY <1>2, <2>1
  <2>3. CASE d = i
    BY <2>2, <2>3
  <2>4. CASE d # i
    <3>1. d \in 1 .. Len(ps) /\ d > i /\ d <= Len(ps)
      BY <1>1, <2>4
    <3>2. ExtendsBy(J[d], J[i])
      BY <1>4, <3>1
    <3>3. J[e] \in Seq(A) /\ J[d] \in Seq(A) /\ J[i] \in Seq(A)
      BY <1>1, <2>1, <3>1
    <3> HIDE DEF e
    <3> QED BY <2>2, <3>2, <3>3, ExtendsByIsTransitive
  <2> QED BY <2>3, <2>4
<1>5. Nat \subseteq S
  <2> HIDE DEF S
  <2> QED BY <1>3, <1>4, SetInduction
<1>6. n \in Nat /\ n > i /\ n <= Len(ps)
  BY <1>1
<1>7. ExtendsBy(J[n], J[i])
  BY <1>5, <1>6
<1> QED BY <1>7 DEF J

\* A path begins with its first part.
LEMMA JoinBegins ==
  ASSUME NEW A, "/" \in A, NEW ps \in Seq(PartOf(A)), ps # << >>
  PROVE  /\ Extends(Join(ps), ps[1])
         /\ Len(ps[1]) < Len(Join(ps)) => Join(ps)[Len(ps[1]) + 1] = "/"
<1> DEFINE N == Len(ps)
           q == ps[1]
<1>1. N \in Nat /\ N >= 1 /\ 1 \in 1 .. N /\ N \in 1 .. N
  <2>1. N \in Nat /\ N # 0
    OBVIOUS
  <2> HIDE DEF N
  <2> QED BY <2>1
<1>2. OneMore(A, JoinTo(ps)[1], JoinTo(ps)[1 - 1], q, 1)
  BY <1>1, JoinOneMore
<1>3. JoinTo(ps)[1] = q /\ q \in Seq(A)
  BY <1>2 DEF OneMore
<1>4. Join(ps) = JoinTo(ps)[N]
  BY DEF Join
<1>5. CASE N = 1
  <2>1. Join(ps) = q
    BY <1>3, <1>4, <1>5
  <2>2. Len(q) \in Nat
    BY <1>3
  <2> HIDE DEF q
  <2>3. Extends(q, q) /\ ~(Len(q) < Len(q))
    BY <2>2 DEF Extends
  <2> QED BY <2>1, <2>3 DEF q
<1>6. CASE N # 1
  <2>1. 1 < N
    <3> HIDE DEF N
    <3> QED BY <1>1, <1>6
  <2>2. ExtendsBy(JoinTo(ps)[N], JoinTo(ps)[1])
    BY <1>1, <2>1, JoinExtends
  <2> QED BY <1>3, <1>4, <2>2 DEF ExtendsBy
<1> QED BY <1>5, <1>6

Letters(t) == ({t[i] : i \in DOMAIN t} \ {"\\"}) \cup {"/"}

LEMMA FlatText ==
  ASSUME NEW t \in Seq(Symbol)
  PROVE  /\ Flattened(t) \in Seq(Letters(t)) /\ Len(Flattened(t)) = Len(t)
         /\ "/" \in Letters(t) /\ "\\" \notin Letters(t) /\ "end" \notin Letters(t)
         /\ ":" \in Letters(t) => Contains(t, ":")
         /\ \A i \in 1 .. Len(t) : Flattened(t)[i] = ":" => t[i] = ":"
         /\ \A i \in 1 .. Len(t) : Flattened(t)[i] = "/" => t[i] \in {"/", "\\"}
<1>1. Len(t) \in Nat /\ DOMAIN t = 1 .. Len(t) /\ \A i \in 1 .. Len(t) : t[i] # "end"
  BY SymbolAssumption
<1>2. Flattened(t) = [i \in 1 .. Len(t) |-> IF t[i] = "\\" THEN "/" ELSE t[i]]
  BY <1>1 DEF Flattened
<1>3. \A i \in 1 .. Len(t) : (IF t[i] = "\\" THEN "/" ELSE t[i]) \in Letters(t)
  BY <1>1 DEF Letters
<1>4. Flattened(t) \in Seq(Letters(t)) /\ Len(Flattened(t)) = Len(t)
  BY <1>1, <1>2, <1>3, IsASeq
<1>5. "/" \in Letters(t) /\ "\\" \notin Letters(t) /\ "end" \notin Letters(t)
  BY <1>1 DEF Letters
<1>6. ":" \in Letters(t) => Contains(t, ":")
  BY <1>1 DEF Letters, Contains
<1>7. \A i \in 1 .. Len(t) : Flattened(t)[i] = IF t[i] = "\\" THEN "/" ELSE t[i]
  BY <1>2
<1> QED BY <1>4, <1>5, <1>6, <1>7

LEMMA FlatStays ==
  ASSUME NEW A, "\\" \notin A, NEW t \in Seq(A)
  PROVE  Flattened(t) = t
<1>1. Len(t) \in Nat /\ DOMAIN t = 1 .. Len(t) /\ \A i \in 1 .. Len(t) : t[i] # "\\"
  OBVIOUS
<1>2. Flattened(t) = [i \in 1 .. Len(t) |-> t[i]]
  BY <1>1 DEF Flattened
<1>3. t = [i \in 1 .. Len(t) |-> t[i]]
  BY <1>1
<1> QED BY <1>2, <1>3

\* What is let through is below the root, and spelled the way it is looked up.
LEMMA NormalizedIsInside ==
  ASSUME NEW t \in Seq(Symbol), Normalize(t) # << >>, ~HiddenDrive(t)
  PROVE  Inside(Normalize(t)) /\ Normalize(Normalize(t)) = Normalize(t)
<1> DEFINE A == Letters(t)
           flat == Flattened(t)
           parts == Parts(flat)
           kept == Kept(parts)
           path == Normalize(t)
<1>1. /\ flat \in Seq(A) /\ Len(flat) = Len(t) /\ "/" \in A /\ "\\" \notin A /\ "end" \notin A
      /\ ":" \in A => Contains(t, ":")
      /\ \A i \in 1 .. Len(t) : flat[i] = ":" => t[i] = ":"
      /\ \A i \in 1 .. Len(t) : flat[i] = "/" => t[i] \in {"/", "\\"}
  BY FlatText
<1>2. t # << >> /\ ~Absolute(t) /\ ~Contains(parts, DotDot) /\ path = Join(kept)
  BY DEF Normalize
<1>3. Len(t) \in Nat /\ Len(t) >= 1 /\ DOMAIN t = 1 .. Len(t) /\ flat # << >>
  <2>1. Len(t) \in Nat /\ Len(t) # 0 /\ DOMAIN t = 1 .. Len(t)
    BY <1>2
  <2>2. Len(flat) # 0
    BY <1>1, <2>1
  <2> QED BY <1>1, <2>1, <2>2
<1> HIDE DEF A, flat
<1>4. parts \in Seq(PartOf(A))
  BY <1>1, PartsTyped
<1>5. /\ kept \in Seq(PartOf(A))
      /\ \A i \in 1 .. Len(kept) : kept[i] # Dot /\ \E j \in 1 .. Len(parts) : kept[i] = parts[j]
      /\ parts # << >> /\ parts[1] # Dot => kept # << >> /\ kept[1] = parts[1]
  BY <1>4, KeptIsSome
<1>6. \A i \in 1 .. Len(kept) : kept[i] # DotDot
  BY <1>2, <1>5 DEF Contains
<1>7. flat[1] # "/"
  BY <1>1, <1>2, <1>3 DEF Absolute, At
<1>8. /\ parts # << >> /\ Len(parts[1]) <= Len(flat)
      /\ \A i \in 1 .. Len(parts[1]) : parts[1][i] = flat[i]
  BY <1>1, <1>3, <1>7, FirstPart
<1>9. (At(parts, 1) = Dot /\ Contains(t, ":")) = HiddenDrive(t)
  BY DEF HiddenDrive, Dot, parts, flat
<1>10. parts[1] = Dot => ":" \notin A
  <2>1. DOMAIN parts = 1 .. Len(parts) /\ Len(parts) \in Nat /\ Len(parts) # 0
    BY <1>4, <1>8
  <2>2. 1 \in DOMAIN parts
    <3> HIDE DEF parts
    <3> QED BY <2>1
  <2> QED BY <1>1, <1>9, <2>2 DEF At
<1> HIDE DEF parts
<1>11. path \in Seq(A) /\ kept # << >> /\ Parts(path) = kept
  BY <1>1, <1>2, <1>5, JoinTyped, PartsOfJoin
<1>12. /\ Extends(path, kept[1])
       /\ Len(kept[1]) < Len(path) => path[Len(kept[1]) + 1] = "/"
  BY <1>1, <1>2, <1>5, <1>11, JoinBegins
<1>13. kept[1] \in Seq(A) /\ kept[1] # << >> /\ \A i \in 1 .. Len(kept[1]) : kept[1][i] # "/"
  <2>1. Len(kept) \in Nat /\ Len(kept) # 0
    BY <1>5, <1>11
  <2>2. 1 \in 1 .. Len(kept)
    <3> HIDE DEF kept
    <3> QED BY <2>1
  <2>3. kept[1] \in PartOf(A)
    BY <1>5, <2>2, ElementOfSeq
  <2> QED BY <2>3 DEF PartOf
<1> DEFINE q == kept[1]
<1> HIDE DEF kept, path
<1>14. ~Absolute(path)
  <2>1. Len(q) \in Nat /\ Len(q) >= 1 /\ Len(path) \in Nat /\ DOMAIN path = 1 .. Len(path) /\ Len(q) <= Len(path)
    <3>1. q \in Seq(A) /\ q # << >> /\ path \in Seq(A) /\ Len(q) <= Len(path)
      BY <1>11, <1>12, <1>13 DEF Extends
    <3> HIDE DEF q
    <3> QED BY <3>1
  <2>2. path[1] = q[1] /\ q[1] # "/" /\ path[1] \in A
    BY <1>11, <1>12, <1>13, <2>1 DEF Extends
  <2>3. At(path, 1) \notin {"/", "\\"}
    BY <1>1, <2>1, <2>2 DEF At
  <2>4. ASSUME At(path, 2) = ":" PROVE FALSE
    <3>1. 2 \in 1 .. Len(path) /\ path[2] = ":" /\ ":" \in A
      BY <1>11, <2>1, <2>4 DEF At
    <3>2. parts[1] # Dot /\ q = parts[1]
      BY <1>5, <1>8, <1>10, <3>1
    <3>3. Len(q) >= 2
      <4>1. CASE Len(q) = 1
        <5>1. path[1 + 1] = "/"
          BY <1>12, <2>1, <3>1, <4>1
        <5> QED BY <3>1, <5>1
      <4> HIDE DEF q
      <4> QED BY <2>1, <4>1
    <3>4. 2 \in 1 .. Len(q) /\ 2 \in 1 .. Len(t)
      BY <1>1, <1>3, <1>8, <2>1, <3>2, <3>3
    <3>5. path[2] = q[2] /\ q[2] = flat[2]
      BY <1>8, <1>12, <3>2, <3>4 DEF Extends
    <3>6. t[2] = ":"
      BY <1>1, <3>1, <3>4, <3>5
    <3> QED BY <1>2, <1>3, <3>4, <3>6 DEF Absolute, At
  <2> QED BY <2>3, <2>4 DEF Absolute
<1>15. ~Contains(path, "\\")
  BY <1>1, <1>11 DEF Contains
<1>16. path = Join(Parts(path))
  BY <1>2, <1>11 DEF kept
<1>17. \A i \in DOMAIN Parts(path) : Parts(path)[i] \notin {<<".">>, <<".", ".">>}
  BY <1>5, <1>6, <1>11 DEF Dot, DotDot
<1>18. Inside(path)
  BY <1>14, <1>15, <1>16, <1>17 DEF Inside
<1>19. Flattened(path) = path
  BY <1>1, <1>11, FlatStays
<1>20. Kept(Parts(path)) = Parts(path)
  BY <1>5, <1>11, KeptWhole
<1>21. path # << >> /\ ~Contains(Parts(path), DotDot)
  BY <1>6, <1>11 DEF Contains, path
<1>22. Normalize(path) = path
  BY <1>14, <1>16, <1>19, <1>20, <1>21 DEF Normalize
<1> QED BY <1>18, <1>22 DEF path

\* The tables of the plan are keyed by what normalize_relative answers: it is a
\* place below the root, and no second spelling of it is let through.
THEOREM OneSpelling == Spec => []NormalizedIsCanonical
<1>1. Answers => NormalizedIsCanonical
  <2> SUFFICES ASSUME Answers, Answered("normalize"), Result # << >>, ~HiddenDrive(text)
               PROVE  Inside(Result) /\ Normalize(Result) = Result
    BY DEF NormalizedIsCanonical
  <2>1. text \in Seq(Symbol) /\ Result = Normalize(text)
    BY RawPathsAssumption DEF Answers, Answered, Result
  <2> QED BY <2>1, NormalizedIsInside
<1> QED BY <1>1, AnswersHold, PTL

\* A tidy path is its parts and a separator between them.
LEMMA WithPartLonger ==
  ASSUME NEW A, "/" \in A, NEW x \in Seq(A), NEW b \in Seq(A), NEW c \in A
  PROVE  WithPart(x, Append(b, c)) = Append(WithPart(x, b), c)
<1>1. CASE x = << >>
  BY <1>1 DEF WithPart
<1>2. CASE x # << >>
  <2>1. x \o <<"/">> \in Seq(A)
    OBVIOUS
  <2>2. (x \o <<"/">>) \o Append(b, c) = Append((x \o <<"/">>) \o b, c)
    BY <2>1, ConcatOneMore
  <2> QED BY <1>2, <2>2 DEF WithPart
<1> QED BY <1>1, <1>2

LEMMA JoinGrown ==
  ASSUME NEW A, "/" \in A, NEW ps \in Seq(PartOf(A)), ps # << >>, NEW c \in A, c # "/"
  PROVE  Join(Grown(ps, c)) = Append(Join(ps), c)
<1> DEFINE k == Len(ps)
           front == SubSeq(ps, 1, k - 1)
           b == ps[k]
<1>1. k \in Nat /\ k # 0
  OBVIOUS
<1>2. k - 1 \in 0 .. k - 1 /\ k - 1 \in 0 .. k /\ (k - 1) + 1 = k /\ k \in 1 .. k
  <2> HIDE DEF k
  <2> QED BY <1>1
<1>3. front \in Seq(PartOf(A)) /\ b \in PartOf(A)
  BY <1>2, BeginningOf, ElementOfSeq
<1>4. SubSeq(ps, 1, (k - 1) + 1) = Append(front, ps[(k - 1) + 1])
  BY <1>2, OneLonger
<1>5. SubSeq(ps, 1, k) = ps
  BY SubSeqFull
<1>6. ps = Append(front, b)
  BY <1>2, <1>4, <1>5
<1> HIDE DEF front, b
<1>7. Append(b, c) \in PartOf(A) /\ Grown(ps, c) = Append(front, Append(b, c))
  BY <1>3, <1>6, GrownLast
<1>8. Join(Grown(ps, c)) = WithPart(Join(front), Append(b, c)) /\ Join(ps) = WithPart(Join(front), b)
  BY <1>3, <1>6, <1>7, JoinOfLonger
<1>9. Join(front) \in Seq(A) /\ b \in Seq(A)
  BY <1>3, JoinTyped DEF PartOf
<1> QED BY <1>8, <1>9, WithPartLonger

Whole(t, n) ==
  Join(Parts(SubSeq(t, 1, n))) = IF t[n] = "/" THEN SubSeq(t, 1, n - 1) ELSE SubSeq(t, 1, n)

LEMMA WholeGoesOn ==
  ASSUME NEW A, "/" \in A, "end" \notin A, NEW t \in Seq(A), Tidy(t),
         NEW m \in 1 .. Len(t), m + 1 <= Len(t), Whole(t, m)
  PROVE  Whole(t, m + 1)
<1> DEFINE c == t[m + 1]
           u == SubSeq(t, 1, m)
           ps == Parts(u)
<1>1. Len(t) \in Nat /\ m + 1 \in 1 .. Len(t) /\ m \in 0 .. Len(t) - 1 /\ m \in 0 .. Len(t) /\ (m + 1) - 1 = m
      /\ m - 1 \in 0 .. Len(t) - 1 /\ m - 1 \in 0 .. Len(t) /\ (m - 1) + 1 = m /\ m \in Nat /\ m >= 1
      /\ m \in 1 .. Len(t) - 1
  OBVIOUS
<1>2. c \in A /\ t[m] \in A /\ t[m] # "end"
  BY <1>1
<1>3. t[1] # "/" /\ (t[m] # "/" \/ c # "/")
  BY <1>1 DEF Tidy
<1>4. u \in Seq(A) /\ Len(u) = m /\ u[m] = t[m]
  BY <1>1, BeginningOf
<1>5. SubSeq(t, 1, m + 1) = Append(u, c)
  BY <1>1, OneLonger
<1>6. At(u, Len(u)) = t[m] /\ u # << >>
  BY <1>1, <1>4 DEF At
<1>7. ps \in Seq(PartOf(A))
  BY <1>4, PartsTyped
<1> HIDE DEF c, u
<1>8. Parts(Append(u, c)) = WithSymbol(ps, t[m], c)
  BY <1>2, <1>4, <1>6, PartsOfLonger
<1>9. Join(ps) = IF t[m] = "/" THEN SubSeq(t, 1, m - 1) ELSE u
  BY DEF Whole, u
<1> HIDE DEF ps
<1>10. Join(Parts(SubSeq(t, 1, m + 1))) = Join(WithSymbol(ps, t[m], c))
  BY <1>5, <1>8
<1>11. CASE c = "/"
  <2>1. Join(WithSymbol(ps, t[m], c)) = u
    BY <1>3, <1>9, <1>11 DEF WithSymbol
  <2> QED BY <1>1, <1>10, <1>11, <2>1 DEF Whole, c, u
<1>12. CASE c # "/" /\ t[m] = "/"
  <2> DEFINE x == SubSeq(t, 1, m - 1)
  <2>1. WithSymbol(ps, t[m], c) = Append(ps, <<c>>) /\ <<c>> \in PartOf(A)
    BY <1>2, <1>12 DEF WithSymbol, PartOf
  <2>2. Join(Append(ps, <<c>>)) = WithPart(x, <<c>>)
    BY <1>7, <1>9, <1>12, <2>1, JoinOfLonger
  <2>3. x \in Seq(A) /\ Len(x) = m - 1 /\ x # << >>
    <3>1. x \in Seq(A) /\ Len(x) = m - 1
      BY <1>1, BeginningOf
    <3>2. m # 1
      BY <1>3, <1>12
    <3>3. m - 1 # 0
      BY <1>1, <3>2
    <3> QED BY <3>1, <3>3
  <2>4. SubSeq(t, 1, (m - 1) + 1) = Append(x, t[(m - 1) + 1])
    BY <1>1, OneLonger
  <2>5. u = Append(x, "/")
    BY <1>1, <1>12, <2>4 DEF u
  <2> HIDE DEF x
  <2>6. WithPart(x, <<c>>) = Append(u, c)
    BY <1>2, <1>4, <2>3, <2>5 DEF WithPart
  <2> QED BY <1>1, <1>5, <1>10, <1>12, <2>1, <2>2, <2>6 DEF Whole, c
<1>13. CASE c # "/" /\ t[m] # "/"
  <2>1. WithSymbol(ps, t[m], c) = Grown(ps, c)
    BY <1>2, <1>13 DEF WithSymbol, Grown
  <2>2. Join(ps) = u /\ ps # << >>
    BY <1>6, <1>7, <1>9, <1>13, JoinTyped
  <2>3. Join(Grown(ps, c)) = Append(u, c)
    BY <1>2, <1>7, <1>13, <2>2, JoinGrown
  <2> QED BY <1>1, <1>5, <1>10, <1>13, <2>1, <2>3 DEF Whole, c
<1> QED BY <1>11, <1>12, <1>13

LEMMA JoinOfParts ==
  ASSUME NEW A, "/" \in A, "end" \notin A, NEW t \in Seq(A), t # << >>, Tidy(t)
  PROVE  Join(Parts(t)) = t
<1> DEFINE N == Len(t)
           S == {n \in Nat : n + 1 <= N => Whole(t, n + 1)}
<1>1. N \in Nat /\ N # 0 /\ t[1] # "/" /\ t[N] # "/"
  BY DEF Tidy
<1>2. 0 \in S
  <2>1. 0 \in 0 .. N /\ 0 \in 0 .. N - 1 /\ 0 + 1 = 1 /\ 1 \in 1 .. N
    <3> HIDE DEF N
    <3> QED BY <1>1
  <2> DEFINE c == t[1]
             u == SubSeq(t, 1, 0)
  <2>2. u = << >> /\ c \in A /\ SubSeq(t, 1, 0 + 1) = Append(u, t[0 + 1])
    <3>1. u \in Seq(A) /\ Len(u) = 0
      BY <2>1, BeginningOf
    <3>2. SubSeq(t, 1, 0 + 1) = Append(SubSeq(t, 1, 0), t[0 + 1])
      BY <2>1, OneLonger
    <3>3. u = << >>
      <4> HIDE DEF u
      <4> QED BY <3>1
    <3> QED BY <2>1, <3>2, <3>3
  <2> HIDE DEF c, u
  <2>3. SubSeq(t, 1, 1) = Append(u, c) /\ u \in Seq(A) /\ Len(u) = 0
    BY <2>1, <2>2 DEF c
  <2>4. Parts(Append(u, c)) = WithSymbol(Parts(u), At(u, Len(u)), c)
    BY <2>2, <2>3, PartsOfLonger
  <2>5. Parts(u) = << >> /\ At(u, Len(u)) = "end"
    <3>1. Parts(u) = << >>
      BY <2>2, <2>3, PartsTyped
    <3>2. DOMAIN u = 1 .. Len(u) /\ Len(u) \notin 1 .. Len(u)
      BY <2>3
    <3> QED BY <3>1, <3>2 DEF At
  <2>6. Parts(Append(u, c)) = Append(<< >>, <<c>>)
    BY <1>1, <2>4, <2>5 DEF WithSymbol, c
  <2> DEFINE none == Parts(u)
             first == <<c>>
  <2>7. none \in Seq(PartOf(A)) /\ first \in PartOf(A) /\ Append(u, c) = first
    <3>1. Append(<< >>, c) = <<c>>
      OBVIOUS
    <3>2. <<c>> \in PartOf(A)
      BY <1>1, <2>2 DEF PartOf, c
    <3>3. Append(u, c) = <<c>>
      BY <2>2, <3>1
    <3>4. none \in Seq(PartOf(A))
      BY <2>5
    <3> QED BY <3>2, <3>3, <3>4
  <2>8. none = << >> /\ Parts(Append(u, c)) = Append(none, first)
    BY <2>5, <2>6
  <2> HIDE DEF none, first
  <2>9. Join(Parts(SubSeq(t, 1, 1))) = SubSeq(t, 1, 1)
    <3>1. Join(Append(none, first)) = WithPart(Join(none), first) /\ Join(none) = << >>
      BY <2>7, <2>8, JoinOfLonger, JoinTyped
    <3> QED BY <2>3, <2>7, <2>8, <3>1 DEF WithPart
  <2>10. Whole(t, 1)
    BY <1>1, <2>9 DEF Whole
  <2> QED BY <2>1, <2>10
<1>3. ASSUME NEW n \in Nat, n \in S PROVE n + 1 \in S
  <2> DEFINE m == n + 1
  <2> SUFFICES ASSUME m + 1 <= N PROVE Whole(t, m + 1)
    OBVIOUS
  <2>1. m \in 1 .. N /\ Whole(t, m)
    <3> HIDE DEF N
    <3> QED BY <1>1, <1>3
  <2> HIDE DEF m, S
  <2> QED BY <2>1, WholeGoesOn
<1>4. Nat \subseteq S
  <2> HIDE DEF S
  <2> QED BY <1>2, <1>3, SetInduction
<1>5. Whole(t, N)
  <2>1. N - 1 \in Nat /\ (N - 1) + 1 = N
    <3> HIDE DEF N
    <3> QED BY <1>1
  <2>2. Whole(t, (N - 1) + 1)
    <3> HIDE DEF N
    <3> QED BY <1>1, <1>4, <2>1
  <2> QED BY <2>1, <2>2
<1>6. SubSeq(t, 1, N) = t
  BY SubSeqFull
<1> QED BY <1>1, <1>5, <1>6 DEF Whole

\* A separator in a path stands after one of the directories above it.
LEMMA SeparatorsAreBetween ==
  ASSUME NEW A, "/" \in A, NEW ps \in Seq(PartOf(A)), NEW n \in 1 .. Len(ps),
         NEW j \in 1 .. Len(JoinTo(ps)[n]), JoinTo(ps)[n][j] = "/"
  PROVE  \E h \in 1 .. n - 1 : Len(JoinTo(ps)[h]) = j - 1
<1> DEFINE J == JoinTo(ps)
           N == Len(ps)
           Between(i) == \A k \in 1 .. Len(J[i]) :
                           J[i][k] = "/" => \E h \in 1 .. i - 1 : Len(J[h]) = k - 1
           S == {d \in Nat : d + 1 <= N => Between(d + 1)}
<1>1. N \in Nat /\ n \in 1 .. N
  OBVIOUS
<1>2. \A i \in 1 .. N : ps[i] \in Seq(A) /\ Len(ps[i]) \in Nat /\ \A k \in 1 .. Len(ps[i]) : ps[i][k] # "/"
  <2> TAKE i \in 1 .. N
  <2>1. ps[i] \in PartOf(A)
    BY ElementOfSeq
  <2>2. ps[i] \in Seq(A) /\ \A k \in 1 .. Len(ps[i]) : ps[i][k] # "/"
    BY <2>1 DEF PartOf
  <2> QED BY <2>2
<1>3. \A i \in 1 .. N : OneMore(A, J[i], J[i - 1], ps[i], i)
  BY JoinOneMore
<1> HIDE DEF J
<1>4. 0 \in S
  <2> SUFFICES ASSUME 1 <= N PROVE Between(1)
    OBVIOUS
  <2>1. 1 \in 1 .. N
    BY <1>1
  <2>2. J[1] = ps[1]
    BY <1>3, <2>1 DEF OneMore
  <2> QED BY <1>2, <2>1, <2>2
<1>5. ASSUME NEW d \in Nat, d \in S PROVE d + 1 \in S
  <2> DEFINE m == d + 1
             i == m + 1
             b == Len(J[m])
             q == ps[i]
  <2> SUFFICES ASSUME i <= N, NEW k \in 1 .. Len(J[i]), J[i][k] = "/"
               PROVE  \E h \in 1 .. i - 1 : Len(J[h]) = k - 1
    OBVIOUS
  <2>1. i \in 1 .. N /\ i > 1 /\ i - 1 = m /\ m \in 1 .. N /\ m <= N /\ m \in 1 .. i - 1
    BY <1>1
  <2>2. Between(m)
    BY <1>5, <2>1
  <2>3. /\ J[m] \in Seq(A) /\ Len(J[i]) = b + 1 + Len(q) /\ J[i][b + 1] = "/"
        /\ \A l \in 1 .. b : J[i][l] = J[m][l]
        /\ \A l \in 1 .. Len(q) : J[i][b + 1 + l] = q[l]
    <3>1. OneMore(A, J[i], J[m], q, i)
      BY <1>3, <2>1
    <3> HIDE DEF q, i, m
    <3> QED BY <2>1, <3>1 DEF OneMore
  <2>4. b \in Nat /\ Len(q) \in Nat /\ \A l \in 1 .. Len(q) : q[l] # "/"
    BY <1>2, <2>1, <2>3
  <2>5. CASE k \in 1 .. b
    <3>1. PICK h \in 1 .. m - 1 : Len(J[h]) = k - 1
      <4>1. J[m][k] = "/"
        BY <2>3, <2>5
      <4> QED BY <2>2, <2>5, <4>1
    <3>2. h \in 1 .. i - 1
      BY <2>1
    <3> QED BY <3>1, <3>2
  <2>6. CASE k = b + 1
    BY <2>1, <2>4, <2>6
  <2>7. CASE k \notin 1 .. b /\ k # b + 1
    <3> HIDE DEF b, q, i, m
    <3>1. k - (b + 1) \in 1 .. Len(q) /\ b + 1 + (k - (b + 1)) = k
      BY <2>3, <2>4, <2>7
    <3> QED BY <2>3, <2>4, <3>1
  <2> QED BY <2>5, <2>6, <2>7
<1>6. Nat \subseteq S
  <2> HIDE DEF S
  <2> QED BY <1>4, <1>5, SetInduction
<1>7. n - 1 \in Nat /\ (n - 1) + 1 = n /\ n <= N
  BY <1>1
<1>8. Between(n)
  <2>1. n - 1 \in S
    BY <1>6, <1>7
  <2>2. Between((n - 1) + 1)
    BY <1>7, <2>1
  <2> QED BY <1>7, <2>2
<1> QED BY <1>8 DEF J

LEMMA AncestorsAreTheBeginnings ==
  ASSUME NEW A, "/" \in A, "end" \notin A, NEW t \in Seq(A), t # << >>, Tidy(t)
  PROVE  /\ ToSet(Ancestors(t)) = {SubSeq(t, 1, i - 1) : i \in {j \in DOMAIN t : t[j] = "/"}}
         /\ \A i, j \in DOMAIN Ancestors(t) : i < j => IsStrictPrefix(Ancestors(t)[i], Ancestors(t)[j])
<1> DEFINE ps == Parts(t)
           N == Len(ps)
           J == JoinTo(ps)
           R == Ancestors(t)
<1>1. ps \in Seq(PartOf(A)) /\ Join(ps) = t
  BY PartsTyped, JoinOfParts
<1>2. ps # << >>
  BY <1>1, JoinTyped
<1>3. N \in Nat /\ N >= 1 /\ N \in 1 .. N
  <2>1. N \in Nat /\ N # 0
    BY <1>1, <1>2
  <2> HIDE DEF N
  <2> QED BY <2>1
<1>4. J[N] = t
  BY <1>1 DEF Join
<1> HIDE DEF ps
<1>5. /\ \A i \in 1 .. N : J[i] \in Seq(A)
      /\ \A i \in 1 .. N : \A n \in 1 .. N : i < n => ExtendsBy(J[n], J[i])
  <2>1. J \in [0 .. N -> Seq(A)]
    BY <1>1, JoinSteps
  <2>2. \A i \in 1 .. N : \A n \in 1 .. N : i < n => ExtendsBy(J[n], J[i])
    BY <1>1, JoinExtends
  <2> HIDE DEF J, N
  <2> QED BY <1>3, <2>1, <2>2
<1>6. DOMAIN R = 1 .. N - 1 /\ \A i \in 1 .. N - 1 : R[i] = J[i]
  <2>1. R = [i \in 1 .. N - 1 |-> Join(SubSeq(ps, 1, i))]
    BY DEF Ancestors, ps
  <2>2. ASSUME NEW i \in 1 .. N - 1 PROVE Join(SubSeq(ps, 1, i)) = J[i]
    <3> DEFINE s == SubSeq(ps, 1, i)
    <3>1. i \in 0 .. N /\ i <= N /\ i \in 1 .. N
      <4> HIDE DEF N
      <4> QED BY <1>3
    <3>2. s \in Seq(PartOf(A)) /\ Len(s) = i /\ \A k \in 1 .. i : s[k] = ps[k]
      BY <1>1, <3>1, BeginningOf
    <3> HIDE DEF s
    <3>3. i \in 0 .. Len(s)
      <4> HIDE DEF N
      <4> QED BY <3>1, <3>2
    <3>4. JoinTo(s)[i] = JoinTo(ps)[i]
      BY <1>1, <3>1, <3>2, <3>3, JoinOfBeginning
    <3>5. Join(s) = JoinTo(s)[i]
      BY <3>2 DEF Join
    <3> QED BY <3>4, <3>5 DEF s
  <2> HIDE DEF J
  <2> QED BY <2>1, <2>2
<1>7. \A k \in 1 .. N - 1 : k \in 1 .. N /\ k < N
  <2> HIDE DEF N
  <2> QED BY <1>3
<1> HIDE DEF R, J, N
<1>8. ASSUME NEW i \in 1 .. N - 1, NEW n \in 1 .. N - 1, i < n
      PROVE  IsStrictPrefix(J[i], J[n])
  <2> DEFINE short == J[i]
             long == J[n]
  <2>1. short \in Seq(A) /\ long \in Seq(A) /\ ExtendsBy(long, short)
    BY <1>5, <1>7, <1>8
  <2> HIDE DEF short, long
  <2>2. /\ Len(short) \in Nat /\ Len(long) \in Nat /\ Len(short) < Len(long) /\ Len(short) <= Len(long)
        /\ \A k \in 1 .. Len(short) : short[k] = long[k]
    BY <2>1 DEF ExtendsBy, Extends
  <2>3. Len(short) \in 0 .. Len(short)
    BY <2>2
  <2>4. SubSeq(short, 1, Len(short)) = SubSeq(long, 1, Len(short))
    BY <2>1, <2>2, <2>3, SameBeginning
  <2>5. short # long
    BY <2>2
  <2> QED BY <2>2, <2>4, <2>5 DEF IsStrictPrefix, IsPrefix, short, long
<1>9. ASSUME NEW i \in 1 .. N - 1
      PROVE  Len(J[i]) + 1 \in DOMAIN t /\ t[Len(J[i]) + 1] = "/" /\ J[i] = SubSeq(t, 1, (Len(J[i]) + 1) - 1)
  <2> DEFINE short == J[i]
  <2>1. short \in Seq(A) /\ ExtendsBy(t, short)
    BY <1>3, <1>4, <1>5, <1>7
  <2> HIDE DEF short
  <2>2. /\ Len(short) \in Nat /\ Len(t) \in Nat /\ Len(short) < Len(t) /\ Len(short) <= Len(t)
        /\ \A k \in 1 .. Len(short) : short[k] = t[k]
        /\ t[Len(short) + 1] = "/"
    BY <2>1 DEF ExtendsBy, Extends
  <2>3. Len(short) \in 0 .. Len(short) /\ (Len(short) + 1) - 1 = Len(short) /\ Len(short) + 1 \in 1 .. Len(t)
    BY <2>2
  <2>4. SubSeq(short, 1, Len(short)) = SubSeq(t, 1, Len(short))
    BY <2>1, <2>2, <2>3, SameBeginning
  <2>5. SubSeq(short, 1, Len(short)) = short
    BY <2>1, SubSeqFull
  <2>6. DOMAIN t = 1 .. Len(t)
    OBVIOUS
  <2> QED BY <2>2, <2>3, <2>4, <2>5, <2>6 DEF short
<1>10. ASSUME NEW j \in DOMAIN t, t[j] = "/" PROVE \E i \in 1 .. N - 1 : SubSeq(t, 1, j - 1) = J[i]
  <2>1. j \in 1 .. Len(J[N]) /\ J[N][j] = "/"
    BY <1>4, <1>10
  <2>2. PICK h \in 1 .. N - 1 : Len(J[h]) = j - 1
    BY <1>1, <1>3, <2>1, SeparatorsAreBetween DEF J, N
  <2>3. Len(J[h]) + 1 = j /\ (Len(J[h]) + 1) - 1 = j - 1
    BY <2>2
  <2>4. J[h] = SubSeq(t, 1, j - 1)
    BY <1>9, <2>3
  <2> QED BY <2>4
<1>11. ToSet(R) = {J[i] : i \in 1 .. N - 1}
  BY <1>6 DEF ToSet
<1>12. {J[i] : i \in 1 .. N - 1} = {SubSeq(t, 1, i - 1) : i \in {j \in DOMAIN t : t[j] = "/"}}
  BY <1>9, <1>10
<1> QED BY <1>6, <1>8, <1>11, <1>12 DEF R

\* A file's directories are all created, each below the one before it, and nothing
\* that is not above the file.
THEOREM EveryDirectoryAbove == Spec => []AncestorsExact
<1>1. Answers => AncestorsExact
  <2> SUFFICES ASSUME Answers, Answered("ancestors")
               PROVE  /\ ToSet(Result) = {SubSeq(text, 1, i - 1) : i \in {j \in DOMAIN text : text[j] = "/"}}
                      /\ \A i, j \in DOMAIN Result : i < j => IsStrictPrefix(Result[i], Result[j])
    BY DEF AncestorsExact
  <2>1. text \in Paths /\ Result = Ancestors(text)
    BY DEF Answers, Answered, Result
  <2>2. text \in Seq(Symbol) /\ text # << >> /\ Tidy(text)
    BY <2>1, PathsAssumption
  <2> QED BY <2>1, <2>2, SymbolAssumption, AncestorsAreTheBeginnings
<1> QED BY <1>1, AnswersHold, PTL

-----------------------------------------------------------------------------
(* Payloads.  Where the first closing pair is, what is left of a token     *)
(* without its blanks, and that no two placeholders overlap.               *)
IsPair(s, x, y) == s = <<x, y>>

LEMMA TwoAt ==
  ASSUME NEW A, NEW t \in Seq(A), NEW k \in 1 .. Len(t) - 1, NEW x, NEW y
  PROVE  IsPair(SubSeq(t, k, k + 1), x, y) <=> t[k] = x /\ t[k + 1] = y
<1> DEFINE s == SubSeq(t, k, k + 1)
<1>1. k \in Int /\ k + 1 \in Int /\ k \in 1 .. Len(t) /\ k + 1 \in 1 .. Len(t) /\ k <= k + 1 /\ Len(t) \in Nat
      /\ (k + 1) - k + 1 = 2
  OBVIOUS
<1>2. \A i \in k .. k + 1 : t[i] \in A
  OBVIOUS
<1>3. /\ s \in Seq(A) /\ Len(s) = 2
      /\ \A i \in 1 .. 2 : s[i] = t[k + i - 1]
  BY <1>1, <1>2, SubSeqProperties
<1>4. s[1] = t[k] /\ s[2] = t[k + 1]
  BY <1>1, <1>3
<1> HIDE DEF s
<1>5. s = <<x, y>> <=> s[1] = x /\ s[2] = y
  BY <1>3
<1> QED BY <1>4, <1>5 DEF s, IsPair

FirstClosing(t, i, k) ==
  /\ k \in i .. Len(t) - 1 /\ t[k] = RightBrace /\ t[k + 1] = RightBrace
  /\ \A l \in i .. k - 1 : ~(t[l] = RightBrace /\ t[l + 1] = RightBrace)

LEMMA ClosingIsFirst ==
  ASSUME NEW t \in Seq(Symbol), NEW i \in Nat \ {0}
  PROVE  /\ Closing(t, i) = 0 \/ FirstClosing(t, i, Closing(t, i))
         /\ \A k : FirstClosing(t, i, k) => Closing(t, i) = k
<1> DEFINE N == Len(t)
           at == {j \in i .. N - 1 : t[j] = RightBrace /\ t[j + 1] = RightBrace}
           First(k) == /\ k \in at /\ \A l \in i .. k - 1 : l \notin at
<1>1. N \in Nat
  OBVIOUS
<1>2. Closing(t, i) = IF at = {} THEN 0 ELSE CHOOSE j \in at : \A k \in at : j <= k
  BY DEF Closing
<1>3. ASSUME NEW k PROVE FirstClosing(t, i, k) <=> First(k)
  <2>1. FirstClosing(t, i, k) <=>
          k \in at /\ \A l \in i .. k - 1 : ~(t[l] = RightBrace /\ t[l + 1] = RightBrace)
    BY DEF FirstClosing
  <2>2. ASSUME k \in at, NEW l \in i .. k - 1 PROVE l \in at <=> t[l] = RightBrace /\ t[l + 1] = RightBrace
    <3>1. k \in i .. N - 1
      BY <2>2
    <3> HIDE DEF N
    <3>2. l \in i .. N - 1
      BY <1>1, <3>1
    <3> QED BY <3>2
  <2> HIDE DEF at
  <2> QED BY <2>1, <2>2
<1>4. \A j \in at : j \in Nat /\ i <= j
  <2>1. \A j \in at : j \in i .. N - 1
    OBVIOUS
  <2> HIDE DEF N, at
  <2> QED BY <1>1, <2>1
<1> HIDE DEF at, N
<1>5. CASE at = {}
  BY <1>2, <1>3, <1>5
<1>6. CASE at # {}
  <2> DEFINE c == CHOOSE j \in at : \A k \in at : j <= k
  <2>1. c \in at /\ \A k \in at : c <= k
    <3>1. at \subseteq Nat
      BY <1>4
    <3> QED BY <1>6, <3>1, LeastNumber
  <2>2. Closing(t, i) = c
    BY <1>2, <1>6
  <2> HIDE DEF c
  <2>3. First(c)
    BY <1>4, <2>1
  <2>4. ASSUME NEW k, First(k) PROVE c = k
    <3>1. c <= k /\ c \in Nat /\ k \in Nat /\ i <= c /\ c \notin i .. k - 1
      BY <1>4, <2>1, <2>4
    <3> QED BY <3>1
  <2> QED BY <1>3, <2>2, <2>3, <2>4
<1> QED BY <1>5, <1>6

TrimmedTo(s, a, b) ==
  /\ Trim(s) = SubSeq(s, a, b) /\ s[a] \notin Blanks /\ s[b] \notin Blanks
  /\ \A k \in 1 .. Len(s) : k < a \/ b < k => s[k] \in Blanks

LEMMA TrimIs ==
  ASSUME NEW s \in Seq(Symbol)
  PROVE  \/ Trim(s) = << >> /\ \A k \in 1 .. Len(s) : s[k] \in Blanks
         \/ \E a \in 1 .. Len(s) : \E b \in a .. Len(s) : TrimmedTo(s, a, b)
<1> DEFINE kept == {i \in DOMAIN s : s[i] \notin Blanks}
           a == CHOOSE i \in kept : \A j \in kept : i <= j
           b == CHOOSE i \in kept : \A j \in kept : j <= i
<1>1. Len(s) \in Nat /\ DOMAIN s = 1 .. Len(s)
  OBVIOUS
<1>2. CASE kept = {}
  BY <1>1, <1>2 DEF Trim
<1>3. CASE kept # {}
  <2>1. kept \subseteq Nat /\ kept \subseteq 0 .. Len(s)
    BY <1>1
  <2>2. \A k \in 1 .. Len(s) : k \notin kept => s[k] \in Blanks
    BY <1>1
  <2>3. \A k \in kept : k \in 1 .. Len(s) /\ s[k] \notin Blanks
    BY <1>1
  <2>4. Trim(s) = SubSeq(s, a, b)
    BY <1>3 DEF Trim
  <2> HIDE DEF kept
  <2>5. a \in kept /\ \A j \in kept : a <= j
    BY <1>3, <2>1, LeastNumber
  <2>6. b \in kept /\ \A j \in kept : j <= b
    BY <1>1, <1>3, <2>1, GreatestNumber
  <2> HIDE DEF a, b
  <2>7. a \in 1 .. Len(s) /\ b \in a .. Len(s)
    BY <1>1, <2>3, <2>5, <2>6
  <2>8. \A k \in 1 .. Len(s) : k < a \/ b < k => s[k] \in Blanks
    BY <1>1, <2>2, <2>5, <2>6, <2>7
  <2>9. TrimmedTo(s, a, b)
    BY <2>3, <2>4, <2>5, <2>6, <2>8 DEF TrimmedTo
  <2> QED BY <2>7, <2>9
<1> QED BY <1>2, <1>3

\* A stretch of a text, symbol by symbol.
Stretch(t, i, j, s) ==
  s \in Seq(Symbol) /\ Len(s) = j - i + 1 /\ \A k \in 1 .. Len(s) : s[k] = t[i + k - 1]

LEMMA StretchIs ==
  ASSUME NEW t \in Seq(Symbol), NEW i \in 1 .. Len(t) + 1, NEW j \in i - 1 .. Len(t)
  PROVE  Stretch(t, i, j, SubSeq(t, i, j))
<1> DEFINE s == SubSeq(t, i, j)
<1>1. i \in Int /\ j \in Int /\ Len(t) \in Nat
  OBVIOUS
<1>2. \A k \in i .. j : t[k] \in Symbol
  OBVIOUS
<1>3. /\ s \in Seq(Symbol) /\ Len(s) = IF i <= j THEN j - i + 1 ELSE 0
      /\ \A k \in 1 .. j - i + 1 : s[k] = t[i + k - 1]
  BY <1>1, <1>2, SubSeqProperties
<1> HIDE DEF s
<1>4. Len(s) = j - i + 1
  BY <1>1, <1>3
<1> QED BY <1>3, <1>4 DEF Stretch, s

Opens(i) == i + 1 \in 1 .. Len(text) /\ text[i] = LeftBrace /\ text[i + 1] = LeftBrace
Inner(i, j) == SubSeq(text, i + 2, j - 2)
IsToken(s) == Trim(s) = Escape \/ Identifier(Trim(s))
Named(i, j) == IsToken(Inner(i, j))

LEMMA PlaceholderIs ==
  ASSUME text \in Seq(Symbol), NEW i \in 1 .. Len(text), NEW j \in 1 .. Len(text)
  PROVE  Placeholder(i, j) <=> Opens(i) /\ FirstClosing(text, i + 2, j - 1) /\ Named(i, j)
<1> DEFINE N == Len(text)
           token == Trim(Inner(i, j))
           Pair(k) == text[k] = RightBrace /\ text[k + 1] = RightBrace
<1>1. N \in Nat /\ DOMAIN text = 1 .. N
  OBVIOUS
<1>2. Name(token) <=> Identifier(token)
  BY DEF Name, Identifier, ToSet
<1>3. ASSUME NEW k \in 1 .. N - 1
      PROVE  SubSeq(text, k, k + 1) = <<RightBrace, RightBrace>> <=> Pair(k)
  <2>1. IsPair(SubSeq(text, k, k + 1), RightBrace, RightBrace) <=> text[k] = RightBrace /\ text[k + 1] = RightBrace
    BY TwoAt
  <2> QED BY <2>1 DEF IsPair, Pair
<1>4. ASSUME NEW k \in 1 .. N - 1
      PROVE  SubSeq(text, k, k + 1) = BracePair <=> text[k] = LeftBrace /\ text[k + 1] = LeftBrace
  <2>1. IsPair(SubSeq(text, k, k + 1), LeftBrace, LeftBrace) <=> text[k] = LeftBrace /\ text[k + 1] = LeftBrace
    BY TwoAt
  <2> QED BY <2>1 DEF IsPair, BracePair
<1>5. Placeholder(i, j) <=>
        /\ i + 3 <= j /\ SubSeq(text, i, i + 1) = BracePair /\ SubSeq(text, j - 1, j) = <<RightBrace, RightBrace>>
        /\ \A k \in i + 2 .. j - 2 : SubSeq(text, k, k + 1) # <<RightBrace, RightBrace>>
        /\ Named(i, j)
  BY <1>1, <1>2 DEF Placeholder, Named, IsToken, Inner
<1>6. FirstClosing(text, i + 2, j - 1) <=>
        j - 1 \in i + 2 .. N - 1 /\ Pair(j - 1) /\ \A k \in i + 2 .. (j - 1) - 1 : ~Pair(k)
  BY DEF FirstClosing
<1> HIDE DEF N, Pair
<1>7. ASSUME i + 3 <= j
      PROVE  Placeholder(i, j) <=> Opens(i) /\ FirstClosing(text, i + 2, j - 1) /\ Named(i, j)
  <2>1. /\ i \in 1 .. N - 1 /\ j - 1 \in 1 .. N - 1 /\ (j - 1) + 1 = j /\ j - 1 \in i + 2 .. N - 1
        /\ (j - 1) - 1 = j - 2 /\ i + 1 \in 1 .. N
        /\ \A k \in i + 2 .. j - 2 : k \in 1 .. N - 1
    BY <1>1, <1>7 DEF N
  <2>2. SubSeq(text, i, i + 1) = BracePair <=> Opens(i)
    BY <1>4, <2>1 DEF Opens, N
  <2>3. SubSeq(text, j - 1, j) = <<RightBrace, RightBrace>> <=> Pair(j - 1)
    BY <1>3, <2>1
  <2>4. (\A k \in i + 2 .. j - 2 : SubSeq(text, k, k + 1) # <<RightBrace, RightBrace>>) <=>
          \A k \in i + 2 .. j - 2 : ~Pair(k)
    BY <1>3, <2>1
  <2> QED BY <1>5, <1>6, <1>7, <2>1, <2>2, <2>3, <2>4
<1>8. ASSUME ~(i + 3 <= j)
      PROVE  Placeholder(i, j) <=> Opens(i) /\ FirstClosing(text, i + 2, j - 1) /\ Named(i, j)
  <2>1. j - 1 \notin i + 2 .. N - 1
    BY <1>1, <1>8
  <2> QED BY <1>5, <1>6, <1>8, <2>1
<1> QED BY <1>7, <1>8

\* A text that is not all blanks, from its first symbol that is none.
LEMMA TrimOfQuote ==
  ASSUME NEW s \in Seq(Symbol), Len(s) >= 1, s[1] = Quote, \A k \in 2 .. Len(s) : s[k] \in Blanks
  PROVE  Trim(s) # Escape /\ ~Identifier(Trim(s))
<1>1. Len(s) \in Nat /\ 1 \in 1 .. Len(s) /\ s[1] \notin Blanks
  BY NameAssumption
<1>2. PICK a \in 1 .. Len(s) : \E b \in a .. Len(s) : TrimmedTo(s, a, b)
  BY <1>1, TrimIs
<1>3. PICK b \in a .. Len(s) : TrimmedTo(s, a, b)
  BY <1>2
<1>4. a = 1 /\ b = 1
  <2>1. ~(1 < a)
    BY <1>1, <1>3 DEF TrimmedTo
  <2>2. a = 1
    BY <1>1, <2>1
  <2>3. b \notin 2 .. Len(s)
    BY <1>3 DEF TrimmedTo
  <2> QED BY <1>1, <2>2, <2>3
<1>5. 1 \in 1 .. Len(s) + 1 /\ 1 \in 1 - 1 .. Len(s)
  BY <1>1
<1>6. Stretch(s, 1, 1, SubSeq(s, 1, 1))
  BY <1>5, StretchIs
<1>7. Len(Trim(s)) = 1 /\ Trim(s)[1] = Quote
  BY <1>3, <1>4, <1>6 DEF TrimmedTo, Stretch
<1>8. Len(Escape) = 4
  BY DEF Escape, BracePair
<1>9. Quote \notin Initials
  BY NameAssumption
<1> DEFINE x == Trim(s)
<1> HIDE DEF x
<1>10. x # Escape /\ ~Identifier(x)
  <2>1. Len(x) = 1 /\ x[1] \notin Initials
    BY <1>7, <1>9 DEF x
  <2>2. ~Identifier(x)
    BY <2>1 DEF Identifier
  <2>3. x # Escape
    <3>1. Len(x) < 2 /\ ~(Len(Escape) < 2)
      BY <1>8, <2>1
    <3> QED BY <3>1
  <2> QED BY <2>2, <2>3
<1> QED BY <1>10 DEF x

\* A token with a brace in it is the escape, and blanks around it.
EscapeAt(s, a) ==
  /\ a + 3 \in 1 .. Len(s)
  /\ s[a] = Quote /\ s[a + 1] = LeftBrace /\ s[a + 2] = LeftBrace /\ s[a + 3] = Quote
  /\ \A k \in 1 .. Len(s) : k < a \/ a + 3 < k => s[k] \in Blanks

LEMMA BracedIsEscape ==
  ASSUME NEW s \in Seq(Symbol), IsToken(s),
         NEW m \in 1 .. Len(s), s[m] = LeftBrace
  PROVE  \E a \in 1 .. Len(s) : EscapeAt(s, a)
<1>1. LeftBrace \notin Blanks /\ LeftBrace \notin Constituents /\ LeftBrace \in Symbol
  BY NameAssumption, SymbolAssumption DEF Braces, Constituents
<1>2. Len(s) \in Nat
  OBVIOUS
<1>3. PICK a \in 1 .. Len(s) : \E b \in a .. Len(s) : TrimmedTo(s, a, b)
  BY <1>1, TrimIs
<1>4. PICK b \in a .. Len(s) : TrimmedTo(s, a, b)
  BY <1>3
<1> DEFINE x == Trim(s)
<1>5. Stretch(s, a, b, x)
  <2>1. a \in 1 .. Len(s) + 1 /\ b \in a - 1 .. Len(s)
    BY <1>2
  <2>2. Stretch(s, a, b, SubSeq(s, a, b))
    BY <2>1, StretchIs
  <2> QED BY <1>4, <2>2 DEF TrimmedTo
<1>6. x = Escape \/ Identifier(x)
  BY DEF IsToken
<1> HIDE DEF x
<1>7. x \in Seq(Symbol) /\ Len(x) = b - a + 1 /\ \A k \in 1 .. Len(x) : x[k] = s[a + k - 1]
  BY <1>5 DEF Stretch
<1>8. a \in Nat /\ b \in Nat /\ m \in Nat /\ a >= 1 /\ b <= Len(s) /\ a <= b
  BY <1>2
<1>9. a <= m /\ m <= b
  BY <1>1, <1>2, <1>4, <1>8 DEF TrimmedTo
<1>10. x # Escape => FALSE
  <2> SUFFICES ASSUME Identifier(x) PROVE FALSE
    BY <1>6
  <2> DEFINE h == m - a + 1
  <2>1. h \in 1 .. Len(x) /\ a + h - 1 = m
    BY <1>7, <1>8, <1>9
  <2> HIDE DEF h
  <2>2. x[h] = LeftBrace /\ DOMAIN x = 1 .. Len(x)
    BY <1>7, <2>1
  <2> QED BY <1>1, <2>1, <2>2 DEF Identifier
<1>11. x = Escape
  BY <1>10
<1>12. Len(x) = 4 /\ x[1] = Quote /\ x[2] = LeftBrace /\ x[3] = LeftBrace /\ x[4] = Quote
  <2>1. Quote \in Symbol /\ LeftBrace \in Symbol
    BY SymbolAssumption DEF Braces
  <2>2. /\ Len(Escape) = 4 /\ Escape[1] = Quote /\ Escape[2] = LeftBrace
        /\ Escape[3] = LeftBrace /\ Escape[4] = Quote
    BY <2>1 DEF Escape, BracePair
  <2> QED BY <1>11, <2>2
<1>13. b = a + 3 /\ a + 3 \in 1 .. Len(s)
  <2>1. Len(x) = 4
    BY <1>12
  <2>2. b - a + 1 = 4
    BY <1>7, <2>1
  <2> QED BY <1>2, <1>8, <2>2
<1>14. s[a] = Quote /\ s[a + 1] = LeftBrace /\ s[a + 2] = LeftBrace /\ s[a + 3] = Quote
  <2>1. a + 1 - 1 = a /\ a + 2 - 1 = a + 1 /\ a + 3 - 1 = a + 2 /\ a + 4 - 1 = a + 3
    BY <1>8
  <2>2. 1 \in 1 .. 4 /\ 2 \in 1 .. 4 /\ 3 \in 1 .. 4 /\ 4 \in 1 .. 4
    OBVIOUS
  <2>3. \A k \in 1 .. 4 : x[k] = s[a + k - 1]
    BY <1>7, <1>12
  <2>4. x[1] = s[a + 1 - 1] /\ x[2] = s[a + 2 - 1] /\ x[3] = s[a + 3 - 1] /\ x[4] = s[a + 4 - 1]
    BY <2>2, <2>3
  <2> QED BY <1>12, <2>1, <2>4
<1>15. \A k \in 1 .. Len(s) : k < a \/ a + 3 < k => s[k] \in Blanks
  BY <1>4, <1>13 DEF TrimmedTo
<1> QED BY <1>13, <1>14, <1>15 DEF EscapeAt

LEMMA InnerIs ==
  ASSUME text \in Seq(Symbol), NEW i \in 1 .. Len(text), NEW j \in 1 .. Len(text), Placeholder(i, j)
  PROVE  /\ Stretch(text, i + 2, j - 2, Inner(i, j)) /\ i + 3 <= j
         /\ Opens(i) /\ FirstClosing(text, i + 2, j - 1) /\ Named(i, j)
<1>1. Opens(i) /\ FirstClosing(text, i + 2, j - 1) /\ Named(i, j) /\ i + 3 <= j
  BY PlaceholderIs DEF Placeholder
<1>2. Len(text) \in Nat
  OBVIOUS
<1>3. i + 2 \in 1 .. Len(text) + 1 /\ j - 2 \in (i + 2) - 1 .. Len(text)
  BY <1>1, <1>2
<1> QED BY <1>1, <1>3, StretchIs DEF Inner

\* No placeholder begins inside another.
LEMMA Apart ==
  ASSUME text \in Seq(Symbol), NEW i \in 1 .. Len(text), NEW j \in 1 .. Len(text), Placeholder(i, j),
         NEW k \in 1 .. Len(text), NEW l \in 1 .. Len(text), Placeholder(k, l), i < k, k <= j
  PROVE  FALSE
<1> DEFINE s == Inner(i, j)
           z == Inner(k, l)
<1>1. Len(text) \in Nat
  OBVIOUS
<1>2. /\ Stretch(text, i + 2, j - 2, s) /\ i + 3 <= j
      /\ FirstClosing(text, i + 2, j - 1) /\ Named(i, j)
  BY InnerIs
<1>3. /\ Stretch(text, k + 2, l - 2, z) /\ k + 3 <= l
      /\ Opens(k) /\ FirstClosing(text, k + 2, l - 1) /\ Named(k, l)
  BY InnerIs
<1>4. text[k] = LeftBrace /\ text[k + 1] = LeftBrace /\ text[j - 1] = RightBrace /\ text[j] = RightBrace
  <2>1. (j - 1) + 1 = j
    OBVIOUS
  <2> QED BY <1>2, <1>3, <2>1 DEF Opens, FirstClosing
<1>5. LeftBrace # RightBrace /\ Quote # LeftBrace
  BY NameAssumption, Zenon DEF Quote, LeftBrace, RightBrace
<1>6. k <= j - 3
  <2>1. k # j /\ k # j - 1
    BY <1>4, <1>5
  <2>2. k + 1 # j - 1
    BY <1>4, <1>5
  <2> QED BY <2>1, <2>2
<1>7. /\ s \in Seq(Symbol) /\ Len(s) = j - i - 3 /\ \A m \in 1 .. Len(s) : s[m] = text[i + m + 1]
  <2>1. (j - 2) - (i + 2) + 1 = j - i - 3
    OBVIOUS
  <2>2. \A m \in 1 .. Len(s) : (i + 2) + m - 1 = i + m + 1
    BY <1>2, <2>1 DEF Stretch
  <2> QED BY <1>2, <2>1, <2>2 DEF Stretch
<1>8. IsToken(s)
  BY <1>2 DEF Named
<1> HIDE DEF s
<1> DEFINE m == k - i
<1>9. m \in 1 .. Len(s) /\ i + m + 1 = k + 1
  BY <1>6, <1>7
<1>10. s[m] = LeftBrace
  BY <1>4, <1>7, <1>9
<1>11. PICK a \in 1 .. Len(s) : EscapeAt(s, a)
  <2> HIDE DEF m
  <2> QED BY <1>7, <1>8, <1>9, <1>10, BracedIsEscape
<1>12. LeftBrace \notin Blanks
  BY NameAssumption DEF Braces
<1>13. m = a + 1 \/ m = a + 2
  <2> HIDE DEF m
  <2>1. a <= m /\ m <= a + 3
    <3>1. \A h \in 1 .. Len(s) : h < a \/ a + 3 < h => s[h] \in Blanks
      BY <1>11 DEF EscapeAt
    <3>2. ~(m < a) /\ ~(a + 3 < m)
      BY <1>9, <1>10, <1>12, <3>1
    <3>3. m \in Nat /\ a \in Nat
      BY <1>7, <1>9
    <3> QED BY <3>2, <3>3
  <2>2. m # a /\ m # a + 3
    BY <1>5, <1>10, <1>11 DEF EscapeAt
  <2> QED BY <1>9, <2>1, <2>2
<1>14. m = a + 2
  <2>1. m - 1 \in 1 .. Len(s) /\ i + (m - 1) + 1 = k
    BY <1>7, <1>9, <1>11, <1>13
  <2>2. s[m - 1] = LeftBrace
    BY <1>4, <1>7, <2>1
  <2>3. m - 1 # a
    BY <1>5, <1>11, <2>2 DEF EscapeAt
  <2> HIDE DEF m
  <2> QED BY <1>13, <2>3
<1>15. a + 3 \in 1 .. Len(s) /\ s[a + 3] = Quote /\ \A h \in 1 .. Len(s) : a + 3 < h => s[h] \in Blanks
  BY <1>11 DEF EscapeAt
<1>16. l = j
  <2>1. k + 2 \in i + 2 .. j - 1
    BY <1>6
  <2>2. FirstClosing(text, k + 2, j - 1)
    <3>1. /\ j - 1 \in i + 2 .. Len(text) - 1 /\ text[j - 1] = RightBrace /\ text[(j - 1) + 1] = RightBrace
          /\ \A h \in i + 2 .. (j - 1) - 1 : ~(text[h] = RightBrace /\ text[h + 1] = RightBrace)
      BY <1>2 DEF FirstClosing
    <3>2. j - 1 \in k + 2 .. Len(text) - 1 /\ \A h \in k + 2 .. (j - 1) - 1 : h \in i + 2 .. (j - 1) - 1
      BY <1>1, <2>1, <3>1
    <3> QED BY <3>1, <3>2 DEF FirstClosing
  <2>3. Closing(text, k + 2) = j - 1 /\ Closing(text, k + 2) = l - 1
    <3>1. k + 2 \in Nat \ {0}
      OBVIOUS
    <3> QED BY <1>3, <2>2, <3>1, ClosingIsFirst
  <2> QED BY <2>3
<1>17. /\ z \in Seq(Symbol) /\ Len(z) = j - k - 3 /\ \A h \in 1 .. Len(z) : z[h] = text[k + h + 1]
  <2>1. (l - 2) - (k + 2) + 1 = j - k - 3
    BY <1>16
  <2>2. \A h \in 1 .. Len(z) : (k + 2) + h - 1 = k + h + 1
    BY <1>3, <2>1 DEF Stretch
  <2> QED BY <1>3, <2>1, <2>2 DEF Stretch
<1>18. IsToken(z)
  BY <1>3 DEF Named
<1> HIDE DEF z
<1>19. Len(z) >= 1
  BY <1>7, <1>14, <1>15, <1>17
<1>20. \A h \in 1 .. Len(z) : (a + 2) + h \in 1 .. Len(s) /\ i + ((a + 2) + h) + 1 = k + h + 1
  BY <1>7, <1>9, <1>14, <1>17
<1>21. \A h \in 1 .. Len(z) : z[h] = s[(a + 2) + h]
  BY <1>7, <1>17, <1>20
<1>22. z[1] = Quote
  <2>1. 1 \in 1 .. Len(z) /\ (a + 2) + 1 = a + 3
    BY <1>17, <1>19
  <2> QED BY <1>15, <1>21, <2>1
<1>23. \A h \in 2 .. Len(z) : z[h] \in Blanks
  <2> TAKE h \in 2 .. Len(z)
  <2>1. h \in 1 .. Len(z) /\ (a + 2) + h \in 1 .. Len(s) /\ a + 3 < (a + 2) + h
    BY <1>17, <1>20
  <2> QED BY <1>15, <1>21, <2>1
<1> QED BY <1>17, <1>18, <1>19, <1>22, <1>23, TrimOfQuote DEF IsToken

\* The loop: what it holds after an iteration.
Full == Symbol \cup {"none", "unwritable"}
Faults == {"template.parameter.missing", "template.parameter.invalid"}
Loops == [i : Nat \ {0}, out : Seq(Full), error : {"none"} \cup Faults]
Start == [i |-> 1, out |-> << >>, error |-> "none"]

LEMMA ValuesAreTexts ==
  ASSUME NEW x
  PROVE  ValueAt(Values, x) \in Seq(Full)
<1>1. Seq(Symbol) \subseteq Seq(Full)
  BY DEF Full
<1>2. None \in Seq(Full) /\ Unwritable \in Seq(Full)
  BY DEF None, Unwritable, Full
<1>3. \A name \in DOMAIN Values : Values[name] \in Seq(Full)
  BY <1>1, <1>2, ContentsAssumption
<1> QED BY <1>2, <1>3 DEF ValueAt

GoesTo(v, r, j, more) ==
  /\ r.i = j /\ r.out = v.out \o more /\ r.error = v.error
  /\ j \in Nat \ {0} /\ more \in Seq(Full) => r \in Loops
FailsWith(v, r, code) ==
  r.i = v.i /\ r.out = v.out /\ r.error = code /\ (code \in Faults => r \in Loops)

Fill(i, j) ==
  IF Token(<<i, j>>) = Escape THEN BracePair ELSE ValueAt(Values, Token(<<i, j>>))
Fault(i, j) ==
  IF ValueAt(Values, Token(<<i, j>>)) = None THEN "template.parameter.missing"
  ELSE "template.parameter.invalid"
IsFaulty(i, j) ==
  Token(<<i, j>>) # Escape /\ ValueAt(Values, Token(<<i, j>>)) \in {None, Unwritable}

Copies(v, r) ==
  /\ v.i \in 1 .. Len(text) /\ v.error = "none"
  /\ \A j \in 1 .. Len(text) : ~Placeholder(v.i, j)
  /\ GoesTo(v, r, v.i + 1, <<text[v.i]>>)
Fills(v, r, j) ==
  /\ v.i \in 1 .. Len(text) /\ v.error = "none"
  /\ Placeholder(v.i, j) /\ ~IsFaulty(v.i, j)
  /\ GoesTo(v, r, j + 1, Fill(v.i, j))
Stops(v, r, j) ==
  /\ v.i \in 1 .. Len(text) /\ v.error = "none"
  /\ Placeholder(v.i, j) /\ IsFaulty(v.i, j)
  /\ FailsWith(v, r, Fault(v.i, j))
Rests(v, r) == (v.i > Len(text) \/ v.error # "none") /\ r = v

IterationMoves(v, r) ==
  \/ Rests(v, r) \/ Copies(v, r)
  \/ \E j \in 1 .. Len(text) : Fills(v, r, j) \/ Stops(v, r, j)

\* Where the opening pair and the first closing one after it are.
LEMMA OpensWhere ==
  ASSUME text \in Seq(Symbol), NEW i \in 1 .. Len(text)
  PROVE  Opens(i) <=> At(text, i) = LeftBrace /\ At(text, i + 1) = LeftBrace
<1>1. LeftBrace # "end"
  BY SymbolAssumption DEF Braces
<1>2. DOMAIN text = 1 .. Len(text)
  OBVIOUS
<1> QED BY <1>1, <1>2 DEF At, Opens

LEMMA NotAPlaceholder ==
  ASSUME text \in Seq(Symbol), NEW i \in 1 .. Len(text),
         ~Opens(i) \/ Closing(text, i + 2) = 0 \/ ~Named(i, Closing(text, i + 2) + 1)
  PROVE  \A j \in 1 .. Len(text) : ~Placeholder(i, j)
<1> SUFFICES ASSUME NEW j \in 1 .. Len(text), Placeholder(i, j) PROVE FALSE
  OBVIOUS
<1>1. Opens(i) /\ FirstClosing(text, i + 2, j - 1) /\ Named(i, j)
  BY PlaceholderIs
<1>2. i + 2 \in Nat \ {0} /\ (j - 1) + 1 = j
  OBVIOUS
<1>3. Closing(text, i + 2) = j - 1
  BY <1>1, <1>2, ClosingIsFirst
<1>4. j - 1 # 0
  BY <1>1 DEF FirstClosing
<1> QED BY <1>1, <1>2, <1>3, <1>4

LEMMA APlaceholder ==
  ASSUME text \in Seq(Symbol), NEW i \in 1 .. Len(text),
         Opens(i), Closing(text, i + 2) # 0, Named(i, Closing(text, i + 2) + 1)
  PROVE  Closing(text, i + 2) + 1 \in 1 .. Len(text) /\ Placeholder(i, Closing(text, i + 2) + 1)
<1> DEFINE c == Closing(text, i + 2)
<1>1. i + 2 \in Nat \ {0} /\ Len(text) \in Nat
  OBVIOUS
<1>2. FirstClosing(text, i + 2, c)
  BY <1>1, ClosingIsFirst
<1>3. Named(i, c + 1)
  OBVIOUS
<1> HIDE DEF c
<1>4. c + 1 \in 1 .. Len(text) /\ (c + 1) - 1 = c
  BY <1>1, <1>2 DEF FirstClosing
<1>5. Placeholder(i, c + 1)
  BY <1>2, <1>3, <1>4, PlaceholderIs
<1> QED BY <1>4, <1>5 DEF c

LEMMA IterationIs ==
  ASSUME text \in Seq(Symbol), NEW v \in Loops
  PROVE  IterationMoves(v, Iteration(text, Values, v))
<1> DEFINE i == v.i
           N == Len(text)
           c == Closing(text, i + 2)
           opens == At(text, i) = LeftBrace /\ At(text, i + 1) = LeftBrace
           close == IF opens THEN c ELSE 0
           token == Trim(SubSeq(text, i + 2, close - 1))
           value == ValueAt(Values, token)
           r == Iteration(text, Values, v)
           Going(j, more) == [v EXCEPT !.i = j, !.out = @ \o more]
<1>1. N \in Nat /\ i \in Nat /\ i >= 1
  BY DEF Loops
<1>2. r = CASE i > N \/ v.error # "none" -> v
            [] i <= N /\ v.error = "none" ->
                 CASE close = 0 -> Going(i + 1, <<text[i]>>)
                   [] close # 0 /\ token = Escape -> Going(close + 2, BracePair)
                   [] close # 0 /\ token # Escape /\ ~Identifier(token) -> Going(i + 1, <<text[i]>>)
                   [] close # 0 /\ token # Escape /\ Identifier(token) ->
                        CASE value = None -> [v EXCEPT !.error = "template.parameter.missing"]
                          [] value = Unwritable -> [v EXCEPT !.error = "template.parameter.invalid"]
                          [] OTHER -> Going(close + 2, value)
  BY DEF Iteration
<1>3. ASSUME NEW j, NEW more PROVE GoesTo(v, Going(j, more), j, more)
  <2>1. Going(j, more).i = j /\ Going(j, more).out = v.out \o more /\ Going(j, more).error = v.error
    BY DEF Loops
  <2>2. ASSUME j \in Nat \ {0}, more \in Seq(Full) PROVE Going(j, more) \in Loops
    <3>1. v.out \o more \in Seq(Full)
      BY <2>2 DEF Loops
    <3> QED BY <2>2, <3>1 DEF Loops
  <2> QED BY <2>1, <2>2 DEF GoesTo
<1>4. ASSUME NEW code PROVE FailsWith(v, [v EXCEPT !.error = code], code)
  BY DEF FailsWith, Loops
<1>0. None # Unwritable
  BY DEF None, Unwritable
<1> HIDE DEF r, Going, close, token, value, c
<1>5. CASE i > N \/ v.error # "none"
  <2>1. r = v
    BY <1>1, <1>2, <1>5
  <2> QED BY <1>5, <2>1 DEF IterationMoves, Rests, r
<1>6. CASE i <= N /\ v.error = "none"
  <2>1. i \in 1 .. N /\ ~(i > N \/ v.error # "none")
    BY <1>1, <1>6
  <2>2. opens <=> Opens(i)
    BY <2>1, OpensWhere
  <2>3. close # 0 => opens /\ close = c
    BY DEF close
  <2>4. CASE close = 0 \/ (token # Escape /\ ~Identifier(token))
    <3>1. r = Going(i + 1, <<text[i]>>)
      BY <1>2, <2>1, <2>4
    <3>2. GoesTo(v, r, i + 1, <<text[i]>>)
      BY <1>3, <3>1
    <3>3. \A j \in 1 .. N : ~Placeholder(i, j)
      <4>1. CASE close = 0
        BY <2>1, <2>2, <4>1, NotAPlaceholder DEF close, c
      <4>2. CASE close # 0 /\ token # Escape /\ ~Identifier(token)
        <5>1. close = c /\ (c + 1) - 2 = close - 1
          <6>1. close = c
            BY <2>3, <4>2
          <6>2. c \in Nat
            <7>1. i + 2 \in Nat \ {0} /\ c # 0
              BY <1>1, <4>2, <6>1
            <7>2. FirstClosing(text, i + 2, c)
              BY <7>1, ClosingIsFirst DEF c
            <7> QED BY <1>1, <7>2 DEF FirstClosing
          <6> QED BY <6>1, <6>2
        <5>2. ~Named(i, c + 1)
          BY <4>2, <5>1 DEF Named, IsToken, Inner, token
        <5> QED BY <2>1, <5>2, NotAPlaceholder DEF c
      <4> QED BY <2>4, <4>1, <4>2
    <3>4. Copies(v, r)
      BY <1>6, <2>1, <3>2, <3>3 DEF Copies
    <3> QED BY <3>4 DEF IterationMoves, r
  <2>5. CASE close # 0 /\ (token = Escape \/ Identifier(token))
    <3> DEFINE j == c + 1
    <3>1. Opens(i) /\ close = c /\ c # 0
      BY <2>2, <2>3, <2>5
    <3>2. c \in Nat
      <4>1. i + 2 \in Nat \ {0}
        BY <1>1
      <4>2. FirstClosing(text, i + 2, c)
        BY <3>1, <4>1, ClosingIsFirst DEF c
      <4> QED BY <1>1, <4>2 DEF FirstClosing
    <3>3. j - 2 = close - 1 /\ close + 2 = j + 1
      BY <3>1, <3>2
    <3>4. Token(<<i, j>>) = token
      BY <3>3 DEF Token, token
    <3>5. Named(i, j)
      BY <2>5, <3>3 DEF Named, IsToken, Inner, token
    <3>6. j \in 1 .. N /\ Placeholder(i, j)
      BY <2>1, <3>1, <3>5, APlaceholder DEF c
    <3> HIDE DEF j, i
    <3>7. value = ValueAt(Values, Token(<<i, j>>))
      BY <3>4 DEF value
    <3>8. CASE token = Escape
      <4>1. r = Going(j + 1, BracePair)
        BY <1>2, <2>1, <2>5, <3>3, <3>8
      <4>2. GoesTo(v, r, j + 1, BracePair)
        BY <1>3, <4>1
      <4>3. ~IsFaulty(i, j) /\ Fill(i, j) = BracePair
        BY <3>4, <3>8 DEF IsFaulty, Fill
      <4>4. Fills(v, r, j)
        BY <1>6, <2>1, <3>6, <4>2, <4>3 DEF Fills, i
      <4> QED BY <3>6, <4>4 DEF IterationMoves, r
    <3>9. CASE token # Escape /\ value \notin {None, Unwritable}
      <4>1. r = Going(j + 1, value)
        BY <1>2, <2>1, <2>5, <3>3, <3>9
      <4>2. GoesTo(v, r, j + 1, value)
        BY <1>3, <4>1
      <4>3. ~IsFaulty(i, j) /\ Fill(i, j) = value
        BY <3>4, <3>7, <3>9 DEF IsFaulty, Fill
      <4>4. Fills(v, r, j)
        BY <1>6, <2>1, <3>6, <4>2, <4>3 DEF Fills, i
      <4> QED BY <3>6, <4>4 DEF IterationMoves, r
    <3>10. CASE token # Escape /\ value \in {None, Unwritable}
      <4>1. r = [v EXCEPT !.error = Fault(i, j)]
        <5>1. CASE value = None
          <6>1. r = [v EXCEPT !.error = "template.parameter.missing"]
            BY <1>0, <1>2, <2>1, <2>5, <3>10, <5>1
          <6> QED BY <3>7, <5>1, <6>1 DEF Fault
        <5>2. CASE value # None
          <6>1. r = [v EXCEPT !.error = "template.parameter.invalid"]
            BY <1>2, <2>1, <2>5, <3>10, <5>2
          <6> QED BY <3>7, <5>2, <6>1 DEF Fault
        <5> QED BY <5>1, <5>2
      <4>2. FailsWith(v, r, Fault(i, j))
        BY <1>4, <4>1
      <4>3. IsFaulty(i, j)
        BY <3>4, <3>7, <3>10 DEF IsFaulty
      <4>4. Stops(v, r, j)
        BY <1>6, <2>1, <3>6, <4>2, <4>3 DEF Stops, i
      <4> QED BY <3>6, <4>4 DEF IterationMoves, r
    <3> QED BY <3>8, <3>9, <3>10
  <2> QED BY <2>4, <2>5
<1> QED BY <1>1, <1>5, <1>6

LEMMA IterationTyped ==
  ASSUME text \in Seq(Symbol), NEW v \in Loops
  PROVE  Iteration(text, Values, v) \in Loops
<1> DEFINE r == Iteration(text, Values, v)
<1>1. IterationMoves(v, r)
  BY IterationIs
<1> HIDE DEF r
<1>2. v.i + 1 \in Nat \ {0} /\ Len(text) \in Nat
  BY DEF Loops
<1>3. Rests(v, r) => r \in Loops
  BY DEF Rests
<1>4. ASSUME Copies(v, r) PROVE r \in Loops
  <2>1. text[v.i] \in Symbol
    BY <1>4 DEF Copies
  <2>2. <<text[v.i]>> \in Seq(Full)
    BY <2>1 DEF Full
  <2> QED BY <1>2, <1>4, <2>2 DEF Copies, GoesTo
<1>5. ASSUME NEW j \in 1 .. Len(text), Fills(v, r, j) PROVE r \in Loops
  <2>1. j + 1 \in Nat \ {0}
    BY <1>2
  <2>2. Fill(v.i, j) \in Seq(Full)
    <3>1. LeftBrace \in Full
      BY SymbolAssumption DEF Full, Braces
    <3>2. BracePair \in Seq(Full)
      BY <3>1 DEF BracePair
    <3> QED BY <3>2, ValuesAreTexts DEF Fill
  <2> QED BY <1>5, <2>1, <2>2 DEF Fills, GoesTo
<1>6. ASSUME NEW j \in 1 .. Len(text), Stops(v, r, j) PROVE r \in Loops
  <2>1. Fault(v.i, j) \in Faults
    BY DEF Fault, Faults
  <2> QED BY <1>6, <2>1 DEF Stops, FailsWith
<1> QED BY <1>1, <1>3, <1>4, <1>5, <1>6 DEF IterationMoves, r

LEMMA StartIsALoop == Start \in Loops
<1>1. << >> \in Seq(Full)
  OBVIOUS
<1> QED BY <1>1 DEF Start, Loops

LEMMA LoopSteps ==
  ASSUME text \in Seq(Symbol)
  PROVE  /\ LoopAfter(text, Values) \in [0 .. Len(text) -> Loops]
         /\ LoopAfter(text, Values)[0] = Start
         /\ \A n \in 1 .. Len(text) : LoopAfter(text, Values)[n] = Iteration(text, Values, LoopAfter(text, Values)[n - 1])
<1> DEFINE N == Len(text)
           V == Loops
           Solves(f) == f = [n \in 0 .. N |-> IF n = 0 THEN Start ELSE Iteration(text, Values, f[n - 1])]
           after == CHOOSE f : Solves(f)
           step == [v_n \in V \X (1 .. N) |-> Iteration(text, Values, v_n[1])]
<1>1. N \in Nat /\ Start \in V
  BY StartIsALoop
<1>2. \A v \in V, n \in 1 .. N : Iteration(text, Values, v) \in V
  BY IterationTyped
<1> HIDE DEF V
<1>3. /\ step \in [V \X (1 .. N) -> V]
      /\ \A v \in V, n \in 1 .. N : step[<<v, n>>] = Iteration(text, Values, v)
  BY <1>2
<1> HIDE DEF step
<1>4. PICK f : Iterates(V, Start, step, N, f)
  BY <1>1, <1>3, FiniteSequenceExists
<1>5. Solves(f)
  <2>1. ASSUME NEW n \in 0 .. N
        PROVE  f[n] = IF n = 0 THEN Start ELSE Iteration(text, Values, f[n - 1])
    <3>1. CASE n = 0
      BY <1>4, <3>1 DEF Iterates
    <3>2. CASE n # 0
      <4>1. n \in 1 .. N /\ f[n - 1] \in V
        BY <1>1, <1>4, <3>2 DEF Iterates
      <4> QED BY <1>3, <1>4, <3>2, <4>1 DEF Iterates
    <3> QED BY <3>1, <3>2
  <2> QED BY <1>4, <2>1 DEF Iterates
<1>6. LoopAfter(text, Values) = after
  BY DEF LoopAfter, Start
<1> HIDE DEF Solves
<1>7. Solves(after)
  BY <1>5
<1> HIDE DEF after
<1>8. DOMAIN after = 0 .. N /\ after[0] = Start
      /\ \A n \in 1 .. N : after[n] = Iteration(text, Values, after[n - 1])
  BY <1>1, <1>7 DEF Solves
<1>9. \A n \in 0 .. N : after[n] \in V
  <2> DEFINE S == {n \in Nat : n <= N => after[n] \in V}
  <2>1. 0 \in S
    BY <1>1, <1>8
  <2>2. ASSUME NEW n \in Nat, n \in S PROVE n + 1 \in S
    <3> SUFFICES ASSUME n + 1 <= N PROVE after[n + 1] \in V
      OBVIOUS
    <3>1. after[n] \in V /\ n + 1 \in 1 .. N /\ (n + 1) - 1 = n
      BY <1>1, <2>2
    <3> QED BY <1>2, <1>8, <3>1
  <2>3. Nat \subseteq S
    <3> HIDE DEF S
    <3> QED BY <2>1, <2>2, SetInduction
  <2> QED BY <1>1, <2>3
<1>10. after \in [0 .. N -> V]
  <2>1. after = [n \in 0 .. N |-> after[n]]
    BY <1>7 DEF Solves
  <2> HIDE DEF after
  <2> QED BY <1>9, <2>1
<1> QED BY <1>6, <1>8, <1>10 DEF V

\* One text after another.
Flattening(B, seqs, f) ==
  /\ f \in [0 .. Len(seqs) -> Seq(B)] /\ f[0] = << >>
  /\ \A n \in 1 .. Len(seqs) : f[n] = f[n - 1] \o seqs[n]
  /\ FlattenSeq(seqs) = f[Len(seqs)]

LEMMA FlattenIs ==
  ASSUME NEW B, NEW seqs \in Seq(Seq(B))
  PROVE  \E f : Flattening(B, seqs, f)
<1> DEFINE N == Len(seqs)
           V == Seq(B)
           step == [v_n \in V \X (1 .. N) |-> v_n[1] \o seqs[v_n[2]]]
           Solves(h) == h = [i \in 1 .. N |-> IF i = 1 THEN seqs[i] ELSE h[i - 1] \o seqs[i]]
           h == CHOOSE g : Solves(g)
<1>1. N \in Nat /\ << >> \in V /\ \A n \in 1 .. N : seqs[n] \in V
  OBVIOUS
<1>2. \A v \in V, n \in 1 .. N : v \o seqs[n] \in V
  BY <1>1
<1>3. << >> \o seqs[1] = seqs[1] \/ N = 0
  BY <1>1
<1>4. FlattenSeq(seqs) = IF N = 0 THEN seqs ELSE h[N]
  BY DEF FlattenSeq
<1>5. N = 0 => seqs = << >>
  OBVIOUS
<1> HIDE DEF V, N
<1>6. step \in [V \X (1 .. N) -> V] /\ \A v \in V, n \in 1 .. N : step[<<v, n>>] = v \o seqs[n]
  BY <1>2
<1> HIDE DEF step
<1>7. PICK f : Iterates(V, << >>, step, N, f)
  BY <1>1, <1>6, FiniteSequenceExists
<1>8. f \in [0 .. N -> V] /\ f[0] = << >> /\ \A n \in 1 .. N : f[n] = f[n - 1] \o seqs[n]
  <2>1. f \in [0 .. N -> V] /\ f[0] = << >> /\ \A n \in 1 .. N : f[n] = step[<<f[n - 1], n>>]
    <3>1. f \in [0 .. N -> V]
          /\ \A n \in 0 .. N : f[n] = IF n = 0 THEN << >> ELSE step[<<f[n - 1], n>>]
      BY <1>7 DEF Iterates
    <3>2. 0 \in 0 .. N /\ \A n \in 1 .. N : n \in 0 .. N /\ n # 0
      BY <1>1
    <3> QED BY <3>1, <3>2
  <2>2. \A n \in 1 .. N : n - 1 \in 0 .. N
    BY <1>1
  <2> QED BY <1>6, <2>1, <2>2
<1>9. N # 0 => f[1] = seqs[1]
  <2> SUFFICES ASSUME N # 0 PROVE f[1] = seqs[1]
    OBVIOUS
  <2>1. 1 \in 1 .. N /\ 1 - 1 = 0
    BY <1>1
  <2> QED BY <1>3, <1>8, <2>1
<1>10. CASE N = 0
  BY <1>4, <1>5, <1>8, <1>10 DEF Flattening, V, N
<1>11. CASE N # 0
  <2> DEFINE g == [i \in 1 .. N |-> f[i]]
  <2>1. Solves(g)
    <3>1. ASSUME NEW i \in 1 .. N PROVE g[i] = IF i = 1 THEN seqs[i] ELSE g[i - 1] \o seqs[i]
      <4>1. CASE i = 1
        BY <1>9, <1>11, <4>1
      <4>2. CASE i # 1
        <5>1. i - 1 \in 1 .. N
          BY <1>1, <4>2
        <5> QED BY <1>8, <4>2, <5>1
      <4> QED BY <4>1, <4>2
    <3> QED BY <3>1
  <2> HIDE DEF Solves, g
  <2>2. Solves(h)
    BY <2>1
  <2> HIDE DEF h
  <2>3. \A i \in 1 .. N : h[i] = IF i = 1 THEN seqs[i] ELSE h[i - 1] \o seqs[i]
    BY <2>2 DEF Solves
  <2> DEFINE S == {d \in Nat : d + 1 <= N => h[d + 1] = f[d + 1]}
  <2>4. 0 \in S
    <3>1. 1 \in 1 .. N /\ 0 + 1 = 1
      BY <1>1, <1>11
    <3> QED BY <1>9, <1>11, <2>3, <3>1
  <2>5. ASSUME NEW d \in Nat, d \in S PROVE d + 1 \in S
    <3> DEFINE m == d + 1
    <3> SUFFICES ASSUME m + 1 <= N PROVE h[m + 1] = f[m + 1]
      OBVIOUS
    <3>1. m + 1 \in 1 .. N /\ m + 1 # 1 /\ (m + 1) - 1 = m /\ m <= N
      BY <1>1
    <3>2. h[m] = f[m]
      BY <2>5, <3>1
    <3> HIDE DEF m
    <3>3. h[m + 1] = h[(m + 1) - 1] \o seqs[m + 1]
      BY <2>3, <3>1
    <3>4. f[m + 1] = f[(m + 1) - 1] \o seqs[m + 1]
      BY <1>8, <3>1
    <3> QED BY <3>1, <3>2, <3>3, <3>4
  <2>6. Nat \subseteq S
    <3> HIDE DEF S
    <3> QED BY <2>4, <2>5, SetInduction
  <2>7. N - 1 \in Nat /\ (N - 1) + 1 = N /\ N <= N
    BY <1>1, <1>11
  <2>8. h[N] = f[N]
    BY <2>6, <2>7
  <2> QED BY <1>4, <1>8, <1>11, <2>8 DEF Flattening, V, N
<1> QED BY <1>10, <1>11

\* One placeholder begins at a place, and none begins inside it.
LEMMA OneClosing ==
  ASSUME text \in Seq(Symbol), NEW i \in 1 .. Len(text), NEW j \in 1 .. Len(text), Placeholder(i, j),
         NEW k \in 1 .. Len(text), NEW l \in 1 .. Len(text), Placeholder(k, l), i <= k, k <= j
  PROVE  k = i /\ l = j
<1>1. k = i
  BY Apart
<1>2. FirstClosing(text, i + 2, j - 1) /\ FirstClosing(text, i + 2, l - 1)
  BY <1>1, PlaceholderIs
<1>3. i + 2 \in Nat \ {0}
  OBVIOUS
<1>4. j - 1 = l - 1
  BY <1>2, <1>3, ClosingIsFirst
<1> QED BY <1>1, <1>4

Outside(i) ==
  \A k, l \in 1 .. Len(text) : Placeholder(k, l) /\ k < i => l < i
NoFaultBefore(i) ==
  \A k, l \in 1 .. Len(text) : Placeholder(k, l) /\ IsFaulty(k, l) => i <= k

LEMMA PlaceholdersAre ==
  ASSUME text \in Seq(Symbol)
  PROVE  /\ \A p \in Placeholders : p[1] \in 1 .. Len(text) /\ p[2] \in 1 .. Len(text)
                                    /\ Placeholder(p[1], p[2]) /\ p = <<p[1], p[2]>>
         /\ \A i, j \in 1 .. Len(text) : Placeholder(i, j) => <<i, j>> \in Placeholders
         /\ \A p : p \in Faulty <=> p \in Placeholders /\ IsFaulty(p[1], p[2])
<1>1. DOMAIN text = 1 .. Len(text)
  OBVIOUS
<1>2. \A p : p \in Placeholders <=>
               p \in (1 .. Len(text)) \X (1 .. Len(text)) /\ Placeholder(p[1], p[2])
  BY <1>1 DEF Placeholders
<1>3. \A p \in Placeholders : Token(<<p[1], p[2]>>) = Token(p)
  BY DEF Token
<1>4. \A p : p \in Faulty <=> p \in Placeholders /\ IsFaulty(p[1], p[2])
  BY <1>3 DEF Faulty, IsFaulty
<1> QED BY <1>2, <1>4

LEMMA FilledAt ==
  ASSUME text \in Seq(Symbol), NEW i \in 1 .. Len(text), NEW j \in 1 .. Len(text), Placeholder(i, j)
  PROVE  /\ Filled(i) = Fill(i, j)
         /\ \A k \in i + 1 .. j : Filled(k) = << >>
<1>1. <<i, j>> \in Placeholders /\ Len(text) \in Nat
  BY PlaceholdersAre
<1>2. \A q \in Placeholders : q[1] = i => q = <<i, j>>
  <2> TAKE q \in Placeholders
  <2> HAVE q[1] = i
  <2>1. /\ q[1] \in 1 .. Len(text) /\ q[2] \in 1 .. Len(text) /\ Placeholder(q[1], q[2])
        /\ q = <<q[1], q[2]>>
    BY PlaceholdersAre
  <2> DEFINE l == q[2]
  <2>2. l \in 1 .. Len(text) /\ Placeholder(i, l) /\ q = <<i, l>>
    BY <2>1
  <2> HIDE DEF l
  <2>3. i <= i /\ i <= j
    BY DEF Placeholder
  <2>4. l = j
    BY <2>2, <2>3, OneClosing
  <2> QED BY <2>2, <2>4
<1>3. (CHOOSE q \in Placeholders : q[1] = i) = <<i, j>>
  <2>1. <<i, j>>[1] = i
    OBVIOUS
  <2> QED BY <1>1, <1>2, <2>1
<1>4. \E p \in Placeholders : p[1] = i
  BY <1>1
<1>5. Filled(i) = LET p == <<i, j>> IN IF Token(p) = Escape THEN BracePair ELSE ValueAt(Values, Token(p))
  BY <1>3, <1>4 DEF Filled
<1>6. Filled(i) = Fill(i, j)
  BY <1>5 DEF Fill
<1>7. ASSUME NEW k \in i + 1 .. j PROVE Filled(k) = << >>
  <2>1. k \in 1 .. Len(text) /\ i <= k /\ k <= j /\ k # i /\ i < k
    BY <1>1
  <2>2. ~ \E p \in Placeholders : p[1] = k
    <3> SUFFICES ASSUME NEW p \in Placeholders, p[1] = k PROVE FALSE
      OBVIOUS
    <3> DEFINE l == p[2]
    <3>1. l \in 1 .. Len(text) /\ Placeholder(k, l)
      BY PlaceholdersAre
    <3> HIDE DEF l
    <3> QED BY <2>1, <3>1, OneClosing
  <2>3. \E p \in Placeholders : p[1] < k /\ k <= p[2]
    <3>1. <<i, j>>[1] = i /\ <<i, j>>[2] = j
      OBVIOUS
    <3> QED BY <1>1, <2>1, <3>1
  <2> QED BY <2>2, <2>3 DEF Filled
<1> QED BY <1>6, <1>7

LEMMA FilledFree ==
  ASSUME text \in Seq(Symbol), NEW i \in 1 .. Len(text), Outside(i),
         \A j \in 1 .. Len(text) : ~Placeholder(i, j)
  PROVE  Filled(i) = <<text[i]>>
<1>1. ~ \E p \in Placeholders : p[1] = i
  BY PlaceholdersAre
<1>2. ~ \E p \in Placeholders : p[1] < i /\ i <= p[2]
  <2> SUFFICES ASSUME NEW p \in Placeholders, p[1] < i, i <= p[2] PROVE FALSE
    OBVIOUS
  <2> DEFINE k == p[1]
             l == p[2]
  <2>1. k \in 1 .. Len(text) /\ l \in 1 .. Len(text) /\ Placeholder(k, l) /\ k < i /\ i <= l
    BY PlaceholdersAre
  <2> HIDE DEF k, l
  <2>2. l < i
    BY <2>1 DEF Outside
  <2> QED BY <2>1, <2>2
<1> QED BY <1>1, <1>2 DEF Filled

LEMMA FilledTyped ==
  ASSUME text \in Seq(Symbol), NEW i \in 1 .. Len(text)
  PROVE  Filled(i) \in Seq(Full)
<1>1. text[i] \in Full /\ LeftBrace \in Full
  BY SymbolAssumption DEF Full, Braces
<1>2. <<text[i]>> \in Seq(Full) /\ << >> \in Seq(Full) /\ BracePair \in Seq(Full)
  BY <1>1 DEF BracePair
<1> QED BY <1>2, ValuesAreTexts DEF Filled

\* After an iteration, what was written is what stands for the symbols that were
\* read, no placeholder is half read, and none that was read is at fault.
LoopInv(v, f, n) ==
  /\ v \in Loops /\ v.i \in 1 .. Len(text) + 1
  /\ v.out = f[v.i - 1]
  /\ Outside(v.i) /\ NoFaultBefore(v.i)
  /\ v.error = "none" => v.i > n \/ v.i = Len(text) + 1
  /\ v.error # "none" => \E j \in 1 .. Len(text) :
                           /\ v.i \in 1 .. Len(text) /\ Placeholder(v.i, j)
                           /\ IsFaulty(v.i, j) /\ v.error = Fault(v.i, j)

Fillings(f) ==
  /\ f \in [0 .. Len(text) -> Seq(Full)] /\ f[0] = << >>
  /\ \A n \in 1 .. Len(text) : f[n] = f[n - 1] \o Filled(n)

\* What is written over a placeholder stands for all of it.
LEMMA SumOver ==
  ASSUME text \in Seq(Symbol), NEW f, Fillings(f), NEW i \in 1 .. Len(text), NEW j \in 1 .. Len(text),
         Placeholder(i, j)
  PROVE  f[j] = f[i - 1] \o Fill(i, j)
<1> DEFINE N == Len(text)
           S == {d \in Nat : i + d <= j => f[i + d] = f[i]}
<1>1. N \in Nat /\ i <= j /\ j <= N
  BY DEF Placeholder
<1>2. f \in [0 .. N -> Seq(Full)] /\ \A n \in 1 .. N : f[n] = f[n - 1] \o Filled(n)
  BY DEF Fillings
<1>3. Filled(i) = Fill(i, j) /\ \A k \in i + 1 .. j : Filled(k) = << >>
  BY FilledAt
<1> HIDE DEF N
<1>4. 0 \in S
  BY <1>1
<1>5. ASSUME NEW d \in Nat, d \in S PROVE d + 1 \in S
  <2> DEFINE k == i + (d + 1)
  <2> SUFFICES ASSUME k <= j PROVE f[k] = f[i]
    OBVIOUS
  <2>1. k \in 1 .. N /\ k \in i + 1 .. j /\ k - 1 = i + d /\ i + d <= j /\ k - 1 \in 0 .. N
    BY <1>1
  <2>2. f[k - 1] = f[i]
    BY <1>5, <2>1
  <2> HIDE DEF k
  <2>3. f[k] = f[k - 1] \o << >>
    BY <1>2, <1>3, <2>1
  <2>4. f[k - 1] \in Seq(Full)
    BY <1>2, <2>1
  <2>5. f[k - 1] \o << >> = f[k - 1]
    BY <2>4
  <2> QED BY <2>2, <2>3, <2>5
<1>6. Nat \subseteq S
  <2> HIDE DEF S
  <2> QED BY <1>4, <1>5, SetInduction
<1>7. j - i \in Nat /\ i + (j - i) = j /\ j <= j
  BY <1>1
<1>8. f[j] = f[i]
  BY <1>6, <1>7
<1> QED BY <1>1, <1>2, <1>3, <1>8 DEF N

LEMMA LoopGoesOn ==
  ASSUME text \in Seq(Symbol), NEW f, Fillings(f), NEW n \in Nat, NEW v, LoopInv(v, f, n)
  PROVE  LoopInv(Iteration(text, Values, v), f, n + 1)
<1> DEFINE r == Iteration(text, Values, v)
           N == Len(text)
           i == v.i
<1>1. v \in Loops /\ i \in 1 .. N + 1 /\ v.out = f[i - 1] /\ Outside(i) /\ NoFaultBefore(i)
  BY DEF LoopInv
<1>2. v.error = "none" => i > n \/ i = N + 1
  BY DEF LoopInv
<1>3. N \in Nat
  OBVIOUS
<1>4. r \in Loops /\ IterationMoves(v, r)
  BY <1>1, IterationTyped, IterationIs
<1>5. \A m \in 1 .. N : f[m] = f[m - 1] \o Filled(m)
  BY DEF Fillings
<1> HIDE DEF r
<1>6. ASSUME Rests(v, r) PROVE LoopInv(r, f, n + 1)
  <2>1. r = v /\ (v.error = "none" => i > N)
    BY <1>6 DEF Rests
  <2>2. v.error = "none" => i = N + 1
    <3> HIDE DEF i, N
    <3> QED BY <1>1, <1>3, <2>1
  <2> QED BY <2>1, <2>2 DEF LoopInv
<1>7. ASSUME Copies(v, r) PROVE LoopInv(r, f, n + 1)
  <2>1. /\ i \in 1 .. N /\ v.error = "none" /\ \A j \in 1 .. N : ~Placeholder(i, j)
        /\ r.i = i + 1 /\ r.out = v.out \o <<text[i]>> /\ r.error = "none"
    BY <1>7 DEF Copies, GoesTo
  <2>2. Filled(i) = <<text[i]>>
    BY <1>1, <2>1, FilledFree
  <2>3. r.out = f[i]
    BY <1>1, <1>5, <2>1, <2>2
  <2> HIDE DEF i, N
  <2>4. i + 1 \in 1 .. N + 1 /\ (i + 1) - 1 = i /\ i > n /\ i + 1 > n + 1
    BY <1>1, <1>2, <1>3, <2>1
  <2>5. Outside(i + 1)
    <3> SUFFICES ASSUME NEW k \in 1 .. N, NEW l \in 1 .. N, Placeholder(k, l), k < i + 1 PROVE l < i + 1
      BY DEF Outside, N
    <3>1. k # i
      BY <2>1
    <3>2. k < i
      BY <1>3, <2>1, <3>1
    <3>3. l < i
      BY <1>1, <3>2 DEF Outside, N
    <3> QED BY <1>3, <2>1, <3>3
  <2>6. NoFaultBefore(i + 1)
    <3> SUFFICES ASSUME NEW k \in 1 .. N, NEW l \in 1 .. N, Placeholder(k, l), IsFaulty(k, l)
                 PROVE  i + 1 <= k
      BY DEF NoFaultBefore, N
    <3>1. k # i
      BY <2>1
    <3>2. i <= k
      BY <1>1 DEF NoFaultBefore, N
    <3> QED BY <1>3, <2>1, <3>1, <3>2
  <2> QED BY <1>4, <2>1, <2>3, <2>4, <2>5, <2>6 DEF LoopInv, N
<1>8. ASSUME NEW j \in 1 .. N, Fills(v, r, j) PROVE LoopInv(r, f, n + 1)
  <2>1. /\ i \in 1 .. N /\ v.error = "none" /\ Placeholder(i, j) /\ ~IsFaulty(i, j)
        /\ r.i = j + 1 /\ r.out = v.out \o Fill(i, j) /\ r.error = "none"
    BY <1>8 DEF Fills, GoesTo
  <2>2. r.out = f[j]
    <3> HIDE DEF i
    <3>1. f[j] = f[i - 1] \o Fill(i, j)
      BY <2>1, SumOver
    <3> QED BY <1>1, <2>1, <3>1
  <2>3. i + 3 <= j
    BY <2>1 DEF Placeholder
  <2>4. \A k, l \in 1 .. N : Placeholder(k, l) /\ i <= k /\ k <= j => k = i /\ l = j
    BY <2>1, OneClosing
  <2> HIDE DEF i, N
  <2>5. j + 1 \in 1 .. N + 1 /\ (j + 1) - 1 = j /\ j + 1 > n + 1
    BY <1>1, <1>2, <1>3, <2>1, <2>3
  <2>6. Outside(j + 1)
    <3> SUFFICES ASSUME NEW k \in 1 .. N, NEW l \in 1 .. N, Placeholder(k, l), k < j + 1 PROVE l < j + 1
      BY DEF Outside, N
    <3>1. CASE k < i
      <4>1. l < i
        BY <1>1, <3>1 DEF Outside, N
      <4> QED BY <1>3, <2>1, <2>3, <4>1
    <3>2. CASE ~(k < i)
      <4>1. i <= k /\ k <= j
        BY <1>3, <2>1, <3>2
      <4>2. l = j
        BY <2>4, <4>1
      <4> QED BY <1>3, <4>2
    <3> QED BY <3>1, <3>2
  <2>7. NoFaultBefore(j + 1)
    <3> SUFFICES ASSUME NEW k \in 1 .. N, NEW l \in 1 .. N, Placeholder(k, l), IsFaulty(k, l)
                 PROVE  j + 1 <= k
      BY DEF NoFaultBefore, N
    <3>1. i <= k
      BY <1>1 DEF NoFaultBefore, N
    <3>2. ~(k <= j)
      BY <2>1, <2>4, <3>1
    <3> QED BY <1>3, <3>2
  <2> QED BY <1>4, <2>1, <2>2, <2>5, <2>6, <2>7 DEF LoopInv, N
<1>9. ASSUME NEW j \in 1 .. N, Stops(v, r, j) PROVE LoopInv(r, f, n + 1)
  <2>1. /\ i \in 1 .. N /\ Placeholder(i, j) /\ IsFaulty(i, j)
        /\ r.i = i /\ r.out = v.out /\ r.error = Fault(i, j)
    BY <1>9 DEF Stops, FailsWith
  <2>2. Fault(i, j) # "none"
    BY DEF Fault
  <2> HIDE DEF i
  <2> QED BY <1>1, <1>4, <2>1, <2>2 DEF LoopInv, N
<1> QED BY <1>4, <1>6, <1>7, <1>8, <1>9 DEF IterationMoves, r

LEMMA LoopEnds ==
  ASSUME text \in Seq(Symbol), NEW f, Fillings(f)
  PROVE  LoopInv(LoopAfter(text, Values)[Len(text)], f, Len(text))
<1> DEFINE N == Len(text)
           L == LoopAfter(text, Values)
           S == {n \in Nat : n <= N => LoopInv(L[n], f, n)}
<1>1. N \in Nat
  OBVIOUS
<1>2. L[0] = Start /\ \A n \in 1 .. N : L[n] = Iteration(text, Values, L[n - 1])
  BY LoopSteps
<1> HIDE DEF L
<1>3. 0 \in S
  <2>1. Start.i = 1 /\ Start.out = << >> /\ Start.error = "none"
    BY DEF Start
  <2>2. f[1 - 1] = << >>
    BY DEF Fillings
  <2>3. Outside(1) /\ NoFaultBefore(1)
    BY DEF Outside, NoFaultBefore
  <2>4. 1 \in 1 .. N + 1 /\ 1 > 0
    BY <1>1
  <2>5. LoopInv(Start, f, 0)
    BY <2>1, <2>2, <2>3, <2>4, StartIsALoop DEF LoopInv
  <2> QED BY <1>2, <2>5
<1>4. ASSUME NEW n \in Nat, n \in S PROVE n + 1 \in S
  <2> SUFFICES ASSUME n + 1 <= N PROVE LoopInv(L[n + 1], f, n + 1)
    OBVIOUS
  <2>1. n + 1 \in 1 .. N /\ (n + 1) - 1 = n /\ n <= N
    BY <1>1
  <2>2. LoopInv(L[n], f, n)
    BY <1>4, <2>1
  <2>3. L[n + 1] = Iteration(text, Values, L[n])
    BY <1>2, <2>1
  <2>4. LoopInv(Iteration(text, Values, L[n]), f, n + 1)
    BY <2>2, LoopGoesOn
  <2> QED BY <2>3, <2>4
<1>5. Nat \subseteq S
  <2> HIDE DEF S
  <2> QED BY <1>3, <1>4, SetInduction
<1>6. LoopInv(L[N], f, N)
  BY <1>1, <1>5
<1> QED BY <1>6 DEF L

LEMMA SubstituteFillsExactly ==
  ASSUME text \in Seq(Symbol)
  PROVE  Substitute(text, Values) =
           IF Faulty = {} THEN Written(FlattenSeq([i \in DOMAIN text |-> Filled(i)]))
           ELSE LET first == CHOOSE p \in Faulty : \A q \in Faulty : p[1] <= q[1]
                IN Error(IF ValueAt(Values, Token(first)) = None THEN "template.parameter.missing"
                         ELSE "template.parameter.invalid")
<1> DEFINE N == Len(text)
           seqs == [i \in DOMAIN text |-> Filled(i)]
           v == LoopAfter(text, Values)[N]
           first == CHOOSE p \in Faulty : \A q \in Faulty : p[1] <= q[1]
<1>1. N \in Nat /\ DOMAIN text = 1 .. N
  OBVIOUS
<1>2. seqs \in Seq(Seq(Full)) /\ Len(seqs) = N /\ \A n \in 1 .. N : seqs[n] = Filled(n)
  <2>1. seqs = [i \in 1 .. N |-> Filled(i)]
    BY <1>1
  <2>2. \A i \in 1 .. N : Filled(i) \in Seq(Full)
    BY FilledTyped
  <2> HIDE DEF seqs, N
  <2> QED BY <1>1, <2>1, <2>2, IsASeq
<1> HIDE DEF seqs
<1>3. PICK f : Flattening(Full, seqs, f)
  BY <1>2, FlattenIs
<1>4. Fillings(f) /\ FlattenSeq(seqs) = f[N]
  BY <1>2, <1>3 DEF Flattening, Fillings
<1>5. LoopInv(v, f, N)
  BY <1>4, LoopEnds
<1>6. Substitute(text, Values) = IF v.error = "none" THEN Written(v.out) ELSE Error(v.error)
  BY DEF Substitute
<1> HIDE DEF v, N
<1>7. CASE v.error = "none"
  <2>1. v.i \in 1 .. N + 1 /\ v.out = f[v.i - 1] /\ NoFaultBefore(v.i) /\ (v.i > N \/ v.i = N + 1)
    BY <1>5, <1>7 DEF LoopInv, N
  <2>2. v.i = N + 1 /\ v.i - 1 = N
    BY <1>1, <2>1
  <2>3. Faulty = {}
    <3> SUFFICES ASSUME NEW p \in Faulty PROVE FALSE
      OBVIOUS
    <3> DEFINE k == p[1]
               l == p[2]
    <3>1. k \in 1 .. N /\ l \in 1 .. N /\ Placeholder(k, l) /\ IsFaulty(k, l)
      BY PlaceholdersAre DEF N
    <3> HIDE DEF k, l
    <3>2. v.i <= k
      BY <2>1, <3>1 DEF NoFaultBefore, N
    <3> QED BY <1>1, <2>2, <3>1, <3>2
  <2>4. Substitute(text, Values) = Written(FlattenSeq(seqs))
    BY <1>4, <1>6, <1>7, <2>1, <2>2
  <2> QED BY <2>3, <2>4 DEF seqs
<1>8. CASE v.error # "none"
  <2> DEFINE i == v.i
  <2>1. NoFaultBefore(i)
    BY <1>5 DEF LoopInv
  <2>2. PICK j \in 1 .. N : i \in 1 .. N /\ Placeholder(i, j) /\ IsFaulty(i, j) /\ v.error = Fault(i, j)
    BY <1>5, <1>8 DEF LoopInv, N
  <2> HIDE DEF i
  <2> DEFINE least == <<i, j>>
  <2>3. least \in Faulty /\ least[1] = i
    BY <2>2, PlaceholdersAre DEF N
  <2>4. \A q \in Faulty : i <= q[1] /\ (q[1] = i => q = least)
    <3> TAKE q \in Faulty
    <3> DEFINE k == q[1]
               l == q[2]
    <3>1. k \in 1 .. N /\ l \in 1 .. N /\ Placeholder(k, l) /\ IsFaulty(k, l) /\ q = <<k, l>>
      BY PlaceholdersAre DEF N
    <3> HIDE DEF k, l
    <3>2. i <= k
      BY <2>1, <3>1 DEF NoFaultBefore, N
    <3>3. ASSUME k = i PROVE l = j
      <4>1. i <= k /\ k <= j
        BY <1>1, <2>2, <3>3 DEF Placeholder
      <4> QED BY <2>2, <3>1, <4>1, OneClosing DEF N
    <3> QED BY <3>1, <3>2, <3>3 DEF k
  <2> HIDE DEF least
  <2>5. \A p \in Faulty : (\A q \in Faulty : p[1] <= q[1]) => p = least
    <3> TAKE p \in Faulty
    <3> HAVE \A q \in Faulty : p[1] <= q[1]
    <3> DEFINE k == p[1]
    <3>1. k \in 1 .. N
      BY PlaceholdersAre DEF N
    <3>2. k <= i /\ i <= k
      BY <2>3, <2>4
    <3> HIDE DEF k
    <3>3. k = i
      BY <1>1, <2>2, <3>1, <3>2
    <3> QED BY <2>4, <3>3 DEF k
  <2>6. first = least
    <3>1. least \in Faulty /\ \A q \in Faulty : least[1] <= q[1]
      BY <2>3, <2>4
    <3> QED BY <2>5, <3>1
  <2>7. Faulty # {}
    BY <2>3
  <2>8. Substitute(text, Values) =
          Error(IF ValueAt(Values, Token(first)) = None THEN "template.parameter.missing"
                ELSE "template.parameter.invalid")
    BY <1>6, <1>8, <2>2, <2>6 DEF Fault, least
  <2> QED BY <2>7, <2>8
<1> QED BY <1>7, <1>8

\* A payload comes out with its placeholders filled in and nothing else touched, or
\* not at all, at the first one without a text.
THEOREM FilledExactly == Spec => []SubstituteExact
<1>1. Answers => SubstituteExact
  <2> SUFFICES ASSUME Answers, Answered("substitute")
               PROVE  Result =
                 IF Faulty = {} THEN Written(FlattenSeq([i \in DOMAIN text |-> Filled(i)]))
                 ELSE LET first == CHOOSE p \in Faulty : \A q \in Faulty : p[1] <= q[1]
                      IN Error(IF ValueAt(Values, Token(first)) = None THEN "template.parameter.missing"
                               ELSE "template.parameter.invalid")
    BY DEF SubstituteExact
  <2>1. text \in Seq(Symbol) /\ Result = Substitute(text, Values)
    BY ContentsAssumption DEF Answers, Answered, Result
  <2> QED BY <2>1, SubstituteFillsExactly
<1> QED BY <1>1, AnswersHold, PTL
=============================================================================
