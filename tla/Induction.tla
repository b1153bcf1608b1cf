----------------------------- MODULE Induction -----------------------------
(***************************************************************************)
(* Induction over the naturals as the provers can use it.  The induction   *)
(* theorems of the library take a predicate as a parameter; here the       *)
(* predicate is the set where it holds, and the function a recursion       *)
(* defines is shown to exist for a step that is given as a function.       *)
(* WellFoundedInduction says what both rest on: every set of naturals has  *)
(* a least element.                                                        *)
(***************************************************************************)
EXTENDS Integers, WellFoundedInduction, TLAPS

LEMMA LeastNumber ==
    ASSUME NEW T, T \subseteq Nat, T # {}
    PROVE  \E n \in T : \A m \in T : n <= m
<1> DEFINE R == {pair \in Nat \X Nat : pair[1] < pair[2]}
<1>1. IsWellFoundedOn(R, Nat)
  BY NatLessThanWellFounded DEF OpToRel
<1>2. \A n, m \in Nat : <<m, n>> \in R <=> m < n
  OBVIOUS
<1> HIDE DEF R
<1>3. PICK n \in T : \A m \in T : <<m, n>> \notin R
  BY <1>1, WFMin
<1>4. ASSUME NEW m \in T PROVE n <= m
  <2>1. n \in Nat /\ m \in Nat
    OBVIOUS
  <2>2. ~ (m < n)
    BY <1>2, <1>3, <2>1
  <2> QED BY <2>1, <2>2
<1> QED BY <1>4

\* A set of numbers below a bound has a greatest.
LEMMA GreatestNumber ==
    ASSUME NEW b \in Nat, NEW T, T \subseteq 0 .. b, T # {}
    PROVE  \E n \in T : \A m \in T : m <= n
<1> DEFINE U == {k \in Nat : b - k \in T}
<1>1. U # {}
  <2>1. PICK m \in T : TRUE
    OBVIOUS
  <2>2. b - m \in Nat /\ b - (b - m) = m
    BY <2>1
  <2> QED BY <2>1, <2>2
<1>2. PICK k \in U : \A l \in U : k <= l
  BY <1>1, LeastNumber
<1>3. ASSUME NEW m \in T PROVE m <= b - k
  <2>1. b - m \in U
    OBVIOUS
  <2> QED BY <1>2, <2>1
<1> QED BY <1>2, <1>3

\* A set that has 0 and is closed under successor has every natural.
LEMMA SetInduction ==
    ASSUME NEW S, 0 \in S, \A n \in Nat : n \in S => n + 1 \in S
    PROVE  Nat \subseteq S
<1> SUFFICES ASSUME Nat \ S # {} PROVE FALSE
  OBVIOUS
<1>1. PICK n \in Nat \ S : \A m \in Nat \ S : n <= m
  BY LeastNumber
<1>2. n - 1 \in Nat /\ n - 1 \in S
  BY <1>1
<1> QED BY <1>1, <1>2

-----------------------------------------------------------------------------
\* A recursion on V: where it starts, and how it goes on.
Recursion(V, first, step) == first \in V /\ step \in [V \X Nat -> V]

Solution(V, first, step, f) ==
    /\ f \in [Nat -> V] /\ f[0] = first
    /\ \A k \in Nat : f[k + 1] = step[<<f[k], k + 1>>]

\* The first values, 0 to n, of the sequence that starts at first and goes on by step.
Begins(V, first, step, n, g) ==
    /\ g \in [0 .. n -> V] /\ g[0] = first
    /\ \A k \in Nat : k < n => g[k + 1] = step[<<g[k], k + 1>>]

LEMMA BeginningsExist ==
    ASSUME NEW V, NEW first, NEW step, Recursion(V, first, step)
    PROVE  \A n \in Nat : \E g : Begins(V, first, step, n, g)
<1> DEFINE S == {n \in Nat : \E g : Begins(V, first, step, n, g)}
<1>1. 0 \in S
  <2>1. Begins(V, first, step, 0, [i \in 0 .. 0 |-> first])
    BY DEF Begins, Recursion
  <2> QED BY <2>1
<1>2. ASSUME NEW n \in Nat, n \in S PROVE n + 1 \in S
  <2>1. PICK g : Begins(V, first, step, n, g)
    BY <1>2
  <2> DEFINE h == [i \in 0 .. n + 1 |-> IF i <= n THEN g[i] ELSE step[<<g[n], n + 1>>]]
  <2>2. g[n] \in V /\ step[<<g[n], n + 1>>] \in V
    BY <2>1 DEF Begins, Recursion
  <2>3. h \in [0 .. n + 1 -> V]
    BY <2>1, <2>2 DEF Begins
  <2>4. h[0] = first
    BY <2>1 DEF Begins
  <2>5. ASSUME NEW k \in Nat, k < n + 1 PROVE h[k + 1] = step[<<h[k], k + 1>>]
    <3>1. CASE k < n
      BY <2>1, <3>1 DEF Begins
    <3>2. CASE k = n
      <4>1. h[k] = g[n] /\ h[k + 1] = step[<<g[n], n + 1>>]
        BY <3>2
      <4> QED BY <3>2, <4>1
    <3> QED BY <2>5, <3>1, <3>2
  <2>6. Begins(V, first, step, n + 1, h)
    BY <2>3, <2>4, <2>5 DEF Begins
  <2> QED BY <2>6
<1> HIDE DEF S
<1>3. Nat \subseteq S
  BY <1>1, <1>2, SetInduction
<1> QED BY <1>3 DEF S

LEMMA BeginningsAgree ==
    ASSUME NEW V, NEW first, NEW step, NEW n \in Nat, NEW m \in Nat, n <= m, NEW g, NEW h,
           Begins(V, first, step, n, g), Begins(V, first, step, m, h)
    PROVE  \A k \in 0 .. n : g[k] = h[k]
<1> DEFINE S == {k \in Nat : k <= n => g[k] = h[k]}
<1>1. 0 \in S
  BY DEF Begins
<1>2. ASSUME NEW k \in Nat, k \in S PROVE k + 1 \in S
  <2>1. SUFFICES ASSUME k + 1 <= n PROVE g[k + 1] = h[k + 1]
    OBVIOUS
  <2>2. g[k] = h[k] /\ k < n /\ k < m
    BY <1>2, <2>1
  <2>3. g[k + 1] = step[<<g[k], k + 1>>] /\ h[k + 1] = step[<<h[k], k + 1>>]
    BY <2>2 DEF Begins
  <2> QED BY <2>2, <2>3
<1> HIDE DEF S
<1>3. Nat \subseteq S
  BY <1>1, <1>2, SetInduction
<1> QED BY <1>3 DEF S

\* Every recursion has a solution.
LEMMA RecursionExists ==
    ASSUME NEW V, NEW first, NEW step, Recursion(V, first, step)
    PROVE  \E f : Solution(V, first, step, f)
<1> DEFINE beginning(n) == CHOOSE g : Begins(V, first, step, n, g)
           f == [n \in Nat |-> beginning(n)[n]]
<1>1. \A n \in Nat : Begins(V, first, step, n, beginning(n))
  BY BeginningsExist
<1> HIDE DEF beginning
<1>2. f \in [Nat -> V] /\ f[0] = first
  BY <1>1 DEF Begins
<1>3. ASSUME NEW k \in Nat PROVE f[k + 1] = step[<<f[k], k + 1>>]
  <2>1. beginning(k + 1)[k + 1] = step[<<beginning(k + 1)[k], k + 1>>]
    <3>1. Begins(V, first, step, k + 1, beginning(k + 1)) /\ k < k + 1
      BY <1>1
    <3> QED BY <3>1 DEF Begins
  <2>2. beginning(k)[k] = beginning(k + 1)[k]
    <3> DEFINE g == beginning(k)
               h == beginning(k + 1)
    <3>1. Begins(V, first, step, k, g) /\ Begins(V, first, step, k + 1, h)
      BY <1>1
    <3> HIDE DEF g, h
    <3>2. k + 1 \in Nat /\ k <= k + 1 /\ k \in 0 .. k
      OBVIOUS
    <3> HIDE DEF f
    <3>3. \A j \in 0 .. k : g[j] = h[j]
      BY <3>1, <3>2, BeginningsAgree
    <3>4. g[k] = h[k]
      BY <3>2, <3>3
    <3> QED BY <3>4 DEF g, h
  <2> QED BY <2>1, <2>2
<1>4. Solution(V, first, step, f)
  BY <1>2, <1>3 DEF Solution
<1> QED BY <1>4

\* The form in which a recursive function on the naturals is written.
LEMMA SequenceExists ==
    ASSUME NEW V, NEW first, NEW step, Recursion(V, first, step)
    PROVE  \E f \in [Nat -> V] :
             \A n \in Nat : /\ n = 0 => f[n] = first
                            /\ n # 0 => n - 1 \in Nat /\ f[n] = step[<<f[n - 1], n>>]
<1>1. PICK f : Solution(V, first, step, f)
  BY RecursionExists
<1>2. ASSUME NEW n \in Nat, n # 0 PROVE n - 1 \in Nat /\ f[n] = step[<<f[n - 1], n>>]
  <2>1. n - 1 \in Nat /\ (n - 1) + 1 = n
    BY <1>2
  <2> QED BY <1>1, <2>1 DEF Solution
<1> QED BY <1>1, <1>2 DEF Solution

\* The same up to a bound.
Iterates(V, first, step, b, f) ==
  /\ f \in [0 .. b -> V]
  /\ \A n \in 0 .. b : f[n] = IF n = 0 THEN first ELSE step[<<f[n - 1], n>>]

LEMMA FiniteSequenceExists ==
    ASSUME NEW V, NEW first, first \in V, NEW b \in Nat, NEW step, step \in [V \X (1 .. b) -> V]
    PROVE  \E f : Iterates(V, first, step, b, f)
<1> DEFINE onward == [v_n \in V \X Nat |->
                        IF v_n[2] \in 1 .. b THEN step[v_n] ELSE v_n[1]]
<1>1. \A v \in V, n \in Nat : onward[<<v, n>>] = IF n \in 1 .. b THEN step[<<v, n>>] ELSE v
  OBVIOUS
<1>2. onward \in [V \X Nat -> V]
  OBVIOUS
<1> HIDE DEF onward
<1>3. PICK f \in [Nat -> V] :
        \A n \in Nat : /\ n = 0 => f[n] = first
                       /\ n # 0 => n - 1 \in Nat /\ f[n] = onward[<<f[n - 1], n>>]
  <2>1. Recursion(V, first, onward)
    BY <1>2 DEF Recursion
  <2> QED BY <2>1, SequenceExists
<1> DEFINE g == [n \in 0 .. b |-> f[n]]
<1>4. g \in [0 .. b -> V]
  OBVIOUS
<1>5. ASSUME NEW n \in 0 .. b
      PROVE  g[n] = IF n = 0 THEN first ELSE step[<<g[n - 1], n>>]
  <2>1. CASE n = 0
    BY <1>3, <2>1
  <2>2. CASE n # 0
    <3>1. n \in 1 .. b /\ n \in Nat /\ n - 1 \in 0 .. b /\ f[n - 1] \in V
      BY <2>2
    <3>2. f[n] = step[<<f[n - 1], n>>]
      BY <1>1, <1>3, <2>2, <3>1
    <3> QED BY <2>2, <3>1, <3>2
  <2> QED BY <2>1, <2>2
<1> HIDE DEF g
<1> QED BY <1>4, <1>5 DEF Iterates

-----------------------------------------------------------------------------
\* A search: whether a place that is accepted can be reached.  It need not come to
\* an end for there to be an answer; that it does is what makes the answer unique.
Search(S, ends, accepts, moves, f) ==
  /\ f \in [S -> BOOLEAN]
  /\ \A x \in S : f[x] <=> IF x \in ends THEN x \in accepts ELSE \E y \in moves[x] : f[y]

LEMMA SearchExists ==
    ASSUME NEW S, NEW ends, NEW accepts, NEW moves, moves \in [S -> SUBSET S]
    PROVE  \E f : Search(S, ends, accepts, moves, f)
<1> DEFINE Wins(T, x) == IF x \in ends THEN x \in accepts ELSE \E y \in moves[x] : y \in T
           Closed(T) == \A x \in S : Wins(T, x) => x \in T
           Least == {x \in S : \A T \in SUBSET S : Closed(T) => x \in T}
<1>1. \A T, U \in SUBSET S : T \subseteq U => \A x \in S : Wins(T, x) => Wins(U, x)
  OBVIOUS
<1> HIDE DEF Wins
<1>2. Closed(Least)
  <2> SUFFICES ASSUME NEW x \in S, Wins(Least, x), NEW T \in SUBSET S, Closed(T) PROVE x \in T
    OBVIOUS
  <2>1. Least \subseteq T /\ Least \in SUBSET S
    OBVIOUS
  <2> QED BY <1>1, <2>1
<1>3. \A x \in Least : Wins(Least, x)
  <2> DEFINE U == {x \in Least : Wins(Least, x)}
  <2>1. U \in SUBSET S /\ U \subseteq Least /\ Least \in SUBSET S
    OBVIOUS
  <2>2. Closed(U)
    <3> SUFFICES ASSUME NEW x \in S, Wins(U, x) PROVE x \in U
      OBVIOUS
    <3>1. Wins(Least, x)
      BY <1>1, <2>1
    <3>2. x \in Least
      <4> HIDE DEF Least
      <4> QED BY <1>2, <3>1
    <3> QED BY <3>1, <3>2
  <2>3. Least \subseteq U
    BY <2>1, <2>2
  <2> QED BY <2>3
<1> DEFINE f == [x \in S |-> x \in Least]
<1>4. f \in [S -> BOOLEAN]
  OBVIOUS
<1>5. ASSUME NEW x \in S
      PROVE  f[x] <=> IF x \in ends THEN x \in accepts ELSE \E y \in moves[x] : f[y]
  <2>1. x \in Least <=> Wins(Least, x)
    <3> HIDE DEF Least
    <3> QED BY <1>2, <1>3
  <2>2. moves[x] \subseteq S
    OBVIOUS
  <2>3. \A y \in S : f[y] <=> y \in Least
    OBVIOUS
  <2> HIDE DEF f, Least
  <2>4. (\E y \in moves[x] : f[y]) <=> \E y \in moves[x] : y \in Least
    BY <2>2, <2>3
  <2> QED BY <2>1, <2>3, <2>4, Zenon DEF Wins
<1>6. Search(S, ends, accepts, moves, f)
  <2> HIDE DEF f
  <2> QED BY <1>4, <1>5, Zenon DEF Search
<1> QED BY <1>6
=============================================================================
