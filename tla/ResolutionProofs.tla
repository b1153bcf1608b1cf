--------------------------- MODULE ResolutionProofs ---------------------------
(*************************************************************************)
(* For any resources, files, edits and requests: within one engine a     *)
(* request that was accepted is accepted again, with the same set; the   *)
(* verdict is exactly that of Acceptance, which knows no order of checks;*)
(* the defaults a template declares reach the workspace; and the types.  *)
(* The invariant says what a set owes to the index and to the cache,     *)
(* neither of which takes anything back: the files do not occur in it.   *)
(* Before it, versions and the index (Versions, Resources): precedence   *)
(* is a strict total order up to build metadata, an index holds one      *)
(* record of an identity at a version, and what is selected from it is   *)
(* the highest version the range admits.                                 *)
(*************************************************************************)
EXTENDS Acceptance, Induction, FiniteSetTheorems, FunctionTheorems, SequenceTheorems, TLAPS

-----------------------------------------------------------------------------
(* Precedence.                                                             *)

LEMMA IdentifierOrder ==
  /\ \A a \in Identifier : ~IdentifierLess(a, a)
  /\ \A a, b, c \in Identifier :
       IdentifierLess(a, b) /\ IdentifierLess(b, c) => IdentifierLess(a, c)
  /\ \A a, b \in Identifier : a = b \/ IdentifierLess(a, b) \/ IdentifierLess(b, a)
<1>1. \A a \in Identifier : ~IdentifierLess(a, a)
  BY DEF Identifier, IdentifierLess
<1>2. ASSUME NEW a \in Identifier, NEW b \in Identifier, NEW c \in Identifier,
             IdentifierLess(a, b), IdentifierLess(b, c)
      PROVE  IdentifierLess(a, c)
  BY <1>2 DEF Identifier, IdentifierLess
<1>3. ASSUME NEW a \in Identifier, NEW b \in Identifier
      PROVE  a = b \/ IdentifierLess(a, b) \/ IdentifierLess(b, a)
  BY DEF Identifier, IdentifierLess
<1> QED BY <1>1, <1>2, <1>3

LEMMA CoreOrder ==
  /\ \A a \in Core : ~CoreLess(a, a)
  /\ \A a, b, c \in Core : CoreLess(a, b) /\ CoreLess(b, c) => CoreLess(a, c)
  /\ \A a, b \in Core : a = b \/ CoreLess(a, b) \/ CoreLess(b, a)
BY DEF Core, CoreLess

LEMMA PreIrreflexive ==
  ASSUME NEW p \in Seq(Identifier)
  PROVE  ~PreLess(p, p)
<1> SUFFICES ASSUME PreLess(p, p) PROVE FALSE
  OBVIOUS
<1>1. PICK i \in 1..Len(p) : LowerAt(p, p, i)
  BY DEF PreLess
<1>2. p[i] \in Identifier /\ IdentifierLess(p[i], p[i])
  BY <1>1 DEF LowerAt
<1> QED BY <1>2, IdentifierOrder

\* Where both p and q, and q and r, part, p and r have parted at the first of the two.
LEMMA PreTransitive ==
  ASSUME NEW p \in Seq(Identifier), NEW q \in Seq(Identifier), NEW r \in Seq(Identifier),
         PreLess(p, q), PreLess(q, r)
  PROVE  PreLess(p, r)
<1>1. p # << >> /\ q # << >>
  BY DEF PreLess
<1>2. CASE r = << >>
  BY <1>1, <1>2 DEF PreLess
<1>3. CASE r # << >>
  <2>1. PICK i \in 1..Len(q) : i <= Len(p) + 1 /\ LowerAt(p, q, i)
    BY <1>1 DEF PreLess
  <2>2. PICK j \in 1..Len(r) : j <= Len(q) + 1 /\ LowerAt(q, r, j)
    BY <1>3 DEF PreLess
  <2>3. Len(p) \in Nat /\ Len(q) \in Nat /\ Len(r) \in Nat
    OBVIOUS
  <2>4. /\ \A k \in 1..(i - 1) : p[k] = q[k]
        /\ i <= Len(p) => IdentifierLess(p[i], q[i])
        /\ \A k \in 1..(j - 1) : q[k] = r[k]
        /\ j <= Len(q) => IdentifierLess(q[j], r[j])
    BY <2>1, <2>2 DEF LowerAt
  <2>5. CASE i < j
    <3>1. i \in 1..Len(r) /\ q[i] = r[i]
      BY <2>2, <2>3, <2>4, <2>5
    <3>2. LowerAt(p, r, i)
      BY <2>2, <2>4, <2>5, <3>1 DEF LowerAt
    <3> QED BY <1>1, <2>1, <3>1, <3>2 DEF PreLess
  <2>6. CASE i = j
    <3>1. i <= Len(p) => IdentifierLess(p[i], r[i])
      <4> SUFFICES ASSUME i <= Len(p) PROVE IdentifierLess(p[i], r[i])
        OBVIOUS
      <4>1. p[i] \in Identifier /\ q[i] \in Identifier /\ r[i] \in Identifier
        BY <2>2, <2>6
      <4>2. IdentifierLess(p[i], q[i]) /\ IdentifierLess(q[i], r[i])
        BY <2>4, <2>6
      <4> QED BY <4>1, <4>2, IdentifierOrder
    <3>2. LowerAt(p, r, i)
      BY <2>4, <2>6, <3>1 DEF LowerAt
    <3> QED BY <1>1, <2>1, <2>2, <2>6, <3>2 DEF PreLess
  <2>7. CASE j < i
    <3>1. j <= Len(p) /\ p[j] = q[j] /\ j <= Len(q)
      BY <2>1, <2>3, <2>4, <2>7
    <3>2. LowerAt(p, r, j)
      BY <2>1, <2>4, <2>7, <3>1 DEF LowerAt
    <3> QED BY <1>1, <2>2, <2>3, <3>1, <3>2 DEF PreLess
  <2> QED BY <2>5, <2>6, <2>7
<1> QED BY <1>2, <1>3

\* Two lists that differ do so first at some place, or one is over there.
LEMMA PreTotal ==
  ASSUME NEW p \in Seq(Identifier), NEW q \in Seq(Identifier), p # q
  PROVE  PreLess(p, q) \/ PreLess(q, p)
<1>1. CASE p = << >> \/ q = << >>
  BY <1>1 DEF PreLess
<1>2. CASE p # << >> /\ q # << >>
  <2> DEFINE Parted(k) == k = Len(p) + 1 \/ k = Len(q) + 1 \/ p[k] # q[k]
             T == {k \in Nat : k >= 1 /\ Parted(k)}
  <2>1. Len(p) \in Nat /\ Len(q) \in Nat
    OBVIOUS
  <2>2. Len(p) + 1 \in T
    BY <2>1
  <2>3. PICK k \in T : \A l \in T : k <= l
    BY <2>2, LeastNumber
  <2>4. k \in Nat /\ k >= 1 /\ Parted(k) /\ k <= Len(p) + 1
    BY <2>2, <2>3
  <2>5. \A l \in 1..(k - 1) : p[l] = q[l]
    BY <2>3, <2>4
  <2>6. k <= Len(q) + 1
    <3>1. Len(q) + 1 \in T
      BY <2>1
    <3> QED BY <2>3, <3>1
  <2> HIDE DEF T
  <2>7. CASE k <= Len(p) /\ k <= Len(q)
    <3>1. p[k] \in Identifier /\ q[k] \in Identifier /\ p[k] # q[k]
      BY <2>1, <2>4, <2>7
    <3>2. IdentifierLess(p[k], q[k]) \/ IdentifierLess(q[k], p[k])
      BY <3>1, IdentifierOrder
    <3>3. LowerAt(p, q, k) \/ LowerAt(q, p, k)
      BY <2>5, <3>2 DEF LowerAt
    <3> QED BY <1>2, <2>1, <2>4, <2>7, <3>3 DEF PreLess
  <2>8. CASE k = Len(p) + 1 /\ k <= Len(q)
    <3>1. LowerAt(p, q, k)
      BY <2>1, <2>5, <2>8 DEF LowerAt
    <3> QED BY <1>2, <2>1, <2>4, <2>8, <3>1 DEF PreLess
  <2>9. CASE k = Len(q) + 1 /\ k <= Len(p)
    <3>1. LowerAt(q, p, k)
      BY <2>1, <2>5, <2>9 DEF LowerAt
    <3> QED BY <1>2, <2>1, <2>4, <2>9, <3>1 DEF PreLess
  <2>10. CASE k = Len(p) + 1 /\ k = Len(q) + 1
    <3>1. Len(p) = Len(q) /\ \A l \in 1..Len(p) : p[l] = q[l]
      BY <2>1, <2>5, <2>10
    <3>2. p = q
      BY <3>1, SeqEqual
    <3> QED BY <3>2
  <2> QED BY <2>1, <2>4, <2>6, <2>7, <2>8, <2>9, <2>10
<1> QED BY <1>1, <1>2

\* Two versions are the same but for their build, or one of them precedes the other
\* and not the other way round; what precedes what precedes a version precedes it
\* (Version::operator< and ==).
THEOREM PrecedenceIsOrder ==
  /\ \A v \in Version : ~Less(v, v)
  /\ \A u, v, w \in Version : Less(u, v) /\ Less(v, w) => Less(u, w)
  /\ \A v, w \in Version : Less(v, w) \/ Less(w, v) <=> ~Same(v, w)
<1>1. \A v \in Version : v.core \in Core /\ v.pre \in Seq(Identifier)
  BY DEF Version
<1>2. \A v \in Version : ~Less(v, v)
  BY <1>1, CoreOrder, PreIrreflexive DEF Less
<1>3. ASSUME NEW u \in Version, NEW v \in Version, NEW w \in Version, Less(u, v), Less(v, w)
      PROVE  Less(u, w)
  <2>1. CASE CoreLess(u.core, w.core)
    BY <2>1 DEF Less
  <2>2. CASE ~CoreLess(u.core, w.core)
    <3>1. u.core = v.core /\ v.core = w.core
      BY <1>1, <1>3, <2>2, CoreOrder DEF Less
    <3>2. PreLess(u.pre, v.pre) /\ PreLess(v.pre, w.pre)
      BY <1>1, <1>3, <3>1, CoreOrder DEF Less
    <3> QED BY <1>1, <3>1, <3>2, PreTransitive DEF Less
  <2> QED BY <2>1, <2>2
<1>4. ASSUME NEW v \in Version, NEW w \in Version
      PROVE  Less(v, w) \/ Less(w, v) <=> ~Same(v, w)
  <2>1. CASE v.core # w.core
    BY <1>1, <2>1, CoreOrder DEF Less, Same
  <2>2. CASE v.core = w.core /\ v.pre # w.pre
    BY <1>1, <2>2, PreTotal DEF Less, Same
  <2>3. CASE v.core = w.core /\ v.pre = w.pre
    BY <1>1, <2>3, CoreOrder, PreIrreflexive DEF Less, Same
  <2> QED BY <2>1, <2>2, <2>3
<1> QED BY <1>2, <1>3, <1>4

-----------------------------------------------------------------------------
(* Ranges.                                                                 *)

\* What each comparator admits is the interval of the precedence that its comment
\* describes ("^0.2.3 => >=0.2.3 <0.3.0"), but for the pre-releases of the core it ends
\* before: those are left out too (VersionRange::satisfied_by).
THEOREM ComparatorsAreIntervals ==
  ASSUME NEW v \in Version, NEW clause \in Clause
  PROVE  Admits(clause, v) <=> Within(clause, v)
<1> DEFINE bound == clause.bound
           x == v.core[1]  y == v.core[2]  z == v.core[3]
           a == bound.core[1]  b == bound.core[2]  c == bound.core[3]
<1>1. /\ bound \in Version /\ clause.op \in Op
      /\ x \in Nat /\ y \in Nat /\ z \in Nat /\ a \in Nat /\ b \in Nat /\ c \in Nat
  BY DEF Clause, Version, Core
<1> HIDE DEF bound
<1>2. ~Less(v, bound) <=> AtLeast(v, bound)
  <2>1. /\ Less(v, bound) \/ Less(bound, v) <=> ~Same(v, bound)
        /\ ~(Less(v, bound) /\ Less(bound, v))
    BY <1>1, PrecedenceIsOrder
  <2>2. Same(v, bound) => ~Less(v, bound)
    BY <2>1
  <2> QED BY <2>1, <2>2 DEF AtLeast
<1>3. ~Less(bound, v) <=> AtLeast(bound, v)
  <2>1. /\ Less(v, bound) \/ Less(bound, v) <=> ~Same(bound, v)
        /\ ~(Less(v, bound) /\ Less(bound, v))
    BY <1>1, PrecedenceIsOrder
  <2> QED BY <2>1 DEF AtLeast
<1>4. AtLeast(v, bound) =>
        a < x \/ (a = x /\ b < y) \/ (a = x /\ b = y /\ c <= z)
  BY <1>1 DEF AtLeast, Less, Same, CoreLess
<1>5. /\ CoreLess(v.core, Beyond("caret", bound.core)) <=>
           IF a > 0 THEN x < a + 1
           ELSE IF b > 0 THEN x < 0 \/ (x = 0 /\ y < b + 1)
           ELSE x < 0 \/ (x = 0 /\ y < 0) \/ (x = 0 /\ y = 0 /\ z < c + 1)
      /\ CoreLess(v.core, Beyond("tilde", bound.core)) <=> x < a \/ (x = a /\ y < b + 1)
  <2>1. Beyond("tilde", bound.core) = <<a, b + 1, 0>>
    BY DEF Beyond
  <2>2. Beyond("caret", bound.core) = IF a > 0 THEN <<a + 1, 0, 0>>
                                      ELSE IF b > 0 THEN <<0, b + 1, 0>> ELSE <<0, 0, c + 1>>
    BY <1>1 DEF Beyond
  <2> QED BY <1>1, <2>1, <2>2 DEF CoreLess
<1>6. CaretBoundary(v, bound) <=> x = a /\ (a = 0 => y = b) /\ (a = 0 /\ b = 0 => z = c)
  BY DEF CaretBoundary
<1>7. ASSUME AtLeast(v, bound)
      PROVE  /\ CaretBoundary(v, bound) <=> CoreLess(v.core, Beyond("caret", bound.core))
             /\ x = a /\ y = b <=> CoreLess(v.core, Beyond("tilde", bound.core))
  <2> HIDE DEF x, y, z, a, b, c
  <2> QED BY <1>1, <1>4, <1>5, <1>6, <1>7
<1>8. /\ clause.op = "eq" => (Admits(clause, v) <=> Same(v, bound))
      /\ clause.op = "gt" => (Admits(clause, v) <=> Less(bound, v))
      /\ clause.op = "lte" => (Admits(clause, v) <=> AtLeast(bound, v))
      /\ clause.op = "gte" => (Admits(clause, v) <=> AtLeast(v, bound))
      /\ clause.op = "lt" => (Admits(clause, v) <=> Less(v, bound))
      /\ clause.op = "caret" => (Admits(clause, v) <=> ~Less(v, bound) /\ CaretBoundary(v, bound))
      /\ clause.op = "tilde" => (Admits(clause, v) <=> ~Less(v, bound) /\ x = a /\ y = b)
  BY DEF Admits, bound
<1>9. /\ clause.op = "eq" => (Within(clause, v) <=> Same(v, bound))
      /\ clause.op = "gt" => (Within(clause, v) <=> Less(bound, v))
      /\ clause.op = "lte" => (Within(clause, v) <=> ~Less(bound, v))
      /\ clause.op = "gte" => (Within(clause, v) <=> ~Less(v, bound))
      /\ clause.op = "lt" => (Within(clause, v) <=> Less(v, bound))
      /\ clause.op \in {"caret", "tilde"} =>
           (Within(clause, v) <=>
              ~Less(v, bound) /\ CoreLess(v.core, Beyond(clause.op, bound.core)))
  BY DEF Within, bound
<1> HIDE DEF x, y, a, b
<1> QED BY <1>1, <1>2, <1>3, <1>7, <1>8, <1>9 DEF Op

\* What is read of a token is a version, and of a range its clauses.
LEMMA ParsedIsVersion ==
  ASSUME NEW token \in Token, Parse(token) # NoVersion
  PROVE  Parse(token) \in Version
<1>1. /\ token.parts \in Seq(Nat) /\ token.pre \in Seq(Identifier) /\ token.build \in Nat
      /\ Len(token.parts) = 3
      /\ Parse(token) = [core |-> <<token.parts[1], token.parts[2], token.parts[3]>>,
                         pre |-> token.pre, build |-> token.build]
  BY DEF Parse, Token
<1>2. token.parts[1] \in Nat /\ token.parts[2] \in Nat /\ token.parts[3] \in Nat
  BY <1>1
<1> QED BY <1>1, <1>2 DEF Version, Core

LEMMA PaddedIsToken ==
  ASSUME NEW token \in Token
  PROVE  Padded(token) \in Token
<1> DEFINE short == IF Len(token.parts) < 3 THEN 3 - Len(token.parts) ELSE 0
           zeros == [i \in 1..short |-> 0]
<1>1. token.parts \in Seq(Nat) /\ Len(token.parts) \in Nat
  BY DEF Token
<1>2. short \in Nat
  BY <1>1
<1> HIDE DEF short
<1>3. zeros \in Seq(Nat)
  BY <1>2
<1>4. Padded(token) = [token EXCEPT !.parts = token.parts \o zeros]
  BY DEF Padded, short
<1> HIDE DEF zeros
<1>5. token.parts \o zeros \in Seq(Nat)
  BY <1>1, <1>3
<1> QED BY <1>4, <1>5 DEF Token

LEMMA ParsedIsRange ==
  ASSUME NEW written \in WrittenRange, ParseRange(written) # NoRange
  PROVE  /\ ParseRange(written) \in VersionRange
         /\ ParseRange(written) = << >> <=> written = << >>
<1> DEFINE range == ParseRange(written)
           Bound(i) == Parse(Padded(written[i].token))
<1>1. /\ Len(written) \in Nat /\ DOMAIN written = 1..Len(written)
      /\ \A i \in 1..Len(written) : written[i].op \in Op /\ written[i].token \in Token
  <2> DEFINE Piece == [op : Op, token : Token]
  <2>1. \A piece \in Piece : piece.op \in Op /\ piece.token \in Token
    OBVIOUS
  <2> HIDE DEF Piece
  <2>2. written \in Seq(Piece)
    BY DEF WrittenRange, Piece
  <2>3. /\ Len(written) \in Nat /\ DOMAIN written = 1..Len(written)
        /\ \A i \in 1..Len(written) : written[i] \in Piece
    BY <2>2
  <2> QED BY <2>1, <2>3
<1>2. \A i \in 1..Len(written) : Bound(i) # NoVersion
  BY <1>1 DEF ParseRange
<1>3. range = [i \in 1..Len(written) |-> [op |-> written[i].op, bound |-> Bound(i)]]
  BY <1>1 DEF ParseRange
<1>4. ASSUME NEW i \in 1..Len(written) PROVE Bound(i) \in Version
  <2>1. Padded(written[i].token) \in Token
    BY <1>1, PaddedIsToken
  <2> QED BY <1>2, <2>1, ParsedIsVersion
<1> HIDE DEF range, Bound
<1>5. \A i \in 1..Len(written) : range[i] \in Clause
  BY <1>1, <1>3, <1>4 DEF Clause
<1>6. range \in Seq(Clause) /\ Len(range) = Len(written)
  BY <1>1, <1>3, <1>5
<1>7. written \in Seq([op : Op, token : Token])
  BY DEF WrittenRange
<1>8. range = << >> <=> Len(range) = 0
  BY <1>6
<1>9. written = << >> <=> Len(written) = 0
  BY <1>7
<1> QED BY <1>6, <1>8, <1>9 DEF range, VersionRange

\* The versions a range admits are those it denotes (VersionRange::satisfied_by).
THEOREM RangesDenote ==
  ASSUME NEW written \in WrittenRange, ParseRange(written) # NoRange, NEW v \in Version
  PROVE  SatisfiedBy(ParseRange(written), v) <=> InRange(v, written)
<1> DEFINE range == ParseRange(written)
<1>1. range \in Seq(Clause) /\ (range = << >> <=> written = << >>)
  BY ParsedIsRange DEF VersionRange
<1>2. \A i \in DOMAIN range : Admits(range[i], v) <=> Within(range[i], v)
  <2>1. \A i \in DOMAIN range : range[i] \in Clause
    BY <1>1
  <2> QED BY <2>1, ComparatorsAreIntervals
<1>3. Invites(range, v) <=>
        v.core \in {range[i].bound.core : i \in {j \in DOMAIN range : range[j].bound.pre # << >>}}
  BY DEF Invites, IsPrerelease
<1> HIDE DEF range
<1>4. SatisfiedBy(range, v) <=>
        range = << >> \/ /\ v.pre # << >> => Invites(range, v)
                         /\ \A i \in DOMAIN range : Admits(range[i], v)
  BY DEF SatisfiedBy, IsPrerelease
<1> QED BY <1>1, <1>2, <1>3, <1>4 DEF InRange, range

-----------------------------------------------------------------------------
(* Selecting.                                                              *)

\* Finitely many records of one identity: no two at one version.
Distinct(S) ==
  /\ IsFiniteSet(S)
  /\ \A r \in S : r.version \in Version
  /\ \A r, s \in S : Same(r.version, s.version) => r = s

Descending(s) == \A i, j \in DOMAIN s : i < j => Less(s[j].version, s[i].version)

Sorted(S, s) == s \in [1..Cardinality(S) -> S] /\ Descending(s)

LEMMA DistinctSubset ==
  ASSUME NEW S, Distinct(S), NEW T \in SUBSET S
  PROVE  Distinct(T)
BY FS_Subset DEF Distinct

LEMMA LowestExists ==
  \A S : Distinct(S) /\ S # {} =>
          \E m \in S : \A r \in S \ {m} : Less(m.version, r.version)
<1> DEFINE HasLowest(S) == \E m \in S : \A r \in S \ {m} : Less(m.version, r.version)
           N == {n \in Nat : \A S : Distinct(S) /\ Cardinality(S) = n + 1 => HasLowest(S)}
<1>1. 0 \in N
  <2> SUFFICES ASSUME NEW S, Distinct(S), Cardinality(S) = 0 + 1 PROVE HasLowest(S)
    OBVIOUS
  <2>1. IsFiniteSet(S) /\ Cardinality(S) = 1
    BY DEF Distinct
  <2>2. PICK x : S = {x}
    BY <2>1, FS_Singleton
  <2> QED BY <2>2
<1>2. ASSUME NEW n \in Nat, n \in N PROVE n + 1 \in N
  <2> SUFFICES ASSUME NEW S, Distinct(S), Cardinality(S) = (n + 1) + 1 PROVE HasLowest(S)
    OBVIOUS
  <2>1. IsFiniteSet(S) /\ S # {}
    BY FS_EmptySet DEF Distinct
  <2>2. PICK x \in S : TRUE
    BY <2>1
  <2> DEFINE T == S \ {x}
  <2>3. Distinct(T) /\ Cardinality(T) = n + 1
    BY <2>1, <2>2, DistinctSubset, FS_RemoveElement
  <2>4. HasLowest(T)
    BY <1>2, <2>3
  <2>5. PICK m \in T : \A r \in T \ {m} : Less(m.version, r.version)
    BY <2>4
  <2>6. x \in S /\ m \in S /\ x # m /\ x.version \in Version /\ m.version \in Version
        /\ \A r \in S : r.version \in Version
    BY <2>2 DEF Distinct
  <2>7. Less(x.version, m.version) \/ Less(m.version, x.version)
    BY <2>6, PrecedenceIsOrder DEF Distinct
  <2>8. CASE Less(m.version, x.version)
    BY <2>5, <2>6, <2>8
  <2>9. CASE Less(x.version, m.version)
    <3>1. \A r \in S \ {x} : Less(x.version, r.version)
      <4> SUFFICES ASSUME NEW r \in T PROVE Less(x.version, r.version)
        OBVIOUS
      <4>1. r = m \/ Less(m.version, r.version)
        BY <2>5
      <4> QED BY <2>6, <2>9, <4>1, PrecedenceIsOrder
    <3> QED BY <2>6, <3>1
  <2> QED BY <2>7, <2>8, <2>9
<1> HIDE DEF N
<1>3. Nat \subseteq N
  BY <1>1, <1>2, SetInduction
<1>4. ASSUME NEW S, Distinct(S), S # {} PROVE HasLowest(S)
  <2>1. Cardinality(S) \in Nat /\ Cardinality(S) # 0
    BY <1>4, FS_CardinalityType, FS_EmptySet DEF Distinct
  <2>2. Cardinality(S) - 1 \in N /\ (Cardinality(S) - 1) + 1 = Cardinality(S)
    BY <1>3, <2>1
  <2> QED BY <1>4, <2>2 DEF N
<1> QED BY <1>4

\* Distinct records can be listed, highest version first.
LEMMA SortedExists ==
  \A S : Distinct(S) => \E s : Sorted(S, s)
<1> DEFINE N == {n \in Nat : \A S : Distinct(S) /\ Cardinality(S) = n => \E s : Sorted(S, s)}
<1>1. 0 \in N
  <2> SUFFICES ASSUME NEW S, Distinct(S), Cardinality(S) = 0 PROVE \E s : Sorted(S, s)
    OBVIOUS
  <2>1. Sorted(S, << >>)
    BY DEF Sorted, Descending
  <2> QED BY <2>1
<1>2. ASSUME NEW n \in Nat, n \in N PROVE n + 1 \in N
  <2> SUFFICES ASSUME NEW S, Distinct(S), Cardinality(S) = n + 1 PROVE \E s : Sorted(S, s)
    OBVIOUS
  <2>1. IsFiniteSet(S) /\ S # {}
    BY FS_EmptySet DEF Distinct
  <2>2. PICK m \in S : \A r \in S \ {m} : Less(m.version, r.version)
    BY <2>1, LowestExists
  <2>3. Distinct(S \ {m}) /\ Cardinality(S \ {m}) = n
    <3>1. Cardinality(S \ {m}) = Cardinality(S) - 1
      BY <2>1, FS_RemoveElement
    <3> QED BY <3>1, DistinctSubset
  <2>4. PICK s : Sorted(S \ {m}, s)
    BY <1>2, <2>3
  <2> DEFINE t == [i \in 1..(n + 1) |-> IF i = n + 1 THEN m ELSE s[i]]
  <2>5. s \in [1..n -> S \ {m}] /\ Descending(s)
    BY <2>3, <2>4 DEF Sorted
  <2>6. t \in [1..(n + 1) -> S]
    BY <2>5
  <2>7. ASSUME NEW i \in 1..(n + 1), NEW j \in 1..(n + 1), i < j
        PROVE  Less(t[j].version, t[i].version)
    <3>1. i \in 1..n /\ t[i] = s[i] /\ s[i] \in S \ {m}
      BY <2>5, <2>7
    <3>2. CASE j = n + 1
      BY <2>2, <3>1, <3>2
    <3>3. CASE j # n + 1
      <4>1. j \in 1..n /\ t[j] = s[j]
        BY <3>3
      <4> QED BY <2>5, <2>7, <3>1, <4>1 DEF Descending
    <3> QED BY <3>2, <3>3
  <2>8. Sorted(S, t)
    BY <2>6, <2>7 DEF Sorted, Descending
  <2> QED BY <2>8
<1> HIDE DEF N
<1>3. Nat \subseteq N
  BY <1>1, <1>2, SetInduction
<1>4. ASSUME NEW S, Distinct(S) PROVE \E s : Sorted(S, s)
  <2>1. Cardinality(S) \in N
    BY <1>3, <1>4, FS_CardinalityType DEF Distinct
  <2> QED BY <1>4, <2>1 DEF N
<1> QED BY <1>4

\* What an index is: finitely many records, one of an identity at a version.
IndexHolds(rs) ==
  /\ IsFiniteSet(rs)
  /\ \A r \in rs : r.version \in Version
  /\ \A r, s \in rs : SameClaim(r, s) => r = s

\* The versions of an identity are its records, all of them, highest first.
LEMMA VersionsListed ==
  ASSUME NEW rs, IndexHolds(rs), NEW id
  PROVE  LET named == {r \in rs : r.id = id}
             versions == VersionsAmong(rs, id)
         IN /\ Cardinality(named) \in Nat
            /\ versions \in [1..Cardinality(named) -> named]
            /\ Descending(versions)
            /\ \A r \in named : \E i \in 1..Cardinality(named) : versions[i] = r
<1> DEFINE named == {r \in rs : r.id = id}
           n == Cardinality(named)
           v == VersionsAmong(rs, id)
<1>1. Distinct(named)
  <2>1. IsFiniteSet(named)
    BY FS_Subset DEF IndexHolds
  <2> QED BY <2>1 DEF IndexHolds, Distinct, SameClaim
<1>2. n \in Nat /\ IsFiniteSet(named)
  BY <1>1, FS_CardinalityType DEF Distinct
<1>3. v = CHOOSE s : Sorted(named, s)
  BY DEF VersionsAmong, Sorted, Descending
<1>4. Sorted(named, v)
  BY <1>1, <1>3, SortedExists
<1>5. v \in [1..n -> named] /\ Descending(v)
  BY <1>4 DEF Sorted
<1> HIDE DEF v
<1>6. v \in Injection(1..n, named)
  <2>1. ASSUME NEW i \in 1..n, NEW j \in 1..n, v[i] = v[j] PROVE i = j
    <3>1. v[i] \in named /\ v[i].version \in Version
      BY <1>1, <1>5 DEF Distinct
    <3>2. ~(i < j) /\ ~(j < i)
      BY <1>5, <2>1, <3>1, PrecedenceIsOrder DEF Descending
    <3> QED BY <1>2, <3>2
  <2> QED BY <1>5, <2>1 DEF Injection, IsInjective
<1>7. v \in Surjection(1..n, named)
  <2>1. IsFiniteSet(1..n) /\ Cardinality(1..n) = n
    BY <1>2, FS_Interval
  <2> QED BY <1>2, <1>6, <2>1, FS_Injection
<1>8. \A r \in named : \E i \in 1..n : v[i] = r
  BY <1>7 DEF Surjection
<1> QED BY <1>2, <1>5, <1>8 DEF v

\* What is selected is the highest version of the identity that the range admits,
\* and nothing exactly where it admits none (ResourceIndex::select; 2.8.2).
THEOREM SelectedIsHighest ==
  ASSUME NEW rs, IndexHolds(rs), NEW id, NEW range
  PROVE  LET admitted == {r \in rs : r.id = id /\ SatisfiedBy(range, r.version)}
             chosen == SelectAmong(rs, id, range)
         IN IF admitted = {} THEN chosen = NoRecord
            ELSE /\ chosen \in admitted
                 /\ \A r \in admitted \ {chosen} : Less(r.version, chosen.version)
<1> DEFINE named == {r \in rs : r.id = id}
           n == Cardinality(named)
           v == VersionsAmong(rs, id)
           admitted == {r \in rs : r.id = id /\ SatisfiedBy(range, r.version)}
           at == {i \in DOMAIN v : SatisfiedBy(range, v[i].version)}
           chosen == SelectAmong(rs, id, range)
<1>1. /\ n \in Nat /\ v \in [1..n -> named] /\ Descending(v)
      /\ \A r \in named : \E i \in 1..n : v[i] = r
  BY VersionsListed
<1>2. chosen = IF at = {} THEN NoRecord ELSE v[CHOOSE i \in at : \A j \in at : i <= j]
  BY DEF SelectAmong
<1> HIDE DEF v, chosen, n
<1>3. \A i \in at : v[i] \in admitted
  BY <1>1
<1>4. \A r \in admitted : \E i \in at : v[i] = r
  BY <1>1
<1>5. CASE at = {}
  BY <1>2, <1>4, <1>5 DEF chosen
<1>6. CASE at # {}
  <2>1. at \subseteq Nat
    BY <1>1
  <2> DEFINE k == CHOOSE i \in at : \A j \in at : i <= j
  <2>2. k \in at /\ \A j \in at : k <= j
    BY <1>6, <2>1, LeastNumber
  <2>3. chosen = v[k]
    BY <1>2, <1>6
  <2> HIDE DEF k
  <2>4. ASSUME NEW r \in admitted \ {chosen} PROVE Less(r.version, chosen.version)
    <3>1. PICK i \in at : v[i] = r
      BY <1>4
    <3>2. i # k /\ i \in Nat /\ k \in Nat /\ k <= i
      BY <2>1, <2>2, <2>3, <3>1
    <3> QED BY <1>1, <2>2, <2>3, <3>1, <3>2 DEF Descending
  <2>5. chosen \in admitted
    BY <1>3, <2>2, <2>3
  <2> QED BY <2>4, <2>5 DEF chosen
<1> QED BY <1>5, <1>6

-----------------------------------------------------------------------------
(* Indexing.                                                               *)

\* Whatever the candidates, what they are indexed as is an index.
LEMMA RecordsHold ==
  ASSUME NEW candidates \in Seq(Locations), NEW manifest,
         \A l \in Locations : manifest[l] # Unreadable => manifest[l].version \in Token
  PROVE  /\ IndexHolds(RecordsOf(candidates, manifest))
         /\ \A r \in RecordsOf(candidates, manifest) :
              /\ r.at \in Locations /\ manifest[r.at] # Unreadable
              /\ r = RecordOf(r.at, manifest[r.at])
<1> DEFINE C(i) == Claim(candidates, manifest, i)
           first == FirstClaims(candidates, manifest)
           rs == RecordsOf(candidates, manifest)
<1>1. /\ first \subseteq 1..Len(candidates) /\ Len(candidates) \in Nat
      /\ \A i \in first : candidates[i] \in Locations /\ Indexable(manifest[candidates[i]])
  BY DEF FirstClaims, ClaimPositions
<1>2. rs = {C(i) : i \in first}
  BY DEF RecordsOf
<1>3. IsFiniteSet(rs)
  <2> DEFINE f == [i \in first |-> C(i)]
  <2> HIDE DEF C, first, rs
  <2>1. f \in Surjection(first, rs)
    BY <1>2 DEF Surjection
  <2>2. IsFiniteSet(first)
    <3>1. IsFiniteSet(1..Len(candidates))
      BY <1>1, FS_Interval
    <3> QED BY <1>1, <3>1, FS_Subset
  <2> QED BY <2>1, <2>2, FS_Surjection
<1>4. ASSUME NEW i \in first PROVE C(i).version \in Version /\ C(i).at \in Locations
  <2> DEFINE m == manifest[candidates[i]]
  <2>1. candidates[i] \in Locations /\ m # Unreadable /\ Parse(m.version) # NoVersion
    BY <1>1 DEF Indexable
  <2>2. m.version \in Token
    BY <2>1
  <2>3. C(i).version = Parse(m.version) /\ C(i).at = candidates[i]
    BY DEF Claim, RecordOf
  <2> HIDE DEF m
  <2>4. /\ Parse(m.version) =
             [core |-> <<m.version.parts[1], m.version.parts[2], m.version.parts[3]>>,
              pre |-> m.version.pre, build |-> m.version.build]
        /\ Len(m.version.parts) = 3
    BY <2>1 DEF Parse
  <2>5. m.version.parts \in Seq(Nat) /\ m.version.pre \in Seq(Identifier)
        /\ m.version.build \in Nat
    BY <2>2 DEF Token
  <2>6. m.version.parts[1] \in Nat /\ m.version.parts[2] \in Nat /\ m.version.parts[3] \in Nat
    BY <2>4, <2>5
  <2>7. Parse(m.version) \in Version
    BY <2>4, <2>5, <2>6 DEF Version, Core
  <2> QED BY <2>1, <2>3, <2>7 DEF m
<1>5. ASSUME NEW i \in first, NEW j \in first, SameClaim(C(i), C(j)) PROVE C(i) = C(j)
  <2>1. SameClaim(C(j), C(i))
    BY <1>5 DEF SameClaim, Same
  <2>2. i <= j /\ j <= i /\ i \in Nat /\ j \in Nat
    BY <1>1, <1>5, <2>1 DEF FirstClaims
  <2> QED BY <2>2
<1> HIDE DEF C, first, rs
<1>6. IndexHolds(rs)
  BY <1>2, <1>3, <1>4, <1>5 DEF IndexHolds
<1>7. ASSUME NEW r \in rs
      PROVE  r.at \in Locations /\ manifest[r.at] # Unreadable /\ r = RecordOf(r.at, manifest[r.at])
  <2>1. PICK i \in first : r = C(i)
    BY <1>2
  <2>2. r = RecordOf(candidates[i], manifest[candidates[i]]) /\ r.at = candidates[i]
    BY <2>1 DEF C, Claim, RecordOf
  <2> QED BY <1>1, <2>2 DEF Indexable
<1> QED BY <1>6, <1>7 DEF rs

-----------------------------------------------------------------------------
(* A set, a cache and an index.                                            *)

Parts == {"template", "kits", "packages", "assets"}

\* The phases that are over.
Passed ==
  [template |-> {}, kits |-> {"template"}, packages |-> {"template", "kits"},
   assets |-> {"template", "kits", "packages"}, cross |-> Parts]

\* The cache d has all that c has.
Extends(d, c) == DOMAIN c \subseteq DOMAIN d /\ \A r \in DOMAIN c : d[r] = c[r]

\* A reference the index has a record for, of the kind it is asked for as.
InIndex(rs, cs, ref, kind) ==
  /\ ParseRange(ref.range) # NoRange
  /\ \E r \in rs : r.id = ref.id
  /\ ~Ambiguous(cs, ref.id)
  /\ SelectAmong(rs, ref.id, ParseRange(ref.range)) # NoRecord
  /\ SelectAmong(rs, ref.id, ParseRange(ref.range)).kind = kind

\* What is resolved from a cache.
Entries(c) == {[record |-> r, manifest |-> c[r]] : r \in DOMAIN c}

\* An entry is what the reference comes to, whatever the files say.
Entitled(rs, cs, r, part, i, entry) ==
  /\ InIndex(rs, cs, Asked(r)[part][i], KindIn[part])
  /\ entry.record = SelectAmong(rs, Asked(r)[part][i].id, ParseRange(Asked(r)[part][i].range))
  /\ ManifestDefect(entry.manifest, KindIn[part], Context(r)) = "none"

\* s answers the first references of each phase.
Replies(rs, cs, c, r, s) ==
  /\ s \in [Parts -> Seq(Entries(c))]
  /\ \A part \in Parts : \A i \in 1..Len(s[part]) : Entitled(rs, cs, r, part, i, s[part][i])

Whole(r, s, part) == Len(s[part]) = Len(Asked(r)[part])

\* What an answer owes.
Answers(rs, cs, c, r, s) ==
  /\ r \in Requests /\ ConfigurationDefect(r) = "none"
  /\ Replies(rs, cs, c, r, s) /\ \A part \in Parts : Whole(r, s, part)
  /\ ParameterDefect(r, s) = "none" /\ SetDefect(s) = "none"

Resolving ==
  /\ request \in Requests /\ ConfigurationDefect(request) = "none"
  /\ Replies(records, conflicts, cache, request, set)
  /\ \A part \in Passed[phase] : Whole(request, set, part)

IInv ==
  /\ phase \in Parts \cup {"idle", "cross"}
  /\ phase # "idle" => Resolving
  /\ \A r \in DOMAIN answered : Answers(records, conflicts, cache, r, answered[r])
  /\ PlanAndGenerateAgree

-----------------------------------------------------------------------------
(* Answers.                                                                *)

LEMMA PartsOfKindIn == DOMAIN KindIn = Parts
BY DEF KindIn, Parts

\* What a larger cache holds answers as well.
LEMMA RepliesKept ==
  ASSUME NEW rs, NEW cs, NEW c, NEW d, NEW r, NEW s,
         Extends(d, c), Replies(rs, cs, c, r, s)
  PROVE  Replies(rs, cs, d, r, s)
<1>1. Entries(c) \subseteq Entries(d)
  BY DEF Entries, Extends
<1>2. ASSUME NEW part \in Parts PROVE s[part] \in Seq(Entries(d))
  <2>1. s[part] \in Seq(Entries(c))
    BY DEF Replies
  <2> QED BY <1>1, <2>1, SeqMonotonic
<1>3. s \in [Parts -> Seq(Entries(d))]
  BY <1>2 DEF Replies
<1> QED BY <1>3 DEF Replies

LEMMA AnswersKept ==
  ASSUME NEW rs, NEW cs, NEW c, NEW d, NEW r, NEW s,
         Extends(d, c), Answers(rs, cs, c, r, s)
  PROVE  Answers(rs, cs, d, r, s)
BY RepliesKept DEF Answers

\* A request has one whole answer.
LEMMA OneAnswer ==
  ASSUME NEW rs, NEW cs, NEW c, NEW r, NEW s, NEW t,
         Replies(rs, cs, c, r, s), Replies(rs, cs, c, r, t),
         \A part \in Parts : Whole(r, s, part) /\ Whole(r, t, part)
  PROVE  s = t
<1>1. ASSUME NEW part \in Parts PROVE s[part] = t[part]
  <2>1. s[part] \in Seq(Entries(c)) /\ t[part] \in Seq(Entries(c))
    BY DEF Replies
  <2>2. Len(s[part]) = Len(t[part])
    BY DEF Whole
  <2>3. ASSUME NEW i \in 1..Len(s[part]) PROVE s[part][i] = t[part][i]
    <3>1. s[part][i] \in Entries(c) /\ t[part][i] \in Entries(c)
      BY <2>1, <2>2, ElementOfSeq
    <3>2. s[part][i].record = t[part][i].record
      BY <2>2 DEF Replies, Entitled
    <3> QED BY <3>1, <3>2 DEF Entries
  <2> QED BY <2>1, <2>2, <2>3, SeqEqual
<1> QED BY <1>1 DEF Replies

-----------------------------------------------------------------------------
(* One reference.                                                          *)

LEMMA IndexAnswers ==
  ASSUME NEW ref, NEW kind
  PROVE  IndexDefect(ref, kind) = "none" <=> InIndex(records, conflicts, ref, kind)
BY DEF IndexDefect, InIndex

\* Opening a resource takes nothing from the cache.
LEMMA KeptExtends ==
  ASSUME NEW record
  PROVE  /\ Extends(Kept(record), cache)
         /\ Opened(record) # Unreadable =>
              record \in DOMAIN Kept(record) /\ Kept(record)[record] = Opened(record)
BY DEF Extends, Kept, Opened

LEMMA ResolveExtends ==
  ASSUME NEW ref, NEW kind, NEW context
  PROVE  Extends(Resolve(ref, kind, context).cache, cache)
<1> DEFINE record == SelectAmong(records, ref.id, ParseRange(ref.range))
<1>1. Extends(cache, cache) /\ Extends(Kept(record), cache)
  BY KeptExtends DEF Extends
<1> QED BY <1>1 DEF Resolve

\* What is resolved without a defect is what the reference comes to.
LEMMA ResolveEntitled ==
  ASSUME NEW r, NEW part, NEW i,
         Resolve(Asked(r)[part][i], KindIn[part], Context(r)).defect = "none"
  PROVE  \E entry \in Entries(Resolve(Asked(r)[part][i], KindIn[part], Context(r)).cache) :
           /\ Resolve(Asked(r)[part][i], KindIn[part], Context(r)).resolved = <<entry>>
           /\ Entitled(records, conflicts, r, part, i, entry)
<1> DEFINE ref == Asked(r)[part][i]
           record == SelectAmong(records, ref.id, ParseRange(ref.range))
           entry == [record |-> record, manifest |-> Opened(record)]
           answer == Resolve(ref, KindIn[part], Context(r))
<1>1. IndexDefect(ref, KindIn[part]) = "none"
  BY DEF Resolve
<1>2. /\ answer.defect = ManifestDefect(Opened(record), KindIn[part], Context(r))
      /\ answer.cache = Kept(record) /\ answer.resolved = <<entry>>
  BY <1>1 DEF Resolve
<1>3. ManifestDefect(Opened(record), KindIn[part], Context(r)) = "none"
  BY <1>2
<1>4. Opened(record) # Unreadable
  BY <1>3 DEF ManifestDefect
<1>5. entry \in Entries(Kept(record))
  BY <1>4, KeptExtends DEF Entries
<1>6. Entitled(records, conflicts, r, part, i, entry)
  BY <1>1, <1>3, IndexAnswers DEF Entitled
<1> QED BY <1>2, <1>5, <1>6

\* A reference that was answered once is resolved again.
LEMMA ResolveAgain ==
  ASSUME NEW r, NEW part, NEW i, NEW entry \in Entries(cache),
         Entitled(records, conflicts, r, part, i, entry)
  PROVE  Resolve(Asked(r)[part][i], KindIn[part], Context(r)).defect = "none"
<1> DEFINE ref == Asked(r)[part][i]
           record == SelectAmong(records, ref.id, ParseRange(ref.range))
<1>1. IndexDefect(ref, KindIn[part]) = "none"
  BY IndexAnswers DEF Entitled
<1>2. record = entry.record /\ record \in DOMAIN cache /\ entry.manifest = cache[record]
  BY DEF Entitled, Entries
<1>3. Opened(record) = entry.manifest
  BY <1>2 DEF Opened
<1>4. ManifestDefect(Opened(record), KindIn[part], Context(r)) = "none"
  BY <1>3 DEF Entitled
<1> QED BY <1>1, <1>4 DEF Resolve

-----------------------------------------------------------------------------
(* The steps.                                                              *)

LEMMA InitInvariant == Init => IInv
BY DEF Init, IInv, PlanAndGenerateAgree

\* What was answered stays answered when the cache only grows.
LEMMA AnsweredKept ==
  ASSUME IInv, Extends(cache', cache), UNCHANGED <<indexed, answered>>
  PROVE  \A r \in DOMAIN answered' : Answers(records', conflicts', cache', r, answered'[r])
<1>1. records' = records /\ conflicts' = conflicts /\ answered' = answered
  BY DEF indexed
<1>2. \A r \in DOMAIN answered : Answers(records, conflicts, cache, r, answered[r])
  BY DEF IInv
<1>3. \A r \in DOMAIN answered : Answers(records, conflicts, cache', r, answered[r])
  BY <1>2, AnswersKept
<1> QED BY <1>1, <1>3

\* What is resolved so far answers the request, and all of it once it is whole.
LEMMA WholeIsAnswered ==
  ASSUME IInv, phase = "cross", request \in DOMAIN answered
  PROVE  set = answered[request]
<1>1. Replies(records, conflicts, cache, request, set)
      /\ \A part \in Parts : Whole(request, set, part)
  BY DEF IInv, Resolving, Passed
<1>2. Answers(records, conflicts, cache, request, answered[request])
  BY DEF IInv
<1> QED BY <1>1, <1>2, OneAnswer DEF Answers

LEMMA BeginKeeps ==
  ASSUME IInv, NEW r \in Requests, Begin(r)
  PROVE  IInv'
<1>1. Extends(cache', cache) /\ UNCHANGED <<indexed, answered>> /\ cache' = cache
  BY DEF Begin, Extends
<1>2. \A q \in DOMAIN answered' : Answers(records', conflicts', cache', q, answered'[q])
  BY <1>1, AnsweredKept
<1>3. request' = r /\ records' = records /\ conflicts' = conflicts
  BY DEF Begin, indexed
<1>4. CASE ConfigurationDefect(r) = "none"
  <2>1. phase' = "template" /\ set' = EmptySet
    BY <1>4 DEF Begin
  <2>2. Replies(records, conflicts, cache, r, EmptySet)
    <3>1. << >> \in Seq(Entries(cache)) /\ Len(<< >>) = 0
      BY EmptySeq
    <3>2. \A part \in Parts : EmptySet[part] = << >>
      BY DEF EmptySet, Parts
    <3>3. EmptySet = [part \in Parts |-> << >>]
      BY DEF EmptySet, Parts
    <3>4. EmptySet \in [Parts -> Seq(Entries(cache))]
      BY <3>1, <3>3
    <3> QED BY <3>1, <3>2, <3>4 DEF Replies
  <2>3. Resolving'
    BY <1>1, <1>3, <1>4, <2>1, <2>2 DEF Resolving, Passed
  <2> QED BY <1>2, <2>1, <2>3 DEF IInv, Parts, PlanAndGenerateAgree
<1>5. CASE ConfigurationDefect(r) # "none"
  <2>1. phase' = "idle"
    BY <1>5 DEF Begin, Refuse, Answer
  <2>2. r \notin DOMAIN answered
    BY <1>5 DEF IInv, Answers
  <2> QED BY <1>1, <1>2, <1>3, <2>1, <2>2 DEF IInv, PlanAndGenerateAgree
<1> QED BY <1>4, <1>5

LEMMA ResolveReferenceKeeps ==
  ASSUME IInv, NEW part \in Parts, ResolveReference(part)
  PROVE  IInv'
<1> DEFINE i == Len(set[part]) + 1
           answer == Resolve(Asked(request)[part][i], KindIn[part], Context(request))
<1>1. /\ phase = part /\ Len(set[part]) < Len(Asked(request)[part])
      /\ cache' = answer.cache
      /\ answer.defect = "none" =>
           /\ set' = [set EXCEPT ![part] = @ \o answer.resolved]
           /\ phase' = phase /\ verdict' = verdict
      /\ answer.defect # "none" => phase' = "idle"
  BY DEF ResolveReference, Refuse, Answer
<1>2. Extends(cache', cache)
  BY <1>1, ResolveExtends
<1>3. UNCHANGED <<indexed, answered, request>>
      /\ records' = records /\ conflicts' = conflicts
  BY DEF ResolveReference, indexed
<1>4. \A q \in DOMAIN answered' : Answers(records', conflicts', cache', q, answered'[q])
  BY <1>2, <1>3, AnsweredKept
<1>5. Resolving
  BY <1>1 DEF IInv, Parts
<1>6. Replies(records, conflicts, cache', request, set)
  BY <1>2, <1>5, RepliesKept DEF Resolving
<1>7. CASE answer.defect = "none"
  <2>1. PICK entry \in Entries(cache') :
          answer.resolved = <<entry>> /\ Entitled(records, conflicts, request, part, i, entry)
    BY <1>1, <1>7, ResolveEntitled
  <2>2. set \in [Parts -> Seq(Entries(cache'))]
    BY <1>6 DEF Replies
  <2>3. set[part] \in Seq(Entries(cache')) /\ <<entry>> \in Seq(Entries(cache'))
        /\ Len(<<entry>>) = 1 /\ Len(set[part]) \in Nat
    BY <2>1, <2>2
  <2> DEFINE longer == set[part] \o <<entry>>
  <2>4. /\ longer \in Seq(Entries(cache')) /\ Len(longer) = i
        /\ \A j \in 1..Len(set[part]) : longer[j] = set[part][j]
        /\ longer[i] = entry
    BY <2>3, ConcatProperties
  <2>5. set' = [set EXCEPT ![part] = longer]
    BY <1>1, <1>7, <2>1
  <2> HIDE DEF longer
  <2>6. set' \in [Parts -> Seq(Entries(cache'))]
    BY <2>2, <2>4, <2>5
  <2>7. set'[part] = longer /\ \A p \in Parts \ {part} : set'[p] = set[p]
    BY <2>2, <2>5
  <2>8. ASSUME NEW p \in Parts, NEW j \in 1..Len(set'[p])
        PROVE  Entitled(records, conflicts, request, p, j, set'[p][j])
    <3>1. CASE p # part
      BY <1>6, <2>7, <2>8, <3>1 DEF Replies
    <3>2. CASE p = part /\ j = i
      BY <2>1, <2>4, <2>7, <3>2
    <3>3. CASE p = part /\ j # i
      <4>1. j \in 1..Len(set[part])
        BY <2>3, <2>4, <2>7, <2>8, <3>3
      <4> QED BY <1>6, <2>4, <2>7, <3>3, <4>1 DEF Replies
    <3> QED BY <3>1, <3>2, <3>3
  <2>9. Replies(records, conflicts, cache', request, set')
    BY <2>6, <2>8 DEF Replies
  <2>10. part \notin Passed[part] /\ Passed[part] \subseteq Parts
    BY DEF Passed, Parts
  <2>11. phase' = part
    BY <1>1, <1>7
  <2>12. \A p \in Passed[part] : Whole(request, set', p)
    BY <1>1, <1>5, <2>7, <2>10 DEF Resolving, Whole
  <2>13. Resolving'
    BY <1>3, <1>5, <2>9, <2>11, <2>12 DEF Resolving
  <2> QED BY <1>4, <2>11, <2>13 DEF IInv, Parts, PlanAndGenerateAgree
<1>8. CASE answer.defect # "none"
  <2>1. phase' = "idle"
    BY <1>1, <1>8
  <2>2. request \notin DOMAIN answered
    <3> SUFFICES ASSUME request \in DOMAIN answered PROVE FALSE
      OBVIOUS
    <3> DEFINE t == answered[request][part]
    <3>1. Replies(records, conflicts, cache, request, answered[request])
          /\ Len(t) = Len(Asked(request)[part])
      BY DEF IInv, Answers, Whole
    <3>2. t \in Seq(Entries(cache)) /\ set[part] \in Seq(Entries(cache))
      BY <1>5, <3>1 DEF Resolving, Replies
    <3>3. i \in 1..Len(t)
      BY <1>1, <3>1, <3>2
    <3>4. t[i] \in Entries(cache) /\ Entitled(records, conflicts, request, part, i, t[i])
      BY <3>1, <3>2, <3>3, ElementOfSeq DEF Replies
    <3> QED BY <1>8, <3>4, ResolveAgain
  <2> QED BY <1>3, <1>4, <2>1, <2>2 DEF IInv, PlanAndGenerateAgree
<1> QED BY <1>7, <1>8

LEMMA NextPhaseKeeps ==
  ASSUME IInv, NEW part \in Parts, NextPhase(part)
  PROVE  IInv'
<1>1. /\ phase = part /\ Whole(request, set, part) /\ phase' = After[part]
      /\ UNCHANGED <<indexed, cache, request, set, answered>>
      /\ records' = records /\ conflicts' = conflicts
  BY DEF NextPhase, Whole, indexed
<1>2. \A q \in DOMAIN answered' : Answers(records', conflicts', cache', q, answered'[q])
  BY <1>1, AnsweredKept DEF Extends
<1>3. Resolving
  BY <1>1 DEF IInv, Parts
<1>4. Passed[After[part]] = Passed[part] \cup {part}
      /\ After[part] \in Parts \cup {"cross"}
  BY DEF Passed, After, Parts
<1>5. \A p \in Passed[After[part]] : Whole(request, set, p)
  BY <1>1, <1>3, <1>4 DEF Resolving
<1>6. Resolving'
  BY <1>1, <1>3, <1>5 DEF Resolving
<1> QED BY <1>1, <1>2, <1>4, <1>6 DEF IInv, Parts, PlanAndGenerateAgree

LEMMA CrossValidateKeeps ==
  ASSUME IInv, CrossValidate
  PROVE  IInv'
<1>1. phase = "cross" /\ UNCHANGED <<indexed, cache, request>>
      /\ records' = records /\ conflicts' = conflicts
  BY DEF CrossValidate, indexed
<1>2. phase' = "idle"
  BY DEF CrossValidate, Refuse, Answer
<1>3. Resolving /\ Passed[phase] = Parts
  BY <1>1 DEF IInv, Passed
<1>4. CASE ParameterDefect(request, set) = "none" /\ SetDefect(set) = "none"
  <2>1. verdict' = "accepted" /\ set' = set
    BY <1>4 DEF CrossValidate, Answer
  <2>2. Answers(records, conflicts, cache, request, set)
    BY <1>3, <1>4 DEF Resolving, Answers
  <2>3. CASE request \in DOMAIN answered
    <3>1. answered' = answered
      BY <2>3 DEF CrossValidate
    <3>2. \A q \in DOMAIN answered' : Answers(records', conflicts', cache', q, answered'[q])
      BY <1>1, <3>1, AnsweredKept DEF Extends
    <3>3. set = answered[request]
      BY <1>1, <2>3, WholeIsAnswered
    <3> QED BY <1>1, <1>2, <2>1, <3>1, <3>2, <3>3 DEF IInv, PlanAndGenerateAgree
  <2>4. CASE request \notin DOMAIN answered
    <3>1. answered' = [r \in DOMAIN answered \cup {request} |->
                         IF r = request THEN set ELSE answered[r]]
      BY <2>1, <2>4 DEF CrossValidate
    <3>2. \A q \in DOMAIN answered' : Answers(records, conflicts, cache, q, answered'[q])
      BY <2>2, <3>1 DEF IInv
    <3>3. answered'[request] = set
      BY <3>1
    <3> QED BY <1>1, <1>2, <2>1, <3>2, <3>3 DEF IInv, PlanAndGenerateAgree
  <2> QED BY <2>3, <2>4
<1>5. CASE ~(ParameterDefect(request, set) = "none" /\ SetDefect(set) = "none")
  <2>1. request \notin DOMAIN answered
    BY <1>1, <1>5, WholeIsAnswered DEF IInv, Answers
  <2>2. verdict' # "accepted"
    <3>1. CASE ParameterDefect(request, set) # "none"
      BY <3>1 DEF CrossValidate, Refuse, Answer, ParameterDefect
    <3>2. CASE ParameterDefect(request, set) = "none" /\ SetDefect(set) # "none"
      BY <3>2 DEF CrossValidate, Refuse, Answer, SetDefect
    <3> QED BY <1>5, <3>1, <3>2
  <2>3. answered' = answered
    BY <2>2 DEF CrossValidate
  <2>4. \A q \in DOMAIN answered' : Answers(records', conflicts', cache', q, answered'[q])
    BY <1>1, <2>3, AnsweredKept DEF Extends
  <2> QED BY <1>1, <1>2, <2>1, <2>3, <2>4 DEF IInv, PlanAndGenerateAgree
<1> QED BY <1>4, <1>5

LEMMA ResolveAloneKeeps ==
  ASSUME IInv, NEW e, ResolveAlone(e)
  PROVE  IInv'
<1>1. phase' = "idle" /\ request' = Nothing /\ UNCHANGED <<indexed, answered>>
  BY DEF ResolveAlone, Refuse, Answer
<1>2. Extends(cache', cache)
  <2>1. cache' = cache \/ cache' = Resolve(e.ref, e.kind, e.context).cache
    BY DEF ResolveAlone
  <2> QED BY <2>1, ResolveExtends DEF Extends
<1>3. \A q \in DOMAIN answered' : Answers(records', conflicts', cache', q, answered'[q])
  BY <1>1, <1>2, AnsweredKept
<1>4. Nothing \notin DOMAIN answered'
  BY <1>3, NothingAssumption DEF Answers
<1> QED BY <1>1, <1>3, <1>4 DEF IInv, PlanAndGenerateAgree

\* An edit of a resource, or no step at all, is nothing to what was resolved.
LEMMA QuietKeeps ==
  ASSUME IInv, UNCHANGED <<indexed, cache, request, phase, set, verdict, answered>>
  PROVE  IInv'
<1>1. \A q \in DOMAIN answered' : Answers(records', conflicts', cache', q, answered'[q])
  BY AnsweredKept DEF Extends
<1>2. Resolving <=> Resolving'
  BY DEF Resolving, indexed
<1> QED BY <1>1, <1>2 DEF IInv, PlanAndGenerateAgree

\* IInv is inductive.
LEMMA NextInvariant == IInv /\ [Next]_vars => IInv'
<1> SUFFICES ASSUME IInv, [Next]_vars PROVE IInv'
  OBVIOUS
<1>1. ASSUME NEW r \in Requests, Begin(r) PROVE IInv'
  BY <1>1, BeginKeeps
<1>2. ASSUME NEW e \in Enquiries, ResolveAlone(e) PROVE IInv'
  BY <1>2, ResolveAloneKeeps
<1>3. ASSUME NEW location \in Locations, NEW manifest \in Replacements[location],
             Replace(location, manifest)
      PROVE  IInv'
  BY <1>3, QuietKeeps DEF Replace
<1>4. CASE EngineStep
  BY <1>4, PartsOfKindIn, ResolveReferenceKeeps, NextPhaseKeeps, CrossValidateKeeps
     DEF EngineStep
<1>5. CASE UNCHANGED vars
  BY <1>5, QuietKeeps DEF vars
<1> QED BY <1>1, <1>2, <1>3, <1>4, <1>5 DEF Next

\* A plan and the generation after it resolve one set (Resolution!PlanAndGenerateAgree):
\* what one engine accepted once it accepts again, with the same set.
THEOREM AcceptedAgain == Spec => []PlanAndGenerateAgree
<1>1. IInv => PlanAndGenerateAgree
  BY DEF IInv
<1> QED BY <1>1, InitInvariant, NextInvariant, PTL DEF Spec

-----------------------------------------------------------------------------
(* The parameters.                                                         *)

\* The values the parameters have after each declaration of a pass.
Passes(params, declared, after) ==
  /\ after[0] = params
  /\ \A n \in Nat : \A x \in ParameterNames : after[n][x] # Absent => after[n + 1][x] # Absent

\* What has a value keeps one.
LEMMA PassKeeps ==
  ASSUME NEW params, NEW declared, NEW after, Passes(params, declared, after),
         NEW x \in ParameterNames, NEW m \in Nat, after[m][x] # Absent
  PROVE  \A n \in Nat : m <= n => after[n][x] # Absent
<1> DEFINE S == {n \in Nat : m <= n => after[n][x] # Absent}
<1>1. 0 \in S
  OBVIOUS
<1>2. ASSUME NEW n \in Nat, n \in S PROVE n + 1 \in S
  <2>1. CASE m <= n
    BY <1>2, <2>1 DEF Passes
  <2>2. CASE ~(m <= n)
    <3>1. m <= n + 1 => m = n + 1
      BY <2>2
    <3> QED BY <3>1
  <2> QED BY <2>1, <2>2
<1> HIDE DEF S
<1>3. Nat \subseteq S
  BY <1>1, <1>2, SetInduction
<1> QED BY <1>3 DEF S

\* Parameters with values in W.
Typed(W, params) == params \in [ParameterNames -> W]

LiteralRun(W, params, declared, after) ==
  /\ after \in [Nat -> [ParameterNames -> W]] /\ after[0] = params
  /\ \A n \in Nat : after[n + 1] = WithLiteral(after[n], declared[n + 1])
  /\ LiteralPass(params, declared) = after[Len(declared)]

CopyRun(W, params, declared, after) ==
  /\ after \in [Nat -> [ParameterNames -> W]] /\ after[0] = params
  /\ \A n \in Nat : after[n + 1] = WithCopy(after[n], declared[n + 1])
  /\ CopyPass(params, declared) = after[Len(declared)]

\* A pass is a sequence of parameters: after each declaration, what that adds.
LEMMA LiteralPassSteps ==
  ASSUME NEW W, NEW params, Typed(W, params), NEW declared,
         \A n \in Nat : declared[n].default \in W
  PROVE  \E after : LiteralRun(W, params, declared, after)
<1> DEFINE V == [ParameterNames -> W]
           step == [p_n \in V \X Nat |-> WithLiteral(p_n[1], declared[p_n[2]])]
           Solves(f) == f = [n \in Nat |->
             IF n = 0 THEN params ELSE WithLiteral(f[n - 1], declared[n])]
           pass == CHOOSE f : Solves(f)
<1>1. ASSUME NEW p \in V, NEW n \in Nat PROVE WithLiteral(p, declared[n]) \in V
  BY DEF WithLiteral, PutIfAbsent
<1>2. params \in V
  BY DEF Typed
<1> HIDE DEF V
<1>3. \A p \in V, n \in Nat : step[<<p, n>>] = WithLiteral(p, declared[n])
  OBVIOUS
<1>4. Recursion(V, params, step)
  <2>1. step \in [V \X Nat -> V]
    BY <1>1
  <2> QED BY <1>2, <2>1 DEF Recursion
<1> HIDE DEF step
<1>5. PICK f \in [Nat -> V] :
        \A n \in Nat : /\ n = 0 => f[n] = params
                       /\ n # 0 => n - 1 \in Nat /\ f[n] = step[<<f[n - 1], n>>]
  BY <1>4, SequenceExists
<1>6. Solves(f)
  <2>1. ASSUME NEW n \in Nat
        PROVE  f[n] = IF n = 0 THEN params ELSE WithLiteral(f[n - 1], declared[n])
    <3>1. CASE n = 0
      BY <1>5, <3>1
    <3>2. CASE n # 0
      <4>1. n - 1 \in Nat /\ f[n] = step[<<f[n - 1], n>>] /\ f[n - 1] \in V
        BY <1>5, <3>2
      <4> QED BY <1>3, <3>2, <4>1
    <3> QED BY <3>1, <3>2
  <2> QED BY <2>1
<1>7. LiteralPass(params, declared) = pass[Len(declared)]
  BY DEF LiteralPass
<1> HIDE DEF Solves
<1>8. Solves(pass)
  BY <1>6
<1> HIDE DEF pass
<1>9. pass[0] = params /\ \A n \in Nat : pass[n + 1] = WithLiteral(pass[n], declared[n + 1])
  <2>1. \A n \in Nat : pass[n] = IF n = 0 THEN params ELSE WithLiteral(pass[n - 1], declared[n])
    BY <1>8 DEF Solves
  <2>2. \A n \in Nat : n + 1 \in Nat /\ n + 1 # 0 /\ (n + 1) - 1 = n
    OBVIOUS
  <2> QED BY <2>1, <2>2
<1>10. pass \in [Nat -> V]
  <2> DEFINE S == {n \in Nat : pass[n] \in V}
  <2>1. 0 \in S
    BY <1>2, <1>9
  <2>2. ASSUME NEW n \in Nat, n \in S PROVE n + 1 \in S
    <3>1. n + 1 \in Nat /\ pass[n] \in V
      BY <2>2
    <3>2. WithLiteral(pass[n], declared[n + 1]) \in V
      BY <1>1, <3>1
    <3> QED BY <1>9, <3>1, <3>2
  <2> HIDE DEF S
  <2>3. Nat \subseteq S
    BY <2>1, <2>2, SetInduction
  <2>4. pass = [n \in Nat |-> pass[n]]
    BY <1>8 DEF Solves
  <2> QED BY <2>3, <2>4 DEF S
<1>11. LiteralRun(W, params, declared, pass)
  BY <1>7, <1>9, <1>10 DEF LiteralRun, V
<1> QED BY <1>11

LEMMA CopyPassSteps ==
  ASSUME NEW W, NEW params, Typed(W, params), NEW declared
  PROVE  \E after : CopyRun(W, params, declared, after)
<1> DEFINE V == [ParameterNames -> W]
           step == [p_n \in V \X Nat |-> WithCopy(p_n[1], declared[p_n[2]])]
           Solves(f) == f = [n \in Nat |->
             IF n = 0 THEN params ELSE WithCopy(f[n - 1], declared[n])]
           pass == CHOOSE f : Solves(f)
<1>1. ASSUME NEW p \in V, NEW n \in Nat PROVE WithCopy(p, declared[n]) \in V
  BY DEF WithCopy, PutIfAbsent
<1>2. params \in V
  BY DEF Typed
<1> HIDE DEF V
<1>3. \A p \in V, n \in Nat : step[<<p, n>>] = WithCopy(p, declared[n])
  OBVIOUS
<1>4. Recursion(V, params, step)
  <2>1. step \in [V \X Nat -> V]
    BY <1>1
  <2> QED BY <1>2, <2>1 DEF Recursion
<1> HIDE DEF step
<1>5. PICK f \in [Nat -> V] :
        \A n \in Nat : /\ n = 0 => f[n] = params
                       /\ n # 0 => n - 1 \in Nat /\ f[n] = step[<<f[n - 1], n>>]
  BY <1>4, SequenceExists
<1>6. Solves(f)
  <2>1. ASSUME NEW n \in Nat
        PROVE  f[n] = IF n = 0 THEN params ELSE WithCopy(f[n - 1], declared[n])
    <3>1. CASE n = 0
      BY <1>5, <3>1
    <3>2. CASE n # 0
      <4>1. n - 1 \in Nat /\ f[n] = step[<<f[n - 1], n>>] /\ f[n - 1] \in V
        BY <1>5, <3>2
      <4> QED BY <1>3, <3>2, <4>1
    <3> QED BY <3>1, <3>2
  <2> QED BY <2>1
<1>7. CopyPass(params, declared) = pass[Len(declared)]
  BY DEF CopyPass
<1> HIDE DEF Solves
<1>8. Solves(pass)
  BY <1>6
<1> HIDE DEF pass
<1>9. pass[0] = params /\ \A n \in Nat : pass[n + 1] = WithCopy(pass[n], declared[n + 1])
  <2>1. \A n \in Nat : pass[n] = IF n = 0 THEN params ELSE WithCopy(pass[n - 1], declared[n])
    BY <1>8 DEF Solves
  <2>2. \A n \in Nat : n + 1 \in Nat /\ n + 1 # 0 /\ (n + 1) - 1 = n
    OBVIOUS
  <2> QED BY <2>1, <2>2
<1>10. pass \in [Nat -> V]
  <2> DEFINE S == {n \in Nat : pass[n] \in V}
  <2>1. 0 \in S
    BY <1>2, <1>9
  <2>2. ASSUME NEW n \in Nat, n \in S PROVE n + 1 \in S
    <3>1. n + 1 \in Nat /\ pass[n] \in V
      BY <2>2
    <3>2. WithCopy(pass[n], declared[n + 1]) \in V
      BY <1>1, <3>1
    <3> QED BY <1>9, <3>1, <3>2
  <2> HIDE DEF S
  <2>3. Nat \subseteq S
    BY <2>1, <2>2, SetInduction
  <2>4. pass = [n \in Nat |-> pass[n]]
    BY <1>8 DEF Solves
  <2> QED BY <2>3, <2>4 DEF S
<1>11. CopyRun(W, params, declared, pass)
  BY <1>7, <1>9, <1>10 DEF CopyRun, V
<1> QED BY <1>11

\* A copy of what has a value once the literal defaults are in takes, in whatever
\* order the declarations come.
LEMMA CopyReaches ==
  ASSUME NEW supplied, NEW builtIns, NEW declared \in Seq(Declaration),
         NEW i \in 1..Len(declared), declared[i].from \in ParameterNames,
         LiteralPass(WithBuiltIns(supplied, builtIns), declared)[declared[i].from] # Absent
  PROVE  Effective(supplied, builtIns, declared)[declared[i].name] # Absent
<1> DEFINE start == WithBuiltIns(supplied, builtIns)
           before == LiteralPass(start, declared)
           W == {start[x] : x \in ParameterNames} \cup {declared[n].default : n \in Nat}
           d == declared[i]
<1>1. start \in [ParameterNames -> W]
  <2>1. start = [x \in ParameterNames |-> start[x]]
    BY DEF WithBuiltIns
  <2> HIDE DEF start
  <2> QED BY <2>1
<1>2. \A n \in Nat : declared[n].default \in W
  OBVIOUS
<1>3. Len(declared) \in Nat /\ i \in Nat /\ i - 1 \in Nat /\ (i - 1) + 1 = i /\ i <= Len(declared)
  OBVIOUS
<1>4. d \in Declaration /\ d.name \in ParameterNames
  <2>1. declared[i] \in Declaration
    BY ElementOfSeq
  <2> QED BY <2>1 DEF Declaration
<1> HIDE DEF start, W
<1>5. before \in [ParameterNames -> W]
  <2>1. Typed(W, start)
    BY <1>1 DEF Typed
  <2>2. PICK after : LiteralRun(W, start, declared, after)
    BY <1>2, <2>1, LiteralPassSteps
  <2> QED BY <1>3, <2>2 DEF LiteralRun
<1>6. Effective(supplied, builtIns, declared) = CopyPass(before, declared)
  BY DEF Effective, start
<1>7. d.from \in ParameterNames /\ before[d.from] # Absent
  BY DEF start
<1> HIDE DEF before, d
<1>8. PICK after : CopyRun(W, before, declared, after)
  <2>1. Typed(W, before)
    BY <1>5 DEF Typed
  <2> QED BY <2>1, CopyPassSteps
<1>9. Passes(before, declared, after)
  <2>1. ASSUME NEW n \in Nat, NEW x \in ParameterNames, after[n][x] # Absent
        PROVE  after[n + 1][x] # Absent
    <3>1. after[n + 1] = WithCopy(after[n], declared[n + 1]) /\ after[n] \in [ParameterNames -> W]
      BY <1>8 DEF CopyRun
    <3> QED BY <2>1, <3>1 DEF WithCopy, PutIfAbsent
  <2> QED BY <1>8, <2>1 DEF Passes, CopyRun
<1>10. after[i - 1][d.from] # Absent
  <2>1. after[0][d.from] # Absent
    BY <1>7, <1>8 DEF CopyRun
  <2> QED BY <1>3, <1>7, <1>9, <2>1, PassKeeps
<1>11. after[i][d.name] # Absent
  <2>1. after[i] = WithCopy(after[i - 1], d) /\ after[i - 1] \in [ParameterNames -> W]
    BY <1>3, <1>8 DEF d, CopyRun
  <2> QED BY <1>4, <1>7, <1>10, <2>1 DEF WithCopy, PutIfAbsent
<1>12. after[Len(declared)][d.name] # Absent
  BY <1>3, <1>4, <1>9, <1>11, PassKeeps
<1> QED BY <1>6, <1>8, <1>12 DEF d, CopyRun

-----------------------------------------------------------------------------
(* What the engine holds.                                                  *)

Held ==
  /\ file \in [Locations -> Manifests \cup {Unreadable}]
  /\ IndexHolds(records) /\ NoRecord \notin records
  /\ \A r \in records : r.at \in Locations
  /\ DOMAIN cache \subseteq records
  /\ \A r \in DOMAIN cache : cache[r] \in Manifests /\ cache[r].intact

\* What was accepted last was answered.
LastAnswered == verdict = "accepted" => phase = "idle" /\ request \in DOMAIN answered

LEMMA InitHeld == Init => Held /\ LastAnswered
<1> SUFFICES ASSUME Init PROVE Held /\ LastAnswered
  OBVIOUS
<1>1. file \in [Locations -> Manifests \cup {Unreadable}] /\ cache = << >> /\ verdict = "none"
      /\ records = RecordsOf(Candidates, file)
  BY DEF Init
<1>2. \A l \in Locations : file[l] # Unreadable => file[l].version \in Token
  BY <1>1, ManifestsAssumption
<1>3. /\ IndexHolds(records)
      /\ \A r \in records : /\ r.at \in Locations /\ file[r.at] # Unreadable
                            /\ r = RecordOf(r.at, file[r.at])
  BY <1>1, <1>2, CandidatesAssumption, RecordsHold
<1>4. NoRecord \notin records
  BY <1>1, <1>3, NoRecordAssumption
<1> QED BY <1>1, <1>3, <1>4 DEF Held, LastAnswered

\* What is kept was opened, and was what the index has a record for.
LEMMA KeptHeld ==
  ASSUME Held, NEW record \in records
  PROVE  /\ DOMAIN Kept(record) \subseteq records
         /\ \A r \in DOMAIN Kept(record) :
              Kept(record)[r] \in Manifests /\ Kept(record)[r].intact
<1>1. Opened(record) # Unreadable => Opened(record) \in Manifests /\ Opened(record).intact
  BY DEF Opened, Held
<1> QED BY <1>1 DEF Kept, Held

LEMMA ResolveHeld ==
  ASSUME Held, NEW ref, NEW kind, NEW context
  PROVE  LET c == Resolve(ref, kind, context).cache
         IN DOMAIN c \subseteq records /\ \A r \in DOMAIN c : c[r] \in Manifests /\ c[r].intact
<1> DEFINE record == SelectAmong(records, ref.id, ParseRange(ref.range))
<1>1. CASE IndexDefect(ref, kind) # "none"
  BY <1>1 DEF Resolve, Held
<1>2. CASE IndexDefect(ref, kind) = "none"
  <2>1. record # NoRecord
    BY <1>2 DEF IndexDefect
  <2>2. record \in records
    BY <2>1, SelectedIsHighest DEF Held
  <2>3. Resolve(ref, kind, context).cache = Kept(record)
    BY <1>2 DEF Resolve
  <2> HIDE DEF record
  <2> QED BY <2>2, <2>3, KeptHeld
<1> QED BY <1>1, <1>2

\* No code of an error is the word for success.
LEMMA DefectsRefuse ==
  /\ \A r : ConfigurationDefect(r) # "accepted"
  /\ \A ref, kind : IndexDefect(ref, kind) # "accepted"
  /\ \A manifest, kind, context : ManifestDefect(manifest, kind, context) # "accepted"
  /\ \A ref, kind, context : Resolve(ref, kind, context).defect # "accepted"
<1>1. \A r : ConfigurationDefect(r) # "accepted"
  BY DEF ConfigurationDefect
<1>2. \A ref, kind : IndexDefect(ref, kind) # "accepted"
  BY DEF IndexDefect
<1>3. \A manifest, kind, context : ManifestDefect(manifest, kind, context) # "accepted"
  BY DEF ManifestDefect
<1>4. \A ref, kind, context : Resolve(ref, kind, context).defect # "accepted"
  BY <1>2, <1>3 DEF Resolve
<1> QED BY <1>1, <1>2, <1>3, <1>4

LEMMA HeldKept ==
  ASSUME IInv, Held, LastAnswered, [Next]_vars
  PROVE  Held' /\ LastAnswered'
<1> USE DEF indexed
<1>1. ASSUME NEW r \in Requests, Begin(r) PROVE Held' /\ LastAnswered'
  <2>1. UNCHANGED <<file, indexed, cache, answered>> /\ verdict' # "accepted"
    BY <1>1, DefectsRefuse DEF Begin, Refuse, Answer
  <2> QED BY <2>1 DEF Held, LastAnswered
<1>2. ASSUME NEW e \in Enquiries, ResolveAlone(e) PROVE Held' /\ LastAnswered'
  <2>1. UNCHANGED <<file, indexed, answered>>
        /\ (cache' = cache \/ cache' = Resolve(e.ref, e.kind, e.context).cache)
    BY <1>2 DEF ResolveAlone
  <2>2. verdict' # "accepted"
    <3>1. CASE e.ref = Malformed
      BY <1>2, <3>1 DEF ResolveAlone, Refuse, Answer
    <3>2. CASE e.ref # Malformed
      BY <1>2, <3>2, DefectsRefuse DEF ResolveAlone, Refuse, Answer
    <3> QED BY <3>1, <3>2
  <2>3. DOMAIN cache' \subseteq records
        /\ \A r \in DOMAIN cache' : cache'[r] \in Manifests /\ cache'[r].intact
    BY <2>1, ResolveHeld DEF Held
  <2> QED BY <2>1, <2>2, <2>3 DEF Held, LastAnswered
<1>3. ASSUME NEW location \in Locations, NEW manifest \in Replacements[location],
             Replace(location, manifest)
      PROVE  Held' /\ LastAnswered'
  <2>1. manifest \in Manifests \cup {Unreadable}
    BY ReplacementsAssumption
  <2>2. UNCHANGED <<indexed, cache, request, phase, verdict, answered>>
        /\ file' = [file EXCEPT ![location] = manifest]
    BY <1>3 DEF Replace
  <2> QED BY <2>1, <2>2 DEF Held, LastAnswered
<1>4. ASSUME NEW part \in Parts, ResolveReference(part) PROVE Held' /\ LastAnswered'
  <2> DEFINE answer == Resolve(Asked(request)[part][Len(set[part]) + 1], KindIn[part],
                               Context(request))
  <2>1. /\ phase = part /\ cache' = answer.cache /\ UNCHANGED <<file, indexed>>
        /\ answer.defect = "none" => verdict' = verdict
        /\ answer.defect # "none" => verdict' = answer.defect
    BY <1>4 DEF ResolveReference, Refuse, Answer
  <2>2. verdict # "accepted"
    BY <2>1 DEF LastAnswered, Parts
  <2>3. verdict' # "accepted"
    BY <2>1, <2>2, DefectsRefuse
  <2>4. DOMAIN answer.cache \subseteq records
        /\ \A r \in DOMAIN answer.cache :
             answer.cache[r] \in Manifests /\ answer.cache[r].intact
    BY ResolveHeld
  <2> HIDE DEF answer
  <2> QED BY <2>1, <2>3, <2>4 DEF Held, LastAnswered
<1>5. ASSUME NEW part \in Parts, NextPhase(part) PROVE Held' /\ LastAnswered'
  <2>1. phase = part /\ UNCHANGED <<file, indexed, cache, verdict>>
    BY <1>5 DEF NextPhase
  <2>2. verdict' # "accepted"
    BY <2>1 DEF LastAnswered, Parts
  <2> QED BY <2>1, <2>2 DEF Held, LastAnswered
<1>6. CASE CrossValidate
  <2>1. UNCHANGED <<file, indexed, cache, request>> /\ phase' = "idle"
    BY <1>6 DEF CrossValidate, Refuse, Answer
  <2>2. verdict' = "accepted" => request \in DOMAIN answered'
    BY <1>6 DEF CrossValidate
  <2> QED BY <2>1, <2>2 DEF Held, LastAnswered
<1>7. CASE UNCHANGED vars
  BY <1>7 DEF vars, Held, LastAnswered
<1> QED BY <1>1, <1>2, <1>3, <1>4, <1>5, <1>6, <1>7, PartsOfKindIn DEF Next, EngineStep

ResolvedInv == IInv /\ Held /\ LastAnswered

LEMMA Resolved == Spec => []ResolvedInv
<1>1. Init => ResolvedInv
  BY InitInvariant, InitHeld DEF ResolvedInv
<1>2. ResolvedInv /\ [Next]_vars => ResolvedInv'
  BY NextInvariant, HeldKept DEF ResolvedInv
<1> QED BY <1>1, <1>2, PTL DEF Spec

\* What was accepted answers the request.
LEMMA AcceptedAnswers ==
  ASSUME ResolvedInv, verdict = "accepted"
  PROVE  Answers(records, conflicts, cache, request, set)
BY DEF ResolvedInv, IInv, LastAnswered, PlanAndGenerateAgree

\* A parameter is never left without a value where it may be copied from one that
\* has one, in whatever order a template declares them (Resolution!DefaultsReach).
THEOREM DefaultsArrive == Spec => []DefaultsReach
<1>1. ASSUME ResolvedInv PROVE DefaultsReach
  <2> SUFFICES ASSUME verdict = "accepted" PROVE DefaultsReach
    BY DEF DefaultsReach
  <2>1. Replies(records, conflicts, cache, request, set) /\ Whole(request, set, "template")
    BY <1>1, AcceptedAnswers DEF Answers, Parts
  <2>2. set["template"] \in Seq(Entries(cache)) /\ Len(set["template"]) = 1
    BY <2>1 DEF Replies, Whole, Asked, Parts
  <2>3. set.template[1] \in Entries(cache)
    BY <2>2
  <2>4. set.template[1].manifest \in Manifests
    BY <1>1, <2>3 DEF ResolvedInv, Held, Entries
  <2>5. Declared(set) \in Seq(Declaration)
    BY <2>4, ManifestsAssumption DEF Declared
  <2> QED BY <2>5, CopyReaches DEF DefaultsReach, Parameters
<1> QED BY <1>1, Resolved, PTL

\* The cache holds intact manifests of indexed records, and what is resolved so far
\* answers the first references of each phase, in order (Resolution!TypeOK).
THEOREM TypeCorrect == Spec => []TypeOK
<1>1. ASSUME ResolvedInv PROVE TypeOK
  <2>1. phase \in DOMAIN After \cup {"idle", "cross"}
    BY <1>1 DEF ResolvedInv, IInv, Parts, After
  <2>2. ASSUME phase # "idle" \/ verdict = "accepted",
               NEW part \in DOMAIN KindIn, NEW i \in DOMAIN set[part]
        PROVE  LET ref == Asked(request)[part][i]
               IN /\ set[part][i].record = SelectAmong(records, ref.id, ParseRange(ref.range))
                  /\ set[part][i].record.kind = KindIn[part]
                  /\ set[part][i].manifest = cache[set[part][i].record]
    <3>1. Replies(records, conflicts, cache, request, set)
      BY <1>1, <2>2, AcceptedAnswers DEF Answers, ResolvedInv, IInv, Resolving
    <3>2. part \in Parts /\ set[part] \in Seq(Entries(cache))
      BY <3>1, PartsOfKindIn DEF Replies
    <3>3. i \in 1..Len(set[part])
      BY <2>2, <3>2
    <3>4. set[part][i] \in Entries(cache) /\ Entitled(records, conflicts, request, part, i, set[part][i])
      BY <3>1, <3>2, <3>3, ElementOfSeq DEF Replies
    <3> QED BY <3>4 DEF Entries, Entitled, InIndex
  <2> QED BY <1>1, <2>1, <2>2 DEF ResolvedInv, Held, TypeOK
<1> QED BY <1>1, Resolved, PTL

-----------------------------------------------------------------------------
(* What the verdict is worth.                                              *)

\* A request whose configuration is well formed names references.
LEMMA AskedFor ==
  ASSUME NEW r \in Requests, ConfigurationDefect(r) = "none"
  PROVE  /\ r.template \in References /\ r.name = "identifier"
         /\ r.framework = Nothing \/ Parse(r.framework) # NoVersion
         /\ \A part \in Parts : /\ Asked(r)[part] \in Seq(References)
                                /\ Malformed \notin ToSet(Asked(r)[part])
<1>1. /\ r.template # Nothing /\ r.name = "identifier"
      /\ r.framework = Nothing \/ Parse(r.framework) # NoVersion
      /\ \A part \in DOMAIN KindIn : Malformed \notin ToSet(Asked(r)[part])
  BY DEF ConfigurationDefect
<1>2. \A part \in Parts : Malformed \notin ToSet(Asked(r)[part])
  BY <1>1, PartsOfKindIn
<1>3. /\ Asked(r)["template"] = <<r.template>> /\ Asked(r)["kits"] = r.kits
      /\ Asked(r)["packages"] = r.packages /\ Asked(r)["assets"] = r.assets
  BY DEF Asked
<1>4. r.template # Malformed
  <2>1. Malformed \notin ToSet(<<r.template>>)
    BY <1>2, <1>3 DEF Parts
  <2> QED BY <2>1 DEF ToSet
<1>5. r.template \in References
  BY <1>1, <1>4, RequestsAssumption
<1>6. ASSUME NEW list \in Seq(References \cup {Malformed}), Malformed \notin ToSet(list)
      PROVE  list \in Seq(References)
  <2>1. \A i \in 1..Len(list) : list[i] \in References
    BY <1>6 DEF ToSet
  <2> QED BY <2>1
<1>7. ASSUME NEW part \in Parts PROVE Asked(r)[part] \in Seq(References)
  <2>1. Asked(r)[part] \in Seq(References \cup {Malformed})
    <3>1. CASE part = "template"
      <4>1. <<r.template>> \in Seq(References \cup {Malformed})
        BY <1>5
      <4> QED BY <1>3, <3>1, <4>1
    <3>2. CASE part # "template"
      <4>1. \A list \in {r.kits, r.packages, r.assets} : list \in Seq(References \cup {Malformed})
        BY RequestsAssumption
      <4>2. Asked(r)[part] \in {r.kits, r.packages, r.assets}
        BY <1>3, <3>2 DEF Parts
      <4> QED BY <4>1, <4>2
    <3> QED BY <3>1, <3>2
  <2> QED BY <1>2, <1>6, <2>1
<1> QED BY <1>1, <1>2, <1>5, <1>7

\* The highest record in range is the one that is selected, and no other.
LEMMA HighestIsSelected ==
  ASSUME Held, NEW ref \in References, ParseRange(ref.range) # NoRange
  PROVE  LET chosen == SelectAmong(records, ref.id, ParseRange(ref.range))
         IN /\ chosen = NoRecord => Highest(ref) = {}
            /\ chosen # NoRecord => /\ Highest(ref) = {chosen} /\ RecordFor(ref) = chosen
                                    /\ chosen \in records /\ chosen.id = ref.id
<1> DEFINE range == ParseRange(ref.range)
           chosen == SelectAmong(records, ref.id, range)
           admitted == {r \in records : r.id = ref.id /\ SatisfiedBy(range, r.version)}
<1>1. /\ admitted = {} => chosen = NoRecord
      /\ admitted # {} => /\ chosen \in admitted
                           /\ \A r \in admitted \ {chosen} : Less(r.version, chosen.version)
  BY SelectedIsHighest DEF Held
<1>2. \A r \in admitted : r.version \in Version
  BY DEF Held, IndexHolds
<1>3. Highest(ref) = {r \in admitted : \A other \in admitted : ~Less(r.version, other.version)}
  <2>1. ref.range \in WrittenRange
    BY NothingAssumption
  <2>2. \A r \in records : r.version \in Version
    BY DEF Held, IndexHolds
  <2>3. \A r \in records : SatisfiedBy(range, r.version) <=> InRange(r.version, ref.range)
    BY <2>1, <2>2, RangesDenote
  <2> HIDE DEF range
  <2> QED BY <2>3 DEF Highest
<1>4. admitted \subseteq records /\ NoRecord \notin records
  BY DEF Held
<1> HIDE DEF chosen, range
<1>5. CASE admitted = {}
  BY <1>1, <1>3, <1>5 DEF chosen, range
<1>6. CASE admitted # {}
  <2>1. chosen \in Highest(ref)
    <3>1. ASSUME NEW other \in admitted PROVE ~Less(chosen.version, other.version)
      <4>1. other = chosen \/ Less(other.version, chosen.version)
        BY <1>1, <1>6
      <4> QED BY <1>1, <1>2, <1>6, <4>1, PrecedenceIsOrder
    <3> QED BY <1>1, <1>3, <1>6, <3>1
  <2>2. ASSUME NEW r \in Highest(ref) PROVE r = chosen
    BY <1>1, <1>3, <1>6
  <2>3. Highest(ref) = {chosen}
    BY <2>1, <2>2
  <2>4. RecordFor(ref) = chosen
    BY <2>3 DEF RecordFor
  <2> QED BY <1>1, <1>4, <1>6, <2>3, <2>4 DEF chosen, range
<1> QED BY <1>5, <1>6

\* What a manifest is checked for is what makes a resource usable and suitable.
LEMMA ChecksExact ==
  ASSUME NEW m \in Manifests, NEW r \in Requests,
         r.framework = Nothing \/ Parse(r.framework) # NoVersion
  PROVE  /\ Usable(m) <=> /\ m.intact /\ m.addressed
                          /\ \A need \in m.capabilities : CapabilityMet(need)
         /\ Suits(m, r) <=> /\ PlatformsAdmit(m.platforms, r.platforms)
                            /\ FrameworkAdmits(m.framework, r.framework)
<1>1. ASSUME NEW need \in m.capabilities
      PROVE  CapabilityMet(need) <=>
               /\ need.token \in DOMAIN Provided /\ ParseRange(need.range) # NoRange
               /\ InRange(Provided[need.token], need.range)
  <2>1. need.range \in WrittenRange
    BY ManifestsAssumption
  <2>2. need.token \in DOMAIN Provided => Provided[need.token] \in Version
    BY ProvidedAssumption
  <2> QED BY <2>1, <2>2, RangesDenote DEF CapabilityMet
<1>2. ASSUME m.framework # Nothing, ParseRange(m.framework) # NoRange, r.framework # Nothing
      PROVE  SatisfiedBy(ParseRange(m.framework), Parse(r.framework)) <=>
               InRange(Parse(r.framework), m.framework)
  <2>1. m.framework \in WrittenRange
    BY <1>2, ManifestsAssumption
  <2>2. Parse(r.framework) \in Version
    BY <1>2, RequestsAssumption, ParsedIsVersion
  <2> QED BY <1>2, <2>1, <2>2, RangesDenote
<1>3. m # Unreadable
  BY ManifestsAssumption
<1>4. Usable(m) <=> /\ m.intact /\ m.addressed
                    /\ \A need \in m.capabilities : CapabilityMet(need)
  BY <1>1, <1>3 DEF Usable
<1>5. FrameworkAdmits(m.framework, r.framework) <=>
        (m.framework # Nothing /\ ParseRange(m.framework) # NoRange /\ r.framework # Nothing
         => InRange(Parse(r.framework), m.framework))
  BY <1>2 DEF FrameworkAdmits
<1>6. PlatformsAdmit(m.platforms, r.platforms) <=>
        (m.platforms # {} /\ "all" \notin m.platforms => r.platforms \ m.platforms = {})
  BY DEF PlatformsAdmit
<1> QED BY <1>4, <1>5, <1>6 DEF Suits

\* A reference is found exactly when the index answers it and the manifest there
\* passes the checks.
LEMMA FoundExactly ==
  ASSUME Held, NEW r \in Requests, ConfigurationDefect(r) = "none",
         NEW part \in Parts, NEW i \in 1..Len(Asked(r)[part]), NEW read,
         \A record \in records : Content(record, read) \in Manifests \cup {Unreadable}
  PROVE  LET ref == Asked(r)[part][i]
             kind == KindIn[part]
             manifest == Content(SelectAmong(records, ref.id, ParseRange(ref.range)), read)
         IN Found(ref, kind, r, read) <=>
              /\ InIndex(records, conflicts, ref, kind)
              /\ manifest # Unreadable /\ manifest.intact
              /\ ManifestDefect(manifest, kind, Context(r)) = "none"
<1> DEFINE ref == Asked(r)[part][i]
           kind == KindIn[part]
           record == SelectAmong(records, ref.id, ParseRange(ref.range))
           m == Content(record, read)
<1>1. /\ r.template \in References /\ r.template.id # Nothing
      /\ r.framework = Nothing \/ Parse(r.framework) # NoVersion
      /\ ref \in References /\ ref # Malformed
  BY AskedFor, ElementOfSeq, NothingAssumption
<1> HIDE DEF ref, kind
<1>2. CASE ParseRange(ref.range) = NoRange
  BY <1>2 DEF Found, InIndex, ref, kind
<1>3. CASE ParseRange(ref.range) # NoRange /\ record = NoRecord
  <2>1. Highest(ref) = {}
    BY <1>1, <1>3, HighestIsSelected
  <2> QED BY <1>3, <2>1 DEF Found, InIndex, ref, kind
<1>4. CASE ParseRange(ref.range) # NoRange /\ record # NoRecord
  <2>1. Highest(ref) = {record} /\ record \in records /\ record.id = ref.id
    BY <1>1, <1>4, HighestIsSelected
  <2>2. InIndex(records, conflicts, ref, kind) <=>
          /\ ParseRange(ref.range) # NoRange /\ ~Ambiguous(conflicts, ref.id)
          /\ record.kind = kind
    BY <1>4, <2>1 DEF InIndex
  <2>3. Found(ref, kind, r, read) <=>
          /\ ParseRange(ref.range) # NoRange /\ ~Ambiguous(conflicts, ref.id)
          /\ record.kind = kind /\ Usable(m)
          /\ kind = "asset" \/ Suits(m, r)
          /\ kind = "kit" /\ m.templates # {} => r.template.id \in m.templates
    BY <1>1, <2>1 DEF Found
  <2>4. m \in Manifests \cup {Unreadable}
    BY <2>1
  <2> HIDE DEF m, record
  <2>5. m # Unreadable =>
          (ManifestDefect(m, kind, Context(r)) = "none" <=>
             /\ \A need \in m.capabilities : CapabilityMet(need)
             /\ m.addressed
             /\ kind = "kit" /\ m.templates # {} => r.template.id \in m.templates
             /\ kind = "asset" \/ PlatformsAdmit(m.platforms, r.platforms)
             /\ kind = "asset" \/ FrameworkAdmits(m.framework, r.framework))
    BY <1>1 DEF ManifestDefect, Context
  <2>6. CASE m = Unreadable
    <3>1. ~Usable(m)
      BY <2>6 DEF Usable
    <3> QED BY <2>2, <2>3, <2>6, <3>1 DEF m, record, ref, kind
  <2>7. CASE m # Unreadable
    <3>1. /\ Usable(m) <=> /\ m.intact /\ m.addressed
                           /\ \A need \in m.capabilities : CapabilityMet(need)
          /\ Suits(m, r) <=> /\ PlatformsAdmit(m.platforms, r.platforms)
                             /\ FrameworkAdmits(m.framework, r.framework)
      BY <1>1, <2>4, <2>7, ChecksExact
    <3> QED BY <2>2, <2>3, <2>5, <2>7, <3>1 DEF m, record, ref, kind
  <2> QED BY <2>6, <2>7
<1> QED BY <1>2, <1>3, <1>4

\* An answer to one reference is right: found is what is resolved, given what is
\* kept of it.
LEMMA AnswerExact ==
  ASSUME Held, NEW r \in Requests, ConfigurationDefect(r) = "none",
         NEW part \in Parts, NEW i \in 1..Len(Asked(r)[part])
  PROVE  LET answer == Resolve(Asked(r)[part][i], KindIn[part], Context(r))
         IN answer.defect = "none" <=> Found(Asked(r)[part][i], KindIn[part], r, answer.cache)
<1> DEFINE ref == Asked(r)[part][i]
           kind == KindIn[part]
           record == SelectAmong(records, ref.id, ParseRange(ref.range))
           answer == Resolve(ref, kind, Context(r))
           m == Content(record, answer.cache)
<1>1. Found(ref, kind, r, answer.cache) <=>
        /\ InIndex(records, conflicts, ref, kind)
        /\ m # Unreadable /\ m.intact /\ ManifestDefect(m, kind, Context(r)) = "none"
  <2>1. DOMAIN answer.cache \subseteq records
        /\ \A x \in DOMAIN answer.cache : answer.cache[x] \in Manifests
    BY ResolveHeld
  <2> HIDE DEF answer
  <2>2. \A x \in records : Content(x, answer.cache) \in Manifests \cup {Unreadable}
    BY <2>1 DEF Content, Held
  <2> QED BY <2>2, FoundExactly
<1>2. IndexDefect(ref, kind) = "none" <=> InIndex(records, conflicts, ref, kind)
  BY IndexAnswers
<1>3. CASE IndexDefect(ref, kind) # "none"
  BY <1>1, <1>2, <1>3 DEF Resolve
<1>4. CASE IndexDefect(ref, kind) = "none"
  <2>1. answer.defect = ManifestDefect(Opened(record), kind, Context(r))
        /\ answer.cache = Kept(record)
    BY <1>4 DEF Resolve
  <2> HIDE DEF ref, kind, record, answer
  <2>2. CASE Opened(record) = Unreadable
    <3>1. answer.defect # "none"
      BY <2>1, <2>2 DEF ManifestDefect
    <3>2. record \notin DOMAIN cache /\ answer.cache = cache
      BY <2>1, <2>2, ManifestsAssumption DEF Opened, Kept, Held
    <3>3. m = file[record.at] /\ (m = Unreadable \/ ~m.intact)
      BY <2>2, <3>2 DEF Opened, Content
    <3> QED BY <1>1, <3>1, <3>3 DEF ref, kind, answer
  <2>3. CASE Opened(record) # Unreadable
    <3>1. m = Opened(record)
      BY <2>1, <2>3, KeptExtends DEF Content
    <3>2. m.intact
      BY <2>3, <3>1 DEF Opened, Held
    <3> QED BY <1>1, <1>2, <1>4, <2>1, <2>3, <3>1, <3>2 DEF ref, kind, answer
  <2> QED BY <2>2, <2>3
<1> QED BY <1>3, <1>4

\* What replies to a whole request: an entry for each reference, found as the cache
\* has it.
LEMMA RepliesFound ==
  ASSUME Held, NEW r \in Requests, ConfigurationDefect(r) = "none", NEW s,
         Replies(records, conflicts, cache, r, s), NEW part \in Parts, Whole(r, s, part),
         NEW i \in 1..Len(Asked(r)[part])
  PROVE  LET ref == Asked(r)[part][i]
         IN /\ s[part] \in Seq(Entries(cache)) /\ i \in 1..Len(s[part])
            /\ Found(ref, KindIn[part], r, cache)
            /\ s[part][i].record.id = ref.id
            /\ s[part][i].manifest = Content(RecordFor(ref), cache)
            /\ s[part][i].manifest \in Manifests
<1> DEFINE ref == Asked(r)[part][i]
           record == SelectAmong(records, ref.id, ParseRange(ref.range))
           entry == s[part][i]
<1>1. s[part] \in Seq(Entries(cache)) /\ i \in 1..Len(s[part])
  BY DEF Replies, Whole
<1>2. entry \in Entries(cache) /\ Entitled(records, conflicts, r, part, i, entry)
  BY <1>1, ElementOfSeq DEF Replies
<1>3. entry.record = record /\ InIndex(records, conflicts, ref, KindIn[part])
      /\ ManifestDefect(entry.manifest, KindIn[part], Context(r)) = "none"
  BY <1>2 DEF Entitled
<1>4. record \in DOMAIN cache /\ entry.manifest = cache[record]
  BY <1>2, <1>3 DEF Entries
<1>5. Content(record, cache) = entry.manifest
  BY <1>4 DEF Content
<1>6. entry.manifest \in Manifests /\ entry.manifest.intact /\ entry.manifest # Unreadable
  BY <1>4, ManifestsAssumption DEF Held
<1>7. Found(ref, KindIn[part], r, cache)
  <2>1. \A x \in records : Content(x, cache) \in Manifests \cup {Unreadable}
    BY DEF Content, Held
  <2> QED BY <1>3, <1>5, <1>6, <2>1, FoundExactly
<1>8. record # NoRecord /\ ParseRange(ref.range) # NoRange
  BY <1>3 DEF InIndex
<1>9. RecordFor(ref) = record /\ record.id = ref.id
  <2>1. ref \in References
    BY AskedFor, ElementOfSeq
  <2> QED BY <1>8, <2>1, HighestIsSelected
<1> QED BY <1>1, <1>3, <1>5, <1>6, <1>7, <1>9

-----------------------------------------------------------------------------
(* The set as a whole.                                                     *)

\* Who contributes, once for each time an area is named, and to what.
Contributions(s) == UNION {{i} \X DOMAIN s.kits[i].manifest.areas : i \in DOMAIN s.kits}
AreaOf(s, c) == s.kits[c[1]].manifest.areas[c[2]]

LEMMA MoreThanOne ==
  ASSUME NEW S, IsFiniteSet(S)
  PROVE  Cardinality(S) > 1 <=> \E c, d \in S : c # d
<1>1. Cardinality(S) \in Nat
  BY FS_CardinalityType
<1>2. ASSUME Cardinality(S) > 1 PROVE \E c, d \in S : c # d
  <2>1. PICK c \in S : TRUE
    BY <1>1, <1>2, FS_EmptySet
  <2>2. IsFiniteSet(S \ {c}) /\ Cardinality(S \ {c}) = Cardinality(S) - 1
    BY <2>1, FS_RemoveElement
  <2>3. S \ {c} # {}
    BY <1>1, <1>2, <2>2, FS_EmptySet
  <2> QED BY <2>1, <2>3
<1>3. ASSUME NEW c \in S, NEW d \in S, c # d PROVE Cardinality(S) > 1
  <2>1. Cardinality(S) # 0
    BY FS_EmptySet
  <2>2. Cardinality(S) # 1
    <3>1. ~\E x : S = {x}
      BY <1>3
    <3> QED BY <3>1, FS_Singleton
  <2> QED BY <1>1, <2>1, <2>2
<1> QED BY <1>2, <1>3

LEMMA ContributionsFinite ==
  ASSUME NEW s, NEW E, s.kits \in Seq(E),
         \A i \in 1..Len(s.kits) : s.kits[i].manifest \in Manifests
  PROVE  IsFiniteSet(Contributions(s))
<1> DEFINE of == [i \in 1..Len(s.kits) |-> {i} \X DOMAIN s.kits[i].manifest.areas]
           all == {{i} \X DOMAIN s.kits[i].manifest.areas : i \in 1..Len(s.kits)}
<1>1. DOMAIN s.kits = 1..Len(s.kits) /\ Len(s.kits) \in Nat
  OBVIOUS
<1>2. Contributions(s) = UNION all
  BY <1>1 DEF Contributions
<1>3. of \in Surjection(1..Len(s.kits), all)
  BY DEF Surjection
<1>4. IsFiniteSet(all)
  <2>1. IsFiniteSet(1..Len(s.kits))
    BY <1>1, FS_Interval
  <2> HIDE DEF of, all
  <2> QED BY <1>3, <2>1, FS_Surjection
<1>5. ASSUME NEW T \in all PROVE IsFiniteSet(T)
  <2>1. PICK i \in 1..Len(s.kits) : T = {i} \X DOMAIN s.kits[i].manifest.areas
    OBVIOUS
  <2> DEFINE areas == s.kits[i].manifest.areas
  <2>2. areas \in Seq(ToSet(areas))
    BY ManifestsAssumption
  <2> HIDE DEF areas
  <2>3. DOMAIN areas = 1..Len(areas) /\ Len(areas) \in Nat
    BY <2>2
  <2>4. IsFiniteSet(1..Len(areas))
    BY <2>3, FS_Interval
  <2>5. IsFiniteSet({i})
    BY FS_Singleton
  <2>6. IsFiniteSet({i} \X DOMAIN areas)
    BY <2>3, <2>4, <2>5, FS_Product
  <2> QED BY <2>1, <2>6 DEF areas
<1> HIDE DEF all
<1> QED BY <1>2, <1>4, <1>5, FS_UNION

\* The checks of the whole set are what it is to be compatible, and for the
\* parameters to fit.
LEMMA CompatibleExact ==
  ASSUME Held, NEW r \in Requests, ConfigurationDefect(r) = "none", NEW s,
         Replies(records, conflicts, cache, r, s), \A part \in Parts : Whole(r, s, part)
  PROVE  /\ SetDefect(s) = "none" <=> Compatible(r, cache)
         /\ ParameterDefect(r, s) = "none" <=> ParametersFit(r, cache)
<1> DEFINE template == s.template[1].manifest
           n == Len(s.kits)
           manifest(i) == s.kits[i].manifest
           written == Contributions(s)
           area(c) == AreaOf(s, c)
<1>1. template = Content(RecordFor(r.template), cache)
  <2>1. Asked(r)["template"] = <<r.template>> /\ 1 \in 1..Len(Asked(r)["template"])
    BY DEF Asked
  <2>2. "template" \in Parts /\ Whole(r, s, "template")
    BY DEF Parts
  <2> HIDE DEF template
  <2>3. s["template"][1].manifest = Content(RecordFor(Asked(r)["template"][1]), cache)
    BY <2>1, <2>2, RepliesFound
  <2> QED BY <2>1, <2>3 DEF template
<1>2. /\ n \in Nat /\ DOMAIN s.kits = 1..n /\ DOMAIN r.kits = 1..n /\ Len(r.kits) = n
      /\ s.kits \in Seq(Entries(cache))
  <2>1. s["kits"] \in Seq(Entries(cache)) /\ Len(s["kits"]) = Len(Asked(r)["kits"])
    BY DEF Replies, Whole, Parts
  <2>2. Asked(r)["kits"] = r.kits /\ r.kits \in Seq(References)
    BY AskedFor DEF Asked, Parts
  <2> QED BY <2>1, <2>2
<1>3. ASSUME NEW i \in 1..n
      PROVE  /\ manifest(i) = Content(RecordFor(r.kits[i]), cache) /\ manifest(i) \in Manifests
             /\ s.kits[i].record.id = r.kits[i].id
  <2>1. Asked(r)["kits"] = r.kits /\ i \in 1..Len(Asked(r)["kits"])
    BY <1>2 DEF Asked
  <2>2. /\ s["kits"][i].record.id = Asked(r)["kits"][i].id
        /\ s["kits"][i].manifest = Content(RecordFor(Asked(r)["kits"][i]), cache)
        /\ s["kits"][i].manifest \in Manifests
    BY <2>1, RepliesFound DEF Parts
  <2> QED BY <2>1, <2>2
<1>4. IsFiniteSet(written)
  BY <1>2, <1>3, ContributionsFinite
<1> DEFINE kit == [i \in DOMAIN r.kits |-> Content(RecordFor(r.kits[i]), cache)]
<1>5. DOMAIN kit = 1..n /\ \A i \in 1..n : kit[i] = manifest(i)
  BY <1>2, <1>3
<1>6. written = UNION {{i} \X DOMAIN kit[i].areas : i \in DOMAIN kit}
      /\ \A c \in written : c[1] \in 1..n /\ area(c) = kit[c[1]].areas[c[2]]
  <2>1. written = UNION {{i} \X DOMAIN manifest(i).areas : i \in 1..n}
    BY <1>2 DEF Contributions
  <2> HIDE DEF kit
  <2>2. {{i} \X DOMAIN manifest(i).areas : i \in 1..n}
        = {{i} \X DOMAIN kit[i].areas : i \in DOMAIN kit}
    BY <1>5
  <2>3. ASSUME NEW c \in written PROVE c[1] \in 1..n
    BY <2>1
  <2>4. ASSUME NEW c \in written PROVE area(c) = kit[c[1]].areas[c[2]]
    BY <1>5, <2>3 DEF AreaOf
  <2> QED BY <2>1, <2>2, <2>3, <2>4
<1>7. Compatible(r, cache) <=>
        /\ \A c, d \in written : area(c) = area(d) /\ c # d => area(c) \in template.multi
        /\ template.areas = << >> \/ \A c \in written :
             \E i \in DOMAIN template.areas : template.areas[i] = area(c)
        /\ \A i, j \in 1..n : r.kits[j].id \notin manifest(i).conflicts
        /\ \A k \in template.kits : \E i \in 1..n : r.kits[i].id = k
  <2> DEFINE at(c) == kit[c[1]].areas[c[2]]
  <2>1. Compatible(r, cache) <=>
          /\ \A c, d \in written : at(c) = at(d) /\ c # d => at(c) \in template.multi
          /\ template.areas = << >> \/ \A c \in written :
               \E i \in DOMAIN template.areas : template.areas[i] = at(c)
          /\ \A i, j \in DOMAIN kit : r.kits[j].id \notin kit[i].conflicts
          /\ \A k \in template.kits : \E i \in DOMAIN r.kits : r.kits[i].id = k
    <3> HIDE DEF written, template, area
    <3> QED BY <1>1, <1>6 DEF Compatible
  <2>2. \A c \in written : at(c) = area(c)
    BY <1>6
  <2>3. (\A i, j \in DOMAIN kit : r.kits[j].id \notin kit[i].conflicts)
        <=> \A i, j \in 1..n : r.kits[j].id \notin manifest(i).conflicts
    <3> HIDE DEF kit
    <3> QED BY <1>5
  <2> HIDE DEF kit, written, template, area, manifest, at, n
  <2> QED BY <1>2, <2>1, <2>2, <2>3
<1>8. WrittenAreas(s) = {area(c) : c \in written}
  <2>1. ASSUME NEW c \in written PROVE area(c) \in WrittenAreas(s)
    BY DEF WrittenAreas, Contributions, AreaOf, ToSet
  <2>2. ASSUME NEW a \in WrittenAreas(s) PROVE \E c \in written : area(c) = a
    <3>1. PICK i \in DOMAIN s.kits : \E j \in DOMAIN s.kits[i].manifest.areas :
            a = s.kits[i].manifest.areas[j]
      BY DEF WrittenAreas, ToSet
    <3> PICK j \in DOMAIN s.kits[i].manifest.areas : a = s.kits[i].manifest.areas[j]
      BY <3>1
    <3>2. <<i, j>> \in {i} \X DOMAIN s.kits[i].manifest.areas
      OBVIOUS
    <3>3. <<i, j>> \in written
      BY <3>2 DEF Contributions
    <3>4. area(<<i, j>>) = a
      BY DEF AreaOf
    <3> QED BY <3>3, <3>4
  <2> HIDE DEF written, area
  <2> QED BY <2>1, <2>2
<1>9. ASSUME NEW a
      PROVE  Cardinality(Writers(s, a)) > 1 <=>
               \E c, d \in written : c # d /\ area(c) = a /\ area(d) = a
  <2>1. Writers(s, a) = {w \in written : area(w) = a}
    BY DEF Writers, Contributions, AreaOf
  <2>2. IsFiniteSet(Writers(s, a))
    BY <1>4, <2>1, FS_Subset
  <2>3. Cardinality(Writers(s, a)) > 1 <=> \E c, d \in Writers(s, a) : c # d
    BY <2>2, MoreThanOne
  <2> QED BY <2>1, <2>3
<1>10. PresentKits(s) = {r.kits[i].id : i \in 1..n}
  BY <1>2, <1>3 DEF PresentKits
<1> HIDE DEF written, area, template, n, manifest, kit
<1>11. SetDefect(s) = "none" <=>
         /\ ~(template.areas # << >> /\ WrittenAreas(s) \ ToSet(template.areas) # {})
         /\ ~\E a \in WrittenAreas(s) \ template.multi : Cardinality(Writers(s, a)) > 1
         /\ ~\E i \in DOMAIN s.kits : s.kits[i].manifest.conflicts \cap PresentKits(s) # {}
         /\ template.kits \ PresentKits(s) = {}
  BY DEF SetDefect, template
<1>12. WrittenAreas(s) \ ToSet(template.areas) # {} <=>
         ~\A c \in written : \E i \in DOMAIN template.areas : template.areas[i] = area(c)
  BY <1>8 DEF ToSet
<1>13. (\E a \in WrittenAreas(s) \ template.multi : Cardinality(Writers(s, a)) > 1) <=>
         ~\A c, d \in written : area(c) = area(d) /\ c # d => area(c) \in template.multi
  BY <1>8, <1>9
<1>14. (\E i \in DOMAIN s.kits : s.kits[i].manifest.conflicts \cap PresentKits(s) # {}) <=>
         ~\A i, j \in 1..n : r.kits[j].id \notin manifest(i).conflicts
  BY <1>2, <1>10 DEF manifest
<1>15. template.kits \ PresentKits(s) = {} <=>
         \A k \in template.kits : \E i \in 1..n : r.kits[i].id = k
  BY <1>10
<1>16. SetDefect(s) = "none" <=> Compatible(r, cache)
  BY <1>7, <1>11, <1>12, <1>13, <1>14, <1>15
<1>17. ParameterDefect(r, s) = "none" <=> ParametersFit(r, cache)
  <2>1. BuiltIns(r, s) = BuiltIns(r, [kits |-> r.kits])
    BY <1>2 DEF BuiltIns, n
  <2>2. Declared(s) = Content(RecordFor(r.template), cache).parameters
    BY <1>1 DEF Declared, template
  <2>3. ParameterDefect(r, s) = "none" <=>
          ~MissingParameter(Parameters(r, s), Declared(s))
          /\ ~InvalidParameter(Parameters(r, s), Declared(s))
    BY DEF ParameterDefect
  <2>4. Parameters(r, s) = Effective(r.parameters, BuiltIns(r, [kits |-> r.kits]), Declared(s))
    BY <2>1 DEF Parameters
  <2> QED BY <2>2, <2>3, <2>4 DEF ParametersFit, MissingParameter, InvalidParameter
<1> QED BY <1>16, <1>17

-----------------------------------------------------------------------------
(* The verdict.                                                            *)

\* What the configuration is refused for, nothing acceptable has.
LEMMA Unconfigured ==
  ASSUME NEW r \in Requests, NEW read, ConfigurationDefect(r) # "none"
  PROVE  ~Acceptable(r, read)
<1> SUFFICES ASSUME Acceptable(r, read) PROVE FALSE
  OBVIOUS
<1>1. /\ r.name = "identifier" /\ r.template # Nothing
      /\ r.framework = Nothing \/ Parse(r.framework) # NoVersion
  BY DEF Acceptable
<1>2. PICK part \in DOMAIN KindIn : Malformed \in ToSet(Asked(r)[part])
  BY <1>1 DEF ConfigurationDefect
<1>3. PICK i \in DOMAIN Asked(r)[part] : Asked(r)[part][i] = Malformed
  BY <1>2 DEF ToSet
<1>4. Found(Asked(r)[part][i], KindIn[part], r, read)
  BY <1>3 DEF Acceptable
<1> QED BY <1>3, <1>4 DEF Found

\* One reference that is not found is enough.
LEMMA Unfound ==
  ASSUME NEW r \in Requests, ConfigurationDefect(r) = "none", NEW read,
         NEW part \in Parts, NEW i \in 1..Len(Asked(r)[part]),
         ~Found(Asked(r)[part][i], KindIn[part], r, read)
  PROVE  ~Acceptable(r, read)
<1>1. i \in DOMAIN Asked(r)[part]
  BY AskedFor
<1> QED BY <1>1, PartsOfKindIn DEF Acceptable

\* Where every reference has its reply, what is left to ask is whether they go
\* together.
LEMMA WholeIsFound ==
  ASSUME Held, NEW r \in Requests, ConfigurationDefect(r) = "none", NEW s,
         Replies(records, conflicts, cache, r, s), \A part \in Parts : Whole(r, s, part)
  PROVE  Acceptable(r, cache) <=> SetDefect(s) = "none"
<1>1. r.name = "identifier" /\ r.template # Nothing
      /\ (r.framework = Nothing \/ Parse(r.framework) # NoVersion)
  BY AskedFor, NothingAssumption
<1>2. ASSUME NEW part \in DOMAIN KindIn, NEW i \in DOMAIN Asked(r)[part]
      PROVE  Found(Asked(r)[part][i], KindIn[part], r, cache)
  <2>1. part \in Parts /\ Whole(r, s, part)
    BY PartsOfKindIn
  <2>2. Asked(r)[part] \in Seq(References)
    BY <2>1, AskedFor
  <2>3. i \in 1..Len(Asked(r)[part])
    BY <2>2
  <2> QED BY <2>1, <2>3, RepliesFound
<1>3. SetDefect(s) = "none" <=> Compatible(r, cache)
  BY CompatibleExact
<1> QED BY <1>1, <1>2, <1>3 DEF Acceptable

\* A request is accepted exactly when everything it names can be had, is usable
\* and goes together, whatever order the checks are made in and whatever was
\* cached or changed before (Acceptance!VerdictExact).
THEOREM VerdictIsExact == Spec => VerdictExact
<1> DEFINE Ends == phase' = "idle" /\ request' # Nothing
                   /\ (phase # "idle" \/ requested' # requested)
           Exact == verdict' = "accepted" <=>
                      Acceptable(request', cache') /\ ParametersFit(request', cache')
<1>1. ASSUME ResolvedInv, [Next]_vars PROVE Ends => Exact
  <2> SUFFICES ASSUME Ends PROVE Exact
    OBVIOUS
  <2>1. Held /\ (phase # "idle" => Resolving)
    BY <1>1 DEF ResolvedInv, IInv
  <2>2. ASSUME NEW r \in Requests, Begin(r) PROVE Exact
    <3>1. request' = r /\ ConfigurationDefect(r) # "none"
          /\ verdict' = ConfigurationDefect(r)
      BY <2>2 DEF Begin, Refuse, Answer
    <3> QED BY <3>1, Unconfigured, DefectsRefuse
  <2>3. ASSUME NEW e \in Enquiries, ResolveAlone(e) PROVE Exact
    BY <2>3 DEF ResolveAlone
  <2>4. ASSUME NEW location \in Locations, NEW manifest \in Replacements[location],
               Replace(location, manifest)
        PROVE  Exact
    BY <2>4 DEF Replace
  <2>5. ASSUME NEW part \in Parts, ResolveReference(part) PROVE Exact
    <3> DEFINE i == Len(set[part]) + 1
               answer == Resolve(Asked(request)[part][i], KindIn[part], Context(request))
    <3>1. /\ phase = part /\ Len(set[part]) < Len(Asked(request)[part])
          /\ cache' = answer.cache /\ request' = request
          /\ answer.defect = "none" => phase' = phase
          /\ answer.defect # "none" => verdict' = answer.defect
      BY <2>5 DEF ResolveReference, Refuse, Answer
    <3>2. phase # "idle"
      BY <3>1 DEF Parts
    <3>3. answer.defect # "none"
      BY <3>1, <3>2
    <3>4. request \in Requests /\ ConfigurationDefect(request) = "none"
          /\ Replies(records, conflicts, cache, request, set)
      BY <2>1, <3>2 DEF Resolving
    <3>5. i \in 1..Len(Asked(request)[part])
      <4>1. set[part] \in Seq(Entries(cache)) /\ Asked(request)[part] \in Seq(References)
        BY <3>4, AskedFor DEF Replies
      <4> QED BY <3>1, <4>1
    <3> HIDE DEF i
    <3>6. ~Found(Asked(request)[part][i], KindIn[part], request, cache')
      BY <2>1, <3>1, <3>3, <3>4, <3>5, AnswerExact
    <3>7. ~Acceptable(request, cache')
      BY <3>4, <3>5, <3>6, Unfound
    <3>8. verdict' # "accepted"
      BY <3>1, <3>3, DefectsRefuse
    <3> QED BY <3>1, <3>7, <3>8
  <2>6. ASSUME NEW part \in Parts, NextPhase(part) PROVE Exact
    BY <2>6 DEF NextPhase, After, Parts
  <2>7. ASSUME CrossValidate PROVE Exact
    <3>1. phase = "cross" /\ cache' = cache /\ request' = request
      BY <2>7 DEF CrossValidate
    <3>2. request \in Requests /\ ConfigurationDefect(request) = "none"
          /\ Replies(records, conflicts, cache, request, set)
          /\ \A part \in Parts : Whole(request, set, part)
      BY <2>1, <3>1 DEF Resolving, Passed
    <3>3. Acceptable(request, cache) <=> SetDefect(set) = "none"
      BY <2>1, <3>2, WholeIsFound
    <3>4. ParametersFit(request, cache) <=> ParameterDefect(request, set) = "none"
      BY <2>1, <3>2, CompatibleExact
    <3>5. verdict' = "accepted" <=>
            ParameterDefect(request, set) = "none" /\ SetDefect(set) = "none"
      <4>1. ParameterDefect(request, set) # "accepted" /\ SetDefect(set) # "accepted"
        BY DEF ParameterDefect, SetDefect
      <4> QED BY <2>7, <4>1 DEF CrossValidate, Refuse, Answer
    <3> QED BY <3>1, <3>3, <3>4, <3>5
  <2>8. ASSUME UNCHANGED vars PROVE Exact
    BY <2>8 DEF vars
  <2> QED BY <1>1, <2>2, <2>3, <2>4, <2>5, <2>6, <2>7, <2>8, PartsOfKindIn
         DEF Next, EngineStep
<1>2. ASSUME ResolvedInv, [Next]_vars
      PROVE  [phase' = "idle" /\ request' # Nothing /\ (phase # "idle" \/ requested' # requested) =>
               (verdict' = "accepted" <=>
                  Acceptable(request', cache') /\ ParametersFit(request', cache'))]_vars
  BY <1>1, <1>2
<1> QED BY <1>2, Resolved, PTL DEF Spec, VerdictExact
=============================================================================
