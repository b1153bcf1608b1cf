------------------------------ MODULE Versions ------------------------------
(***************************************************************************)
(* Versions and version ranges (version.cpp): SemVer precedence, partial   *)
(* operands, and which versions a range admits.                            *)
(*                                                                         *)
(* Text is abstracted to its pieces.  A pre-release identifier is a record *)
(* of its kind and its rank among those of its kind, a version's core is a *)
(* triple of numbers, and a token is what stands between two spaces of a   *)
(* range or in a manifest's version field: its dotted parts, its           *)
(* pre-release and build, and whether every piece of it is spelled right.  *)
(***************************************************************************)
EXTENDS Naturals, Sequences

CONSTANTS NoVersion, \* what Version::parse returns for text that is no version
          NoRange    \* what VersionRange::parse returns for text that is no range

Identifier == [numeric : BOOLEAN, rank : Nat]
Core == Nat \X Nat \X Nat
Version == [core : Core, pre : Seq(Identifier), build : Nat]
Op == {"eq", "lt", "lte", "gt", "gte", "caret", "tilde"}
Clause == [op : Op, bound : Version]
VersionRange == Seq(Clause)
\* What is written where a version is expected, and where a range is.
Token == [parts : Seq(Nat), pre : Seq(Identifier), build : Nat, spelled : BOOLEAN]
WrittenRange == Seq([op : Op, token : Token])

IsPrerelease(v) == v.pre # << >>

CoreLess(a, b) ==
  \/ a[1] < b[1]
  \/ a[1] = b[1] /\ a[2] < b[2]
  \/ a[1] = b[1] /\ a[2] = b[2] /\ a[3] < b[3]

\* Numeric identifiers compare as numbers and stand below the alphanumeric.
IdentifierLess(a, b) ==
  IF a.numeric = b.numeric THEN a.rank < b.rank ELSE a.numeric

\* p and q agree before i, and p is over at i or lower there.
LowerAt(p, q, i) ==
  /\ \A j \in 1..(i - 1) : p[j] = q[j]
  /\ i <= Len(p) => IdentifierLess(p[i], q[i])

\* A plausible bug: a release below its own pre-releases.
PreLessInverted(p, q) ==
  /\ q # << >>
  /\ p = << >> \/ \E i \in 1..Len(q) : i <= Len(p) + 1 /\ LowerAt(p, q, i)

\* A release stands above its pre-releases; a longer list above its prefixes.
PreLess(p, q) ==
  /\ p # << >>
  /\ q = << >> \/ \E i \in 1..Len(q) : i <= Len(p) + 1 /\ LowerAt(p, q, i)

\* Build metadata takes no part in precedence or in equality.
Less(v, w) ==
  \/ CoreLess(v.core, w.core)
  \/ v.core = w.core /\ PreLess(v.pre, w.pre)

Same(v, w) == v.core = w.core /\ v.pre = w.pre

AtLeast(v, w) == Less(w, v) \/ Same(v, w)

-----------------------------------------------------------------------------
(* Reading a version, and a range of them.                                 *)

\* Only a full triple, well spelled, is a version.
Parse(token) ==
  IF token.spelled /\ Len(token.parts) = 3
    THEN [core |-> <<token.parts[1], token.parts[2], token.parts[3]>>,
          pre |-> token.pre, build |-> token.build]
    ELSE NoVersion

\* The operand of a comparator may leave out components: they are zero.
Padded(token) ==
  [token EXCEPT !.parts =
     @ \o [i \in 1..(IF Len(@) < 3 THEN 3 - Len(@) ELSE 0) |-> 0]]

\* A range is written as clauses, none for "", "*" and "any".
ParseRange(written) ==
  IF \E i \in DOMAIN written : Parse(Padded(written[i].token)) = NoVersion
    THEN NoRange
    ELSE [i \in DOMAIN written |->
            [op |-> written[i].op, bound |-> Parse(Padded(written[i].token))]]

-----------------------------------------------------------------------------
(* Which versions a range admits.                                          *)

\* The components a caret leaves free are those after the first nonzero one.
CaretBoundary(v, bound) ==
  /\ v.core[1] = bound.core[1]
  /\ bound.core[1] = 0 => v.core[2] = bound.core[2]
  /\ bound.core[1] = 0 /\ bound.core[2] = 0 => v.core[3] = bound.core[3]

Admits(clause, v) ==
  CASE clause.op = "eq"    -> Same(v, clause.bound)
    [] clause.op = "lt"    -> Less(v, clause.bound)
    [] clause.op = "lte"   -> AtLeast(clause.bound, v)
    [] clause.op = "gt"    -> Less(clause.bound, v)
    [] clause.op = "gte"   -> AtLeast(v, clause.bound)
    [] clause.op = "caret" -> ~Less(v, clause.bound) /\ CaretBoundary(v, clause.bound)
    [] clause.op = "tilde" -> /\ ~Less(v, clause.bound)
                              /\ v.core[1] = clause.bound.core[1]
                              /\ v.core[2] = clause.bound.core[2]

\* A clause that names a pre-release of v's own triple.
Invites(range, v) ==
  \E i \in DOMAIN range : IsPrerelease(range[i].bound) /\ range[i].bound.core = v.core

\* A plausible bug: a pre-release is admitted like any other version.
SatisfiedByUninvited(range, v) == \A i \in DOMAIN range : Admits(range[i], v)

SatisfiedBy(range, v) ==
  range = << >> \/ /\ IsPrerelease(v) => Invites(range, v)
                   /\ \A i \in DOMAIN range : Admits(range[i], v)
=============================================================================
