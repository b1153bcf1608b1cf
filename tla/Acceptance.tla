----------------------------- MODULE Acceptance -----------------------------
(***************************************************************************)
(* What makes a request acceptable, said without the order of the checks   *)
(* that module Resolution makes, and without its phases: everything the    *)
(* request names can be had, is usable, and goes together.                 *)
(***************************************************************************)
EXTENDS Resolution

\* The manifest of a record, as the engine has read it or would read it now.
Content(record, read) == IF record \in DOMAIN read THEN read[record] ELSE file[record.at]

\* The first core that an operator leaves out, above its bound.
Beyond(op, c) ==
  CASE op = "tilde" -> <<c[1], c[2] + 1, 0>>
    [] op = "caret" /\ c[1] > 0 -> <<c[1] + 1, 0, 0>>
    [] op = "caret" /\ c[1] = 0 /\ c[2] > 0 -> <<0, c[2] + 1, 0>>
    [] op = "caret" /\ c[1] = 0 /\ c[2] = 0 -> <<0, 0, c[3] + 1>>

\* What a range denotes: each comparator an interval of the precedence, and of
\* the pre-releases in it those of a core that is named with one.  A range
\* without comparators, the empty text, denotes every version, pre-releases
\* included: admits_version asks for a named core only when there is one.
Within(clause, v) ==
  CASE clause.op = "eq" -> Same(v, clause.bound)
    [] clause.op = "lt" -> Less(v, clause.bound)
    [] clause.op = "lte" -> ~Less(clause.bound, v)
    [] clause.op = "gt" -> Less(clause.bound, v)
    [] clause.op = "gte" -> ~Less(v, clause.bound)
    [] clause.op \in {"caret", "tilde"} ->
         ~Less(v, clause.bound) /\ CoreLess(v.core, Beyond(clause.op, clause.bound.core))
InRange(v, written) ==
  LET range == ParseRange(written)
      named == {range[i].bound.core : i \in {j \in DOMAIN range : range[j].bound.pre # << >>}}
  IN written = << >> \/ /\ \A i \in DOMAIN range : Within(range[i], v)
                        /\ v.pre = << >> \/ v.core \in named

Highest(ref) ==
  {r \in records : /\ r.id = ref.id /\ InRange(r.version, ref.range)
                   /\ \A other \in records :
                        other.id = ref.id /\ InRange(other.version, ref.range)
                        => ~Less(r.version, other.version)}

\* A resource the engine can use, and that suits the request.
Usable(m) ==
  /\ m # Unreadable /\ m.intact /\ m.addressed
  /\ \A need \in m.capabilities :
       /\ need.token \in DOMAIN Provided /\ ParseRange(need.range) # NoRange
       /\ InRange(Provided[need.token], need.range)
Suits(m, r) ==
  /\ m.platforms # {} /\ "all" \notin m.platforms => r.platforms \ m.platforms = {}
  /\ m.framework # Nothing /\ ParseRange(m.framework) # NoRange /\ r.framework # Nothing
       => InRange(Parse(r.framework), m.framework)

Found(ref, kind, r, read) ==
  /\ ref # Malformed /\ ParseRange(ref.range) # NoRange
  /\ ~Ambiguous(conflicts, ref.id)
  /\ \E record \in Highest(ref) :
       /\ record.kind = kind /\ Usable(Content(record, read))
       /\ kind = "asset" \/ Suits(Content(record, read), r)
       /\ kind = "kit" /\ Content(record, read).templates # {} =>
            r.template.id \in Content(record, read).templates

RecordFor(ref) == CHOOSE record \in Highest(ref) : TRUE

\* No two contributions to an area of one contributor, no area the template
\* does not know of, no kit beside one it rules out, no required kit missing.
Compatible(r, read) ==
  LET template == Content(RecordFor(r.template), read)
      kit == [i \in DOMAIN r.kits |-> Content(RecordFor(r.kits[i]), read)]
      contributions == UNION {{i} \X DOMAIN kit[i].areas : i \in DOMAIN kit}
      area(c) == kit[c[1]].areas[c[2]]
  IN /\ \A c, d \in contributions :
          area(c) = area(d) /\ c # d => area(c) \in template.multi
     /\ template.areas = << >> \/ \A c \in contributions :
          \E i \in DOMAIN template.areas : template.areas[i] = area(c)
     /\ \A i, j \in DOMAIN kit : r.kits[j].id \notin kit[i].conflicts
     /\ \A k \in template.kits : \E i \in DOMAIN r.kits : r.kits[i].id = k

Acceptable(r, read) ==
  /\ r.name = "identifier" /\ r.template # Nothing
  /\ r.framework = Nothing \/ Parse(r.framework) # NoVersion
  /\ \A part \in DOMAIN KindIn : \A i \in DOMAIN Asked(r)[part] :
       Found(Asked(r)[part][i], KindIn[part], r, read)
  /\ Compatible(r, read)

ParametersFit(r, read) ==
  LET declared == Content(RecordFor(r.template), read).parameters
      resolved == [kits |-> r.kits]
      params == Effective(r.parameters, BuiltIns(r, resolved), declared)
  IN \A i \in DOMAIN declared :
       /\ declared[i].required => params[declared[i].name] # Absent
       /\ params[declared[i].name] \in Accepted[declared[i].type] \cup {Absent}

\* A request is accepted exactly when everything it names can be had, is usable
\* and goes together, whatever order the checks are made in and whatever was
\* cached or changed before; a resource that is repaired is found repaired.
VerdictExact ==
  [][phase' = "idle" /\ request' # Nothing /\ (phase # "idle" \/ requested' # requested) =>
       (verdict' = "accepted" <=>
          Acceptable(request', cache') /\ ParametersFit(request', cache'))]_vars
=============================================================================
