------------------------------ MODULE Boundary ------------------------------
(***************************************************************************)
(* Values across the Lua boundary (bindings.cpp).  Lua has one table for   *)
(* lists and objects and no entry for nil, so what comes back need not be  *)
(* what went over.  The order of an object's members is left out: nothing  *)
(* in the engine looks at it.                                              *)
(***************************************************************************)
EXTENDS Integers, FiniteSets, Sequences, TLC

CONSTANTS Value, Depth \* the values that are passed; how deep each is nested

Null == [kind |-> "null"]
Scalar(kind) == [kind |-> kind]
ScalarKinds == {"null", "string", "integer", "boolean", "number"}
Array(items) == [kind |-> "array", items |-> items]
Object(members) == [kind |-> "object", members |-> members]
Nothing == << >>

Entries(value) ==
  CASE value.kind = "array" -> value.items
    [] value.kind = "object" -> value.members
    [] OTHER -> Nothing

ASSUME ValueAssumption ==
  /\ Depth \in [Value -> Nat]
  /\ \A value \in Value :
       /\ \/ \E kind \in ScalarKinds : value = Scalar(kind)
          \/ value.kind = "array" /\ value = Array(value.items) /\ value.items \in Seq(Value)
          \/ /\ value.kind = "object" /\ value = Object(value.members)
             /\ value.members \in [DOMAIN value.members -> Value]
       /\ \A k \in DOMAIN Entries(value) : Depth[Entries(value)[k]] < Depth[value]

\* A Lua table: the entries at integers and those at names; no entry is nil.
Table(list, named) == [kind |-> "table", list |-> list, named |-> named]

\* push_value.  The entries of a table are pushed the same way.
Present(of) == [k \in {k \in DOMAIN of : of[k] # Null} |-> of[k]]
Pushed(value) ==
  CASE value.kind = "array" -> Table(Present(value.items), Nothing)
    [] value.kind = "object" -> Table(Nothing, Present(value.members))
    [] OTHER -> value

\* What luaL_len may answer for a table.
Borders(table) ==
  {n \in 0..Cardinality(DOMAIN table.list) + 1 :
     /\ n = 0 \/ n \in DOMAIN table.list
     /\ n + 1 \notin DOMAIN table.list}

IsSequence(table, length) == DOMAIN table.named = {} /\ DOMAIN table.list = 1..length

\* from_lua, given what each entry of the table may arrive as.
ArrivedEntries(returns, of) ==
  {f \in [DOMAIN of -> UNION {returns[of[k]] : k \in DOMAIN of}] :
     \A k \in DOMAIN of : f[k] \in returns[of[k]]}
Named(list, named) ==
  [key \in {ToString(i) : i \in DOMAIN list} \cup DOMAIN named |->
     IF key \in DOMAIN named THEN named[key]
     ELSE list[CHOOSE i \in DOMAIN list : ToString(i) = key]]
ArrivedAs(returns, lua, length) ==
  IF IsSequence(lua, length)
  THEN {Array([i \in 1..length |-> items[i]]) : items \in ArrivedEntries(returns, lua.list)}
  ELSE {Object(Named(list, named)) :
          list \in ArrivedEntries(returns, lua.list), named \in ArrivedEntries(returns, lua.named)}
Arrived(returns, lua) ==
  IF lua.kind = "table" THEN UNION {ArrivedAs(returns, lua, length) : length \in Borders(lua)}
  ELSE {lua}

\* What a value may be once Lua has handed it back.
Returns ==
  LET returns[value \in Value] == Arrived(returns, Pushed(value))
  IN returns

\* The kind of a value, with the empty containers told apart (Operations!Kinds).
KindOfValue(value) ==
  CASE value.kind = "array" /\ value.items = << >> -> "empty array"
    [] value.kind = "object" /\ DOMAIN value.members = {} -> "empty object"
    [] OTHER -> value.kind
=============================================================================
