------------------------------- MODULE MCHost -------------------------------
(* A few ways to pass parameters, and values of depth two for the boundary. *)
EXTENDS Host

Given(names, kind) == [n \in names |-> kind]
Configuration == Given({"name", "output", "template"}, "string")
MCArguments ==
  {Nothing, Given({"id"}, "string"), Given({"workspace"}, "string"), Configuration,
   Configuration @@ Given({"kits"}, "empty object") @@ Given({"parameters"}, "empty array"),
   Configuration @@ Given({"kits"}, "string"), Given({"workspace"}, "null")}

Leaves == {Null, Scalar("string"), Scalar("integer"), Scalar("boolean"), Scalar("number")}
Lists(of) == {Array(items) : items \in UNION {[1..n -> of] : n \in 0..2}}
Records(of) == {Object(members) : members \in UNION {[names -> of] : names \in SUBSET {"a", "b"}}}
Shallow == Leaves \cup Lists(Leaves) \cup Records(Leaves)
MCValue == Shallow \cup Lists({Null, Array(<< >>), Object([a |-> Null]), Object(Nothing)})
                   \cup Records({Null, Scalar("string"), Array(<<Null>>), Object([a |-> Null])})

MCDepth == [value \in MCValue |-> IF value \in Leaves THEN 0 ELSE IF value \in Shallow THEN 1 ELSE 2]
=============================================================================
