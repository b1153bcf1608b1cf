----------------------------- MODULE Operations -----------------------------
(***************************************************************************)
(* The operation registry (engine.cpp, register_operations) and what an    *)
(* operation accepts (error.cpp, validate_parameters).  A parameter value  *)
(* is its kind: validation looks at nothing else of it.                    *)
(***************************************************************************)
EXTENDS SequencesExt

Kinds == {"null", "boolean", "integer", "number", "string", "array", "empty array",
          "object", "empty object"}
Types == {"string", "identifier", "path", "boolean", "integer", "object", "array"}

Required(name, type) == [name |-> name, type |-> type, required |-> TRUE]
Optional(name, type) == [name |-> name, type |-> type, required |-> FALSE]

\* The four resolve operations share one descriptor (resolve_op).
ReferenceParameters ==
  << Required("id", "identifier"), Optional("platforms", "array"),
     Optional("framework", "string"), Optional("template", "identifier") >>

GenerationParameters ==
  << Required("name", "string"), Required("output", "path"),
     Required("template", "identifier"), Optional("kits", "array"),
     Optional("packages", "array"), Optional("assets", "array"),
     Optional("platforms", "array"), Optional("framework", "string"),
     Optional("parameters", "object") >>

Introspection == {"engine.describe", "engine.operations"}
Resolving == {"template.resolve", "kit.resolve", "package.resolve", "asset.resolve"}
Configured == {"config.validate", "project.resolve", "project.plan", "project.generate"}
Reading == {"workspace.verify", "workspace.inspect"}
Ids == Introspection \union {"resource.list"} \union Resolving \union Configured \union Reading

Registry ==
  [id \in Ids |->
     CASE id \in Introspection -> << >>
       [] id = "resource.list" -> << Optional("kind", "string") >>
       [] id \in Resolving -> ReferenceParameters
       [] id \in Configured -> GenerationParameters
       [] id \in Reading -> << Required("workspace", "path") >>]

TypeMatchesExactly(type, kind) ==
  \/ type \in {"string", "identifier", "path"} /\ kind = "string"
  \/ type \in {"boolean", "integer"} /\ kind = type
  \/ type = "object" /\ kind \in {"object", "empty object"}
  \/ type = "array" /\ kind \in {"array", "empty array"}

\* An empty Lua table is a list or an object, whichever is asked for.
TypeMatches(type, kind) ==
  \/ type \in {"string", "identifier", "path"} /\ kind = "string"
  \/ type \in {"boolean", "integer"} /\ kind = type
  \/ type = "object" /\ kind \in {"object", "empty object", "empty array"}
  \/ type = "array" /\ kind \in {"array", "empty array", "empty object"}

Supplied(parameters, name) == name \in DOMAIN parameters /\ parameters[name] # "null"

ValidParameters(id, parameters) ==
  \A spec \in ToSet(Registry[id]) :
     IF Supplied(parameters, spec.name) THEN TypeMatches(spec.type, parameters[spec.name])
     ELSE ~spec.required

\* What engine.<table>.<name>("text") binds the text to (open_engine): the
\* first required parameter, or nothing.
BoundParameter(id) ==
  LET required == SelectSeq(Registry[id], LAMBDA spec : spec.required)
  IN IF required = << >> THEN "" ELSE required[1].name
=============================================================================
