----------------------------- MODULE Parameters -----------------------------
(***************************************************************************)
(* The parameters a template's files are filled in with: what the request  *)
(* supplies, then what the engine knows, then what the template declares   *)
(* as defaults; and the contract they must meet (effective_parameters in   *)
(* project_service.cpp, validate_parameters in validation_service.cpp).    *)
(*                                                                         *)
(* A value is abstracted to its shape, all a declared type looks at.       *)
(***************************************************************************)
EXTENDS Naturals, Sequences, SequencesExt

CONSTANTS
  ParameterNames, \* the names a parameter may have, those of the engine among them
  NoName,         \* a declaration without default_from
  Absent          \* no value, or null: nothing here tells them apart

\* Text that is an identifier, two or more joined by dots, other text, no
\* character at all; then a whole number and a truth value.
Shapes == {"identifier", "package", "text", "empty", "number", "boolean"}
Texts == {"identifier", "package", "text", "empty"}
ParameterTypes ==
  {"string", "enum", "identifier", "java_package", "path", "boolean", "integer", "unknown"}

\* One entry of a template's parameters.
Declaration ==
  [name : ParameterNames, type : ParameterTypes, required : BOOLEAN,
   default : Shapes \cup {Absent}, from : ParameterNames \cup {NoName}]

\* The shapes each declared type accepts; one the engine does not know, all.
Accepted ==
  [type \in ParameterTypes |->
     CASE type \in {"string", "enum"} -> Texts
       [] type = "identifier" -> {"identifier"}
       [] type = "java_package" -> {"package"}
       [] type = "path" -> Texts \ {"empty"}
       [] type = "boolean" -> {"boolean"}
       [] type = "integer" -> {"number"}
       [] type = "unknown" -> Shapes]

PutIfAbsent(params, name, value) ==
  IF params[name] = Absent THEN [params EXCEPT ![name] = value] ELSE params

WithBuiltIns(supplied, builtIns) ==
  [name \in ParameterNames |->
     IF supplied[name] = Absent /\ name \in DOMAIN builtIns
       THEN builtIns[name] ELSE supplied[name]]

\* What a declaration's literal default adds, and what its copy does: of what
\* the source holds by then.
WithLiteral(params, d) == PutIfAbsent(params, d.name, d.default)

WithCopy(params, d) ==
  IF d.from \in ParameterNames THEN PutIfAbsent(params, d.name, params[d.from]) ELSE params

\* The first pass over the declarations: literal defaults.
LiteralPass(params, declared) ==
  LET after[n \in Nat] ==
        IF n = 0 THEN params ELSE WithLiteral(after[n - 1], declared[n])
  IN after[Len(declared)]

\* The second: copies.
CopyPass(params, declared) ==
  LET after[n \in Nat] ==
        IF n = 0 THEN params ELSE WithCopy(after[n - 1], declared[n])
  IN after[Len(declared)]

\* A plausible bug: one pass, that takes each declaration's default or copy.
OnePass(supplied, builtIns, declared) ==
  FoldLeft(LAMBDA p, d : WithCopy(WithLiteral(p, d), d),
           WithBuiltIns(supplied, builtIns), declared)

Effective(supplied, builtIns, declared) ==
  CopyPass(LiteralPass(WithBuiltIns(supplied, builtIns), declared), declared)

MissingParameter(params, declared) ==
  \E i \in DOMAIN declared : declared[i].required /\ params[declared[i].name] = Absent

InvalidParameter(params, declared) ==
  \E i \in DOMAIN declared :
    params[declared[i].name] \notin Accepted[declared[i].type] \cup {Absent}
=============================================================================
