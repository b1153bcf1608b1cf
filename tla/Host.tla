-------------------------------- MODULE Host --------------------------------
(***************************************************************************)
(* Two programs that hold an engine.  The command-line host (main.cpp)     *)
(* creates it, runs a workflow against it in Lua, shuts it down and turns  *)
(* what the workflow returned into an exit status; its workflow is the     *)
(* default one (workflow.sqpg.default) or any other.  And a C++ program    *)
(* that embeds the library, as the repository's tests do: it may make any  *)
(* call at any time, and may catch what a call throws.                     *)
(***************************************************************************)
EXTENDS Engine, Boundary

CONSTANT MaxCalls    \* bound: calls a workflow other than the default, or an embedder, makes

ASSUME MaxCallsAssumption == MaxCalls \in Nat

VARIABLES
  at,         \* where the program is
  command,    \* the default workflow's command; "custom" for another workflow
  todo,       \* the operations the command still has to call
  parameters, \* what it calls them with
  calls,      \* calls of an unscripted caller: only a bound
  status      \* what the process exits with

hostVars == <<at, command, todo, parameters, calls, status>>
vars == <<engineVars, hostVars>>

\* The default workflow: what each command calls, in order.
Calls ==
  [describe |-> <<"engine.describe">>, operations |-> <<"engine.operations">>,
   list |-> <<"resource.list">>, show |-> <<"kit.resolve">>,
   inspect |-> <<"workspace.inspect">>, verify |-> <<"workspace.verify">>,
   plan |-> <<"project.plan">>, new |-> <<"project.plan", "project.generate">>]
Commands == DOMAIN Calls
\* Those that look at their own arguments first, and may exit without a call.
Demanding == {"show", "inspect", "verify", "plan", "new"}

NoStatus == -1
Places == {"lookup", "initialize", "starting", "setup", "script", "called", "unwinding",
           "closing", "stopping", "ended", "aborted", "left", "embedding"}

Idling == UNCHANGED engineVars
Keep == UNCHANGED <<command, todo, parameters, calls>>

HostInit ==
  /\ at \in {"lookup", "embedding"}
  /\ command = "none" /\ todo = << >> /\ parameters = << >> /\ calls = 0
  /\ status = NoStatus

Leave(to, code) == at' = to /\ status' = code

-----------------------------------------------------------------------------
(* main.                                                                   *)

FindWorkflow ==
  /\ at = "lookup"
  /\ \/ Idling /\ Leave("ended", 2)
     \/ Create /\ Leave("initialize", status)
  /\ Keep

CallInitialize ==
  /\ at = "initialize" /\ StartInitialize
  /\ Leave("starting", status) /\ Keep

InitializedUnreleased ==
  /\ at = "starting" /\ Idle /\ Idling
  /\ IF Succeeded(answer) THEN Leave("setup", status) ELSE Leave("ended", 1)
  /\ Keep
\* A failed start returns from main at once: the engine's destructor runs.
Initialized ==
  /\ at = "starting" /\ Idle /\ Idling
  /\ IF Succeeded(answer) THEN Leave("setup", status) ELSE Leave("unwinding", 1)
  /\ Keep

\* No Lua state; a workflow that asks to be sandboxed; one that runs.
SetUp ==
  /\ at = "setup" /\ Idling
  /\ \/ \E code \in {1, 3} : Leave("closing", code) /\ Keep
     \/ /\ Leave("script", status)
        /\ \E c \in Commands \cup {"custom"}, p \in Arguments :
             /\ command' = c /\ parameters' = p
             /\ todo' = IF c = "custom" THEN << >> ELSE Calls[c]
        /\ UNCHANGED calls

\* What the value a script returns, or its error, is as a status.
StatusOf == [zero |-> 0, two |-> 2, true |-> 0, false |-> 1, other |-> 0, error |-> 1]

ScriptEnds(code) == Leave("closing", code) /\ Keep

\* The first call is not made: an argument is missing, or build_config refuses.
ScriptRefuses ==
  /\ at = "script" /\ command \in Demanding /\ todo = Calls[command] /\ Idle
  /\ Idling /\ ScriptEnds(2)

ScriptCalls ==
  /\ at = "script" /\ command # "custom" /\ todo # << >> /\ answer # Exception
  /\ Execute(Head(todo), parameters)
  /\ at' = "called" /\ UNCHANGED <<command, todo, parameters, calls, status>>

ScriptRetries ==
  /\ at = "called" /\ Idle /\ answer # Exception /\ Idling
  /\ UNCHANGED <<command, parameters, calls>>
  /\ IF ~Succeeded(answer) THEN Leave("script", status) /\ UNCHANGED todo
     ELSE Leave("closing", 0) /\ todo' = Tail(todo)
ScriptContinues ==
  /\ at = "called" /\ Idle /\ answer # Exception /\ Idling
  /\ UNCHANGED <<command, parameters, calls>>
  /\ CASE ~Succeeded(answer) -> Leave("closing", 1) /\ UNCHANGED todo
       [] Succeeded(answer) /\ Len(todo) > 1 -> Leave("script", status) /\ todo' = Tail(todo)
       [] OTHER -> /\ todo' = << >>
                   /\ \E code \in IF command = "verify" THEN {0, 1} ELSE {0} :
                        Leave("closing", code)

\* Any other workflow.
CustomCalls ==
  /\ at = "script" /\ command = "custom" /\ calls < MaxCalls
  /\ answer # Exception
  /\ \E id \in Ids \cup {"unknown"}, p \in Arguments : Execute(id, p)
  /\ calls' = calls + 1 /\ UNCHANGED <<at, command, todo, parameters, status>>

CustomEnds ==
  /\ at = "script" /\ command = "custom" /\ Idle /\ answer # Exception /\ Idling
  /\ \E value \in DOMAIN StatusOf : ScriptEnds(StatusOf[value])

\* The libraries that main opens for a workflow have os.exit: the process ends
\* where it is, with no shutdown, and ~Engine does not run.
CustomExits ==
  /\ at = "script" /\ command = "custom" /\ Idle /\ answer # Exception /\ Idling
  /\ \E code \in {0, 1, 2} : Leave("left", code)
  /\ Keep

\* Nothing in the process catches an exception: it ends where it is.
Abort ==
  /\ at \in {"script", "called"} /\ answer = Exception /\ Idling
  /\ Leave("aborted", 134) /\ Keep

\* engine->shutdown(), or ~Engine.
ShutDown ==
  /\ at \in {"closing", "unwinding"} /\ StartShutdown
  /\ Leave("stopping", status) /\ Keep

Exit ==
  /\ at = "stopping" /\ Idle /\ Idling
  /\ Leave("ended", IF ~Succeeded(answer) /\ status = 0 THEN 1 ELSE status)
  /\ Keep

-----------------------------------------------------------------------------
(* A program that embeds the library.                                      *)

EmbedderCalls ==
  /\ at = "embedding" /\ calls < MaxCalls /\ calls' = calls + 1
  /\ \/ Create
     \/ StartInitialize \/ RefuseInitialize
     \/ \E id \in Ids \cup {"unknown"}, p \in Arguments : Execute(id, p)
     \/ StartShutdown \/ RefuseShutdown
  /\ UNCHANGED <<at, command, todo, parameters, status>>

\* It drops the engine: ~Engine shuts down what is not destroyed.
EmbedderEnds ==
  /\ at = "embedding" /\ Idle
  /\ IF state \in {"absent", "destroyed"} THEN Idling /\ Leave("ended", status)
     ELSE StartShutdown /\ Leave("stopping", status)
  /\ Keep

-----------------------------------------------------------------------------
Init == EngineInit /\ HostInit

HostStep ==
  \/ FindWorkflow \/ CallInitialize \/ Initialized \/ SetUp
  \/ ScriptRefuses \/ ScriptCalls \/ ScriptContinues \/ CustomCalls \/ CustomEnds
  \/ CustomExits \/ Abort \/ ShutDown \/ Exit
  \/ EmbedderCalls \/ EmbedderEnds

Next == HostStep \/ (EngineStep /\ UNCHANGED hostVars)

\* One thread, which does not stop by itself while it has something to do.
Spec == Init /\ [][Next]_vars /\ WF_vars(Next)

-----------------------------------------------------------------------------
(* Properties.                                                             *)

\* The type invariant of the two modules.
TypeOK ==
  /\ state \in {"absent", "created", "initializing", "ready", "operating", "failed",
                "shutdown", "destroyed"}
  /\ services \in {{}, Services}
  /\ running \in {"none", "initialize", "shutdown"} \cup Ids
  /\ lastResult \in Results
  /\ answer \in Results \cup {Exception, Pending}
  /\ landed \in BOOLEAN
  /\ at \in Places
  /\ command \in Commands \cup {"none", "custom"}
  /\ todo \in {<< >>} \cup {Calls[c] : c \in Commands} \cup {<<"project.generate">>}
  /\ calls \in 0..MaxCalls
  /\ status \in {NoStatus, 0, 1, 2, 3, 134}

\* The engine's state only moves as module Lifecycle allows, whatever its
\* handlers return or throw and whoever calls it.
Promise == INSTANCE Lifecycle
ImplementsLifecycle == Promise!Spec

\* A workflow that can make a call finds the engine ready to execute it: no
\* call before that returned, with success or failure, has left it in another
\* state.  After one that threw nothing of the workflow runs any more.
ReadyBetweenCalls == at = "script" /\ Idle /\ answer # Exception => state = "ready"

\* The exit status tells whether there is a workspace: a command of the default
\* workflow has generated one exactly when it is `new` and the process exits 0,
\* through warnings, failed calls and a shutdown that comes after.
ExitIsTruthful ==
  at = "ended" /\ command \in Commands => (landed <=> command = "new" /\ status = 0)

\* However main returns, the engine's resources were released first (engine.hpp:
\* "the engine never relies on process termination to release anything").  A
\* workflow that calls os.exit, or an exception, does not let it return.
ReleasedAtExit == at = "ended" => state \in {"absent", "destroyed"}

\* A command of the default workflow comes to an end, as does a failed start.
CommandEnds ==
  at = "lookup" \/ command \in Commands ~> at \in {"ended", "aborted"} \/ command = "custom"

NoHoles(value) == value.kind = "array" => \A i \in DOMAIN value.items : value.items[i] # Null

\* What an operation accepts as a parameter it still accepts when a workflow got
\* it from the engine and hands it back, empty tables included; a list with a
\* null in it is the exception.
AcceptedAfterRoundTrip ==
  at = "called" => \A value \in Value, type \in Types :
    TypeMatches(type, KindOfValue(value)) /\ NoHoles(value)
      => \A back \in Returns[value] :
           back # Null /\ TypeMatches(type, KindOfValue(back))

\* bindings.cpp: "no exception crosses this boundary and the engine never
\* terminates the host"; 2.4.8 of the specification: "A failed operation MUST
\* leave the engine in a valid state".  So nothing is left operating once no
\* operation runs.
OperatingIsRunning == state = "operating" => running \in Ids
=============================================================================
