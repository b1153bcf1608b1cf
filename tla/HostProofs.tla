----------------------------- MODULE HostProofs -----------------------------
(***************************************************************************)
(* The invariants of module Host and its refinement of Lifecycle hold for  *)
(* every set of arguments a caller may pass and every number of calls.     *)
(*                                                                         *)
(* What makes them inductive is Phases: at each place of the program, what *)
(* the engine is doing there, and what is known of the workspace.          *)
(***************************************************************************)
EXTENDS Host, Induction, FiniteSetTheorems, TLAPS

\* The call in progress and the state of the engine go together.
StateFitsCall ==
  /\ running \in Ids => state = "operating"
  /\ running = "initialize" => state = "initializing"
  /\ running = "shutdown" <=> state = "shutdown"
  /\ state \in {"absent", "created", "ready", "failed", "destroyed"} => Idle

\* Before a script runs nothing has been generated, and no command is known.
Starting ==
  /\ at \in {"lookup", "initialize", "starting", "setup", "unwinding", "embedding"}
       => command = "none"
  /\ at \in {"lookup", "initialize", "starting", "setup"} => landed = FALSE
  /\ at = "lookup" => state = "absent"
  /\ at = "initialize" => state = "created"
  /\ at = "starting" => \/ running = "initialize" /\ answer = Pending /\ services = Services
                        \/ Idle /\ answer # Exception /\ (Succeeded(answer) => state = "ready")
  /\ at = "setup" => state = "ready" /\ answer # Exception

\* A script has not generated anything before its last call, and between its calls
\* the engine is ready.
Scripted ==
  /\ at = "script" => command # "none"
  /\ at \in {"script", "called"} => running \in {"none"} \cup Ids
  /\ at \in {"script", "called"} /\ Idle /\ answer # Exception => state = "ready"
  /\ at = "script" /\ command \in Commands =>
       /\ Idle /\ answer # Exception /\ ~landed
       /\ todo = Calls[command] \/ (command = "new" /\ todo = <<"project.generate">>)
  /\ at = "called" =>
       /\ command \in Commands
       /\ todo = Calls[command] \/ (command = "new" /\ todo = <<"project.generate">>)
       /\ running \in Ids => running = Head(todo) /\ ~landed
       /\ Idle => (landed <=> Head(todo) = "project.generate" /\ Succeeded(answer))

\* From the end of the script to the end of the process.
Closing ==
  /\ at \in {"closing", "stopping", "ended"} /\ command \in Commands
       => (landed <=> command = "new" /\ status = 0)
  /\ at \in {"closing", "unwinding"} => Idle
  /\ at = "stopping" => running = "shutdown" \/ (state = "destroyed" /\ answer = Ok)
  /\ at = "ended" => Idle /\ state \in {"absent", "destroyed"}

Phases == StateFitsCall /\ Starting /\ Scripted /\ Closing
IInv == TypeOK /\ Phases

-----------------------------------------------------------------------------
\* What the default workflow's commands call: `new` plans, then generates, and no
\* other command generates (Host!Calls).
LEMMA CallsFacts ==
  /\ Calls["new"] = <<"project.plan", "project.generate">> /\ "new" \in Commands
  /\ \A c \in Commands \ {"new"} :
       \E id \in Ids \ {"project.generate"} : Calls[c] = <<id>>
<1>1. Commands = {"describe", "operations", "list", "show", "inspect", "verify", "plan", "new"}
  BY DEF Commands, Calls
<1>2. /\ Calls["describe"] = <<"engine.describe">> /\ Calls["operations"] = <<"engine.operations">>
      /\ Calls["list"] = <<"resource.list">> /\ Calls["show"] = <<"kit.resolve">>
      /\ Calls["inspect"] = <<"workspace.inspect">> /\ Calls["verify"] = <<"workspace.verify">>
      /\ Calls["plan"] = <<"project.plan">>
      /\ Calls["new"] = <<"project.plan", "project.generate">>
  BY DEF Calls
<1>3. {"engine.describe", "engine.operations", "resource.list", "kit.resolve", "workspace.inspect",
       "workspace.verify", "project.plan"} \subseteq Ids \ {"project.generate"}
  BY DEF Ids, Introspection, Resolving, Configured, Reading
<1> QED BY <1>1, <1>2, <1>3

\* What a script has left to call, as the phases tell it.
LEMMA TodoFacts ==
  ASSUME NEW c \in Commands, NEW t,
         t = Calls[c] \/ (c = "new" /\ t = <<"project.generate">>)
  PROVE  /\ t # << >> /\ Head(t) \in Ids /\ Len(t) \in Nat
         /\ Len(t) > 1 => c = "new" /\ Tail(t) = <<"project.generate">> /\ Head(t) = "project.plan"
         /\ ~(Len(t) > 1) => (Head(t) = "project.generate" <=> c = "new")
<1>1. {"project.plan", "project.generate"} \subseteq Ids
  BY DEF Ids, Configured
<1>2. CASE c = "new" /\ t = <<"project.plan", "project.generate">>
  BY <1>1, <1>2
<1>3. CASE c = "new" /\ t = <<"project.generate">>
  BY <1>1, <1>3
<1>4. CASE c # "new" /\ t = Calls[c]
  <2>1. PICK id \in Ids \ {"project.generate"} : t = <<id>>
    BY <1>4, CallsFacts
  <2> QED BY <1>4, <2>1
<1> QED BY <1>2, <1>3, <1>4, CallsFacts

\* The names of calls that are not operations.
LEMMA CallNames == {"none", "initialize", "shutdown"} \cap Ids = {}
  BY DEF Ids, Introspection, Resolving, Configured, Reading

LEMMA Initially == Init => IInv
<1> SUFFICES ASSUME Init PROVE IInv
  OBVIOUS
<1> USE DEF Init, EngineInit, HostInit, Idle
<1>1. Ok \in Results
  BY DEF Ok, Result, Results, Codes
<1>2. calls \in 0..MaxCalls
  BY MaxCallsAssumption
<1>3. TypeOK
  BY <1>1, <1>2 DEF TypeOK, Places
<1>4. Phases
  BY CallNames DEF Phases, StateFitsCall, Starting, Scripted, Closing
<1> QED BY <1>3, <1>4 DEF IInv

\* Results: a handler that succeeds is told apart from one that fails, with or
\* without warnings, and both from a call that threw or has not returned.
LEMMA ResultFacts ==
  /\ Ok \in Results /\ \A code \in Codes : Failed(code) \in Results
  /\ \A result \in Results : result # Exception /\ result # Pending
  /\ \A warned \in BOOLEAN : /\ WithDiagnostics(Ok, warned) \in Results
                            /\ Succeeded(WithDiagnostics(Ok, warned))
  /\ \A warned \in BOOLEAN, code \in Codes :
       WithDiagnostics(Failed(code), warned) = Failed(code) /\ ~Succeeded(Failed(code))
  /\ Succeeded(Ok) /\ ~Succeeded(Exception) /\ ~Succeeded(Pending) /\ Pending # Exception
BY DEF Results, Codes, Ok, Failed, Result, Exception, Pending, WithDiagnostics, AddWarning, Succeeded

-----------------------------------------------------------------------------
(* The steps of the engine.                                                *)

LEMMA FinishInitializeStep ==
  ASSUME IInv, FinishInitialize, UNCHANGED hostVars
  PROVE  IInv'
<1> USE DEF IInv, Phases, FinishInitialize, Respond, hostVars
<1>1. TypeOK'
  BY ResultFacts DEF TypeOK, Codes
<1>2. /\ state' \in {"ready", "failed"} /\ running' = "none"
      /\ answer' \in Results /\ (Succeeded(answer') => state' = "ready")
  BY ResultFacts DEF Codes
<1>3. StateFitsCall'
  BY <1>2, CallNames DEF StateFitsCall, Idle
<1>4. Starting'
  BY <1>2, CallNames, ResultFacts DEF Starting, StateFitsCall, Idle
<1>5. Scripted' /\ Closing'
  BY <1>2, CallNames DEF Scripted, Closing, StateFitsCall, Idle
<1> QED BY <1>1, <1>3, <1>4, <1>5

LEMMA HandlerReturnsStep ==
  ASSUME IInv, HandlerReturns, UNCHANGED hostVars
  PROVE  IInv'
<1> USE DEF IInv, Phases, Respond, hostVars
<1>1. PICK ok \in BOOLEAN, warned \in BOOLEAN :
        /\ landed' = (landed \/ (running = "project.generate" /\ ok))
        /\ Respond(WithDiagnostics(IF ok THEN Ok ELSE Failed("handler"), warned))
  BY DEF HandlerReturns
<1>2. /\ running \in Ids /\ running' = "none" /\ state' = "ready" /\ services' = services
      /\ answer' \in Results /\ lastResult' = answer' /\ (Succeeded(answer') <=> ok)
  BY <1>1, ResultFacts DEF HandlerReturns, Codes
<1>3. TypeOK'
  BY <1>1, <1>2 DEF TypeOK
<1>4. StateFitsCall' /\ Starting'
  BY <1>1, <1>2, CallNames, ResultFacts DEF StateFitsCall, Starting, Idle
<1>5. Scripted'
  BY <1>1, <1>2, CallNames, ResultFacts DEF Scripted, StateFitsCall, Starting, Idle
<1>6. Closing'
  BY <1>1, <1>2, CallNames, ResultFacts DEF Closing, StateFitsCall, Starting, Idle
<1> QED BY <1>3, <1>4, <1>5, <1>6

LEMMA HandlerThrowsStep ==
  ASSUME IInv, HandlerThrows, UNCHANGED hostVars
  PROVE  IInv'
<1> USE DEF IInv, Phases, HandlerThrows, hostVars
<1>1. running \in Ids /\ state = "operating"
  BY DEF CanThrow, Ids, Reading, Configured, StateFitsCall
<1>2. TypeOK'
  BY DEF TypeOK
<1>3. StateFitsCall' /\ Starting'
  BY <1>1, CallNames, ResultFacts DEF StateFitsCall, Starting, Idle
<1>4. Scripted' /\ Closing'
  BY <1>1, CallNames, ResultFacts DEF Scripted, Closing, StateFitsCall, Starting, Idle
<1> QED BY <1>2, <1>3, <1>4

LEMMA FinishShutdownStep ==
  ASSUME IInv, FinishShutdown, UNCHANGED hostVars
  PROVE  IInv'
<1> USE DEF IInv, Phases, FinishShutdown, hostVars
<1>1. TypeOK'
  BY ResultFacts DEF TypeOK
<1>2. StateFitsCall' /\ Starting'
  BY CallNames, ResultFacts DEF StateFitsCall, Starting, Idle
<1>3. Scripted' /\ Closing'
  BY CallNames, ResultFacts DEF Scripted, Closing, StateFitsCall, Starting, Idle
<1> QED BY <1>1, <1>2, <1>3

-----------------------------------------------------------------------------
(* The steps of the command-line host.                                     *)

LEMMA FindWorkflowStep ==
  ASSUME IInv, FindWorkflow
  PROVE  IInv'
<1> USE DEF IInv, Phases, FindWorkflow, Create, Idling, engineVars, Leave, Keep
<1>1. TypeOK'
  BY DEF TypeOK, Places
<1>2. StateFitsCall' /\ Starting'
  BY CallNames DEF StateFitsCall, Starting, Idle
<1>3. Scripted' /\ Closing'
  <2>1. command = "none" /\ state = "absent" /\ Idle /\ at' \in {"ended", "initialize"}
    BY DEF StateFitsCall, Starting
  <2>2. "none" \notin Commands
    BY DEF Commands, Calls
  <2>3. at' = "ended" => state' = "absent"
    BY <2>1
  <2> QED BY <2>1, <2>2, <2>3 DEF Scripted, Closing, Idle
<1> QED BY <1>1, <1>2, <1>3

LEMMA CallInitializeStep ==
  ASSUME IInv, CallInitialize
  PROVE  IInv'
<1> USE DEF IInv, Phases, CallInitialize, StartInitialize, Leave, Keep
<1>1. TypeOK'
  BY DEF TypeOK, Places
<1>2. StateFitsCall' /\ Starting'
  BY CallNames DEF StateFitsCall, Starting, Idle
<1>3. Scripted' /\ Closing'
  BY DEF Scripted, Closing
<1> QED BY <1>1, <1>2, <1>3

LEMMA InitializedStep ==
  ASSUME IInv, Initialized
  PROVE  IInv'
<1> USE DEF IInv, Phases, Initialized, Idling, engineVars, Leave, Keep
<1>1. TypeOK'
  BY DEF TypeOK, Places
<1>2. StateFitsCall' /\ Starting'
  BY CallNames DEF StateFitsCall, Starting, Idle, Succeeded
<1>3. Scripted' /\ Closing'
  BY DEF Scripted, Closing, Idle
<1> QED BY <1>1, <1>2, <1>3

LEMMA SetUpStep ==
  ASSUME IInv, SetUp
  PROVE  IInv'
<1> USE DEF IInv, Phases, SetUp, Idling, engineVars, Leave, Keep
<1>1. "none" \notin Commands /\ "custom" \notin Commands
  BY DEF Commands, Calls
<1>2. TypeOK'
  BY DEF TypeOK, Places
<1>3. StateFitsCall' /\ Starting'
  BY DEF StateFitsCall, Starting, Idle
<1>4. Scripted'
  BY <1>1 DEF Scripted, StateFitsCall, Starting, Idle
<1>5. Closing'
  BY <1>1 DEF Closing, StateFitsCall, Starting, Idle
<1> QED BY <1>2, <1>3, <1>4, <1>5

LEMMA ScriptRefusesStep ==
  ASSUME IInv, ScriptRefuses
  PROVE  IInv'
<1> USE DEF IInv, Phases, ScriptRefuses, ScriptEnds, Idling, engineVars, Leave, Keep
<1>1. TypeOK'
  BY DEF TypeOK, Places
<1>2. StateFitsCall' /\ Starting'
  BY DEF StateFitsCall, Starting, Idle
<1>3. Scripted'
  BY DEF Scripted
<1>4. Closing'
  BY DEF Closing, Scripted, Idle
<1> QED BY <1>1, <1>2, <1>3, <1>4

\* A call that is refused before its handler runs leaves the engine as it was.
LEMMA ExecuteFacts ==
  ASSUME IInv, NEW id, NEW p, Execute(id, p)
  PROVE  /\ UNCHANGED <<services, landed>> /\ Idle /\ state # "absent"
         /\ \/ /\ id \in Ids /\ state = "ready" /\ state' = "operating" /\ running' = id
               /\ answer' = Pending /\ lastResult' = lastResult
            \/ /\ UNCHANGED <<state, running>> /\ answer' \in Results /\ ~Succeeded(answer')
               /\ lastResult' = answer'
<1>1. Rejection(id, p) \in Codes
  BY DEF Rejection, Codes
<1>2. Rejection(id, p) = "none" => state = "ready" /\ id \in Ids
  BY DEF Rejection
<1> QED BY <1>1, <1>2, ResultFacts DEF Execute, Respond

LEMMA ScriptCallsStep ==
  ASSUME IInv, ScriptCalls
  PROVE  IInv'
<1> USE DEF IInv, Phases, ScriptCalls
<1>1. "none" \notin Commands
  BY DEF Commands, Calls
<1>2. command \in Commands /\ (todo = Calls[command] \/ (command = "new" /\ todo = <<"project.generate">>))
  BY <1>1 DEF Scripted, TypeOK, Starting
<1>3. TypeOK'
  BY ExecuteFacts DEF TypeOK, Places
<1>4. StateFitsCall' /\ Starting'
  BY ExecuteFacts, CallNames DEF StateFitsCall, Starting, Idle
<1>5. Scripted'
  BY <1>2, ExecuteFacts, CallNames, ResultFacts, TodoFacts DEF Scripted, StateFitsCall, Idle
<1>6. Closing'
  BY DEF Closing
<1> QED BY <1>3, <1>4, <1>5, <1>6

LEMMA ScriptContinuesStep ==
  ASSUME IInv, ScriptContinues
  PROVE  IInv'
<1> USE DEF IInv, Phases, ScriptContinues, Idling, engineVars, Leave
<1>1. command \in Commands /\ (todo = Calls[command] \/ (command = "new" /\ todo = <<"project.generate">>))
  BY DEF Scripted
<1>2. /\ Len(todo) > 1 => command = "new" /\ Tail(todo) = <<"project.generate">> /\ Head(todo) = "project.plan"
      /\ ~(Len(todo) > 1) => (Head(todo) = "project.generate" <=> command = "new")
  BY <1>1, TodoFacts
<1>3. landed <=> Head(todo) = "project.generate" /\ Succeeded(answer)
  BY DEF Scripted
<1>4. \/ ~Succeeded(answer) /\ at' = "closing" /\ status' = 1 /\ todo' = todo
      \/ /\ Succeeded(answer) /\ Len(todo) > 1 /\ at' = "script" /\ status' = status
         /\ todo' = Tail(todo)
      \/ /\ Succeeded(answer) /\ ~(Len(todo) > 1) /\ at' = "closing" /\ todo' = << >>
         /\ \/ status' = 0
            \/ status' = 1 /\ command = "verify"
  OBVIOUS
<1>5. TypeOK'
  <2>1. /\ todo' \in {<< >>} \cup {Calls[c] : c \in Commands} \cup {<<"project.generate">>}
        /\ at' \in Places /\ status' \in {NoStatus, 0, 1, 2, 3, 134}
    BY <1>2, <1>4 DEF TypeOK, Places
  <2> QED BY <2>1 DEF TypeOK
<1>6. StateFitsCall' /\ Starting'
  BY <1>4 DEF StateFitsCall, Starting, Idle
<1>7. Scripted'
  BY <1>1, <1>2, <1>3, <1>4 DEF Scripted, Idle
<1>8. Closing'
  BY <1>1, <1>2, <1>3, <1>4 DEF Closing, Idle, Succeeded
<1> QED BY <1>5, <1>6, <1>7, <1>8

LEMMA CustomCallsStep ==
  ASSUME IInv, CustomCalls
  PROVE  IInv'
<1> USE DEF IInv, Phases, CustomCalls
<1>1. PICK id \in Ids \cup {"unknown"}, p \in Arguments : Execute(id, p)
  OBVIOUS
<1>2. "custom" \notin Commands
  BY DEF Commands, Calls
<1>3. calls' \in 0..MaxCalls
  BY MaxCallsAssumption DEF TypeOK
<1>4. TypeOK'
  BY <1>1, <1>3, ExecuteFacts DEF TypeOK, Places
<1>5. StateFitsCall' /\ Starting'
  BY <1>1, ExecuteFacts, CallNames DEF StateFitsCall, Starting, Idle
<1>6. Scripted' /\ Closing'
  BY <1>1, <1>2, ExecuteFacts, CallNames, ResultFacts DEF Scripted, Closing, StateFitsCall, Idle
<1> QED BY <1>4, <1>5, <1>6

LEMMA CustomEndsStep ==
  ASSUME IInv, CustomEnds
  PROVE  IInv'
<1> USE DEF IInv, Phases, CustomEnds, ScriptEnds, Idling, engineVars, Leave, Keep
<1>1. "custom" \notin Commands
  BY DEF Commands, Calls
<1>2. status' \in {0, 1, 2}
  BY DEF StatusOf
<1>3. TypeOK'
  BY <1>2 DEF TypeOK, Places
<1>4. StateFitsCall' /\ Starting' /\ Scripted' /\ Closing'
  BY <1>1 DEF StateFitsCall, Starting, Scripted, Closing, Idle
<1> QED BY <1>3, <1>4

LEMMA CustomExitsStep ==
  ASSUME IInv, CustomExits
  PROVE  IInv'
<1> USE DEF IInv, Phases, CustomExits, Idling, engineVars, Leave, Keep
<1>1. "custom" \notin Commands
  BY DEF Commands, Calls
<1>2. status' \in {0, 1, 2} /\ at' = "left"
  OBVIOUS
<1>3. TypeOK'
  BY <1>2 DEF TypeOK, Places
<1>4. StateFitsCall' /\ Starting' /\ Scripted' /\ Closing'
  BY <1>1 DEF StateFitsCall, Starting, Scripted, Closing, Idle
<1> QED BY <1>3, <1>4

LEMMA AbortStep ==
  ASSUME IInv, Abort
  PROVE  IInv'
<1> USE DEF IInv, Phases, Abort, Idling, engineVars, Leave, Keep
<1>1. TypeOK'
  BY DEF TypeOK, Places
<1>2. StateFitsCall' /\ Starting' /\ Scripted' /\ Closing'
  BY DEF StateFitsCall, Starting, Scripted, Closing, Idle
<1> QED BY <1>1, <1>2

LEMMA ShutDownStep ==
  ASSUME IInv, ShutDown
  PROVE  IInv'
<1> USE DEF IInv, Phases, ShutDown, StartShutdown, Leave, Keep
<1>1. "none" \notin Commands
  BY DEF Commands, Calls
<1>2. TypeOK'
  BY ResultFacts DEF TypeOK, Places
<1>3. StateFitsCall' /\ Starting' /\ Scripted'
  BY CallNames DEF StateFitsCall, Starting, Scripted, Idle
<1>4. Closing'
  BY <1>1 DEF Closing, Starting
<1> QED BY <1>2, <1>3, <1>4

LEMMA ExitStep ==
  ASSUME IInv, Exit
  PROVE  IInv'
<1> USE DEF IInv, Phases, Exit, Idling, engineVars, Leave, Keep
<1>1. state = "destroyed" /\ answer = Ok
  BY DEF Closing, Idle
<1>2. at' = "ended" /\ status' = status
  BY <1>1, ResultFacts
<1>3. TypeOK'
  BY <1>2 DEF TypeOK, Places
<1>4. StateFitsCall' /\ Starting' /\ Scripted' /\ Closing'
  BY <1>1, <1>2 DEF StateFitsCall, Starting, Scripted, Closing, Idle
<1> QED BY <1>3, <1>4

-----------------------------------------------------------------------------
(* The steps of a program that embeds the engine.                          *)

LEMMA EmbedderCallsStep ==
  ASSUME IInv, EmbedderCalls
  PROVE  IInv'
<1> USE DEF IInv, Phases, EmbedderCalls
<1>1. calls' \in 0..MaxCalls
  BY MaxCallsAssumption DEF TypeOK
<1>2. Scripted' /\ Closing'
  BY DEF Scripted, Closing
<1>3. Starting'
  BY DEF Starting
<1>4. CASE Create
  BY <1>1, <1>2, <1>3, <1>4, CallNames DEF Create, TypeOK, StateFitsCall, Idle
<1>5. CASE StartInitialize
  BY <1>1, <1>2, <1>3, <1>5, CallNames DEF StartInitialize, TypeOK, StateFitsCall, Idle
<1>6. CASE RefuseInitialize
  BY <1>1, <1>2, <1>3, <1>6, ResultFacts DEF RefuseInitialize, Respond, Codes, TypeOK, StateFitsCall, Idle
<1>7. CASE \E id \in Ids \cup {"unknown"}, p \in Arguments : Execute(id, p)
  BY <1>1, <1>2, <1>3, <1>7, ExecuteFacts, CallNames DEF TypeOK, StateFitsCall, Idle
<1>8. CASE StartShutdown
  BY <1>1, <1>2, <1>3, <1>8, CallNames DEF StartShutdown, TypeOK, StateFitsCall, Idle
<1>9. CASE RefuseShutdown
  BY <1>1, <1>2, <1>3, <1>9, ResultFacts DEF RefuseShutdown, Codes, TypeOK, StateFitsCall, Idle
<1> QED BY <1>4, <1>5, <1>6, <1>7, <1>8, <1>9

LEMMA EmbedderEndsStep ==
  ASSUME IInv, EmbedderEnds
  PROVE  IInv'
<1> USE DEF IInv, Phases, EmbedderEnds, Idling, engineVars, StartShutdown, Leave, Keep
<1>1. "none" \notin Commands
  BY DEF Commands, Calls
<1>2. TypeOK'
  BY DEF TypeOK, Places
<1>3. StateFitsCall' /\ Starting' /\ Scripted'
  BY CallNames DEF StateFitsCall, Starting, Scripted, Idle
<1>4. Closing'
  BY <1>1 DEF Closing, Starting, Idle
<1> QED BY <1>2, <1>3, <1>4

-----------------------------------------------------------------------------
LEMMA Inductive == IInv /\ [Next]_vars => IInv'
<1> SUFFICES ASSUME IInv, [Next]_vars PROVE IInv'
  OBVIOUS
<1>1. CASE HostStep
  BY <1>1, FindWorkflowStep, CallInitializeStep, InitializedStep, SetUpStep, ScriptRefusesStep,
     ScriptCallsStep, ScriptContinuesStep, CustomCallsStep, CustomEndsStep, CustomExitsStep, AbortStep,
     ShutDownStep, ExitStep, EmbedderCallsStep, EmbedderEndsStep DEF HostStep
<1>2. CASE EngineStep /\ UNCHANGED hostVars
  BY <1>2, FinishInitializeStep, HandlerReturnsStep, HandlerThrowsStep, FinishShutdownStep
  DEF EngineStep
<1>3. CASE UNCHANGED vars
  BY <1>3 DEF vars, engineVars, hostVars, IInv, TypeOK, Phases, StateFitsCall, Starting, Scripted,
     Closing, Idle
<1> QED BY <1>1, <1>2, <1>3 DEF Next

\* The inductive invariant holds of every behaviour (modules Engine and Host).
THEOREM Invariance == Spec => []IInv
<1> QED BY Initially, Inductive, PTL DEF Spec

\* Every variable of the engine and of the program that holds it keeps its type.
THEOREM TypeCorrect == Spec => []TypeOK
<1>1. IInv => TypeOK
  BY DEF IInv
<1> QED BY <1>1, Invariance, PTL

\* Whatever an operation returned, the next call of a workflow finds the engine
\* ready, unless the operation threw (engine.cpp 844-852).
THEOREM ReadyAgain == Spec => []ReadyBetweenCalls
<1>1. IInv => ReadyBetweenCalls
  BY DEF IInv, Phases, Scripted, ReadyBetweenCalls
<1> QED BY <1>1, Invariance, PTL

\* The process exits 0 from `new` exactly when it generated the workspace, and no
\* other command of the default workflow generates one (init.lua 350-419, main.cpp 360-380).
THEOREM TruthfulExit == Spec => []ExitIsTruthful
<1>1. IInv => ExitIsTruthful
  BY DEF IInv, Phases, Closing, ExitIsTruthful
<1> QED BY <1>1, Invariance, PTL

\* An engine that was created is destroyed before the process ends in order
\* (main.cpp 289-295, 373; engine.cpp 728-734).
THEOREM Released == Spec => []ReleasedAtExit
<1>1. IInv => ReleasedAtExit
  BY DEF IInv, Phases, Closing, ReleasedAtExit
<1> QED BY <1>1, Invariance, PTL

-----------------------------------------------------------------------------
(* The engine keeps the promise of module Lifecycle.                       *)

LEMMA PromiseInitially == Init => Promise!Init
  BY DEF Init, EngineInit, Promise!Init

LEMMA EnginePromise ==
  ASSUME IInv, EngineStep
  PROVE  [Promise!Next]_state
<1> USE DEF IInv, Phases, StateFitsCall, Promise!Next, Promise!Move
<1>1. CASE FinishInitialize
  BY <1>1 DEF FinishInitialize, Promise!Initialized
<1>2. CASE HandlerReturns
  BY <1>2 DEF HandlerReturns, Promise!Operated
<1>3. CASE HandlerThrows
  BY <1>3 DEF HandlerThrows
<1>4. CASE FinishShutdown
  BY <1>4 DEF FinishShutdown, Promise!Release
<1> QED BY <1>1, <1>2, <1>3, <1>4 DEF EngineStep

LEMMA CreatePromise == Create => Promise!Create
  BY DEF Create, Promise!Create, Promise!Move

LEMMA InitializePromise == StartInitialize => Promise!Initialize
  BY DEF StartInitialize, Promise!Initialize, Promise!Move

LEMMA ShutdownPromise == IInv /\ StartShutdown => Promise!Shutdown
  BY DEF IInv, TypeOK, Phases, StateFitsCall, StartShutdown, Idle,
         Promise!Shutdown, Promise!Move, Promise!States

LEMMA ExecutePromise ==
  ASSUME IInv, NEW id, NEW p, Execute(id, p)
  PROVE  [Promise!Operate]_state
  BY ExecuteFacts DEF Promise!Operate, Promise!Move

LEMMA StepPromise == IInv /\ [Next]_vars => [Promise!Next]_state
<1> SUFFICES ASSUME IInv, [Next]_vars PROVE [Promise!Next]_state
  OBVIOUS
<1> USE DEF Promise!Next
<1>1. CASE HostStep
  <2>1. CASE FindWorkflow
    BY <2>1, CreatePromise DEF FindWorkflow, Idling, engineVars
  <2>2. CASE CallInitialize
    BY <2>2, InitializePromise DEF CallInitialize
  <2>3. CASE Initialized \/ SetUp \/ ScriptRefuses \/ ScriptContinues \/ CustomEnds \/ CustomExits
               \/ Abort \/ Exit
    BY <2>3 DEF Initialized, SetUp, ScriptRefuses, ScriptContinues, CustomEnds, CustomExits, Abort,
                Exit, Idling, engineVars
  <2>4. CASE ScriptCalls \/ CustomCalls
    BY <2>4, ExecutePromise DEF ScriptCalls, CustomCalls
  <2>5. CASE ShutDown
    BY <2>5, ShutdownPromise DEF ShutDown
  <2>6. CASE EmbedderCalls
    BY <2>6, CreatePromise, InitializePromise, ShutdownPromise, ExecutePromise
    DEF EmbedderCalls, RefuseInitialize, RefuseShutdown
  <2>7. CASE EmbedderEnds
    BY <2>7, ShutdownPromise DEF EmbedderEnds, Idling, engineVars
  <2> QED BY <1>1, <2>1, <2>2, <2>3, <2>4, <2>5, <2>6, <2>7 DEF HostStep
<1>2. CASE EngineStep
  BY <1>2, EnginePromise
<1>3. CASE UNCHANGED vars
  BY <1>3 DEF vars, engineVars
<1> QED BY <1>1, <1>2, <1>3 DEF Next

\* Every behaviour of an engine, in the hands of the host or of any program, is one
\* of the lifecycle engine.hpp promises.
THEOREM Refinement == Spec => ImplementsLifecycle
<1> QED BY PromiseInitially, StepPromise, Invariance, PTL
        DEF Spec, ImplementsLifecycle, Promise!Spec

-----------------------------------------------------------------------------
(* The boundary: what a value comes back as is well defined, entry by      *)
(* entry, and is accepted wherever the value was.                          *)
Upto(n) == {v \in Value : Depth[v] <= n}
Solves(g, n) == g = [v \in Upto(n) |-> Arrived(g, Pushed(v))]

LEMMA EntriesArrive ==
  ASSUME NEW of, NEW g, NEW h, \A k \in DOMAIN of : g[of[k]] = h[of[k]]
  PROVE  ArrivedEntries(g, of) = ArrivedEntries(h, of)
<1>1. {g[of[k]] : k \in DOMAIN of} = {h[of[k]] : k \in DOMAIN of}
  OBVIOUS
<1> QED BY <1>1 DEF ArrivedEntries

\* A container is a table of its entries that are not null.
LEMMA PushedIs ==
  ASSUME NEW value \in Value
  PROVE  /\ value.kind = "array" => Pushed(value) = Table(Present(value.items), Nothing)
         /\ value.kind = "object" => Pushed(value) = Table(Nothing, Present(value.members))
         /\ value.kind \notin {"array", "object"} => Pushed(value) = value /\ value.kind # "table"
<1>1. value.kind \in {"array", "object"} \/ \E kind \in ScalarKinds : value = Scalar(kind)
  BY ValueAssumption
<1>2. (\E kind \in ScalarKinds : value = Scalar(kind)) => value.kind \in ScalarKinds
  BY DEF Scalar
<1>3. "table" \notin ScalarKinds
  BY DEF ScalarKinds
<1> QED BY <1>1, <1>2, <1>3 DEF Pushed

LEMMA ArrivedLocal ==
  ASSUME NEW value \in Value, NEW g, NEW h,
         \A w \in Value : Depth[w] < Depth[value] => g[w] = h[w]
  PROVE  Arrived(g, Pushed(value)) = Arrived(h, Pushed(value))
<1> DEFINE of == Entries(value)
           kept == Present(of)
<1>1. \A k \in DOMAIN of : Depth[of[k]] < Depth[value]
  BY ValueAssumption
<1>2. value.kind \in {"array", "object"} => \A k \in DOMAIN of : of[k] \in Value
  <2>1. value.kind = "array" => value.items \in Seq(Value) /\ of = value.items
    BY ValueAssumption DEF Entries, Scalar, ScalarKinds
  <2>2. value.kind = "object" => value.members \in [DOMAIN value.members -> Value] /\ of = value.members
    BY ValueAssumption DEF Entries, Scalar, ScalarKinds
  <2> QED BY <2>1, <2>2
<1>3. value.kind \in {"array", "object"} => \A k \in DOMAIN of : g[of[k]] = h[of[k]]
  BY <1>1, <1>2
<1> HIDE DEF of
<1>4. DOMAIN kept \subseteq DOMAIN of /\ \A k \in DOMAIN kept : kept[k] = of[k]
  BY DEF Present
<1>5. DOMAIN Nothing = {}
  BY DEF Nothing
<1>6. ASSUME value.kind \in {"array", "object"}
      PROVE  /\ ArrivedEntries(g, kept) = ArrivedEntries(h, kept)
             /\ ArrivedEntries(g, Nothing) = ArrivedEntries(h, Nothing)
  <2>1. \A k \in DOMAIN kept : g[kept[k]] = h[kept[k]]
    BY <1>3, <1>4, <1>6
  <2> HIDE DEF kept
  <2> QED BY <1>5, <2>1, EntriesArrive
<1>7. ASSUME value.kind = "array" PROVE Arrived(g, Pushed(value)) = Arrived(h, Pushed(value))
  <2> DEFINE lua == Pushed(value)
  <2>1. lua = Table(kept, Nothing)
    BY <1>7, PushedIs DEF Entries, of
  <2>2. lua.list = kept /\ lua.named = Nothing
    BY <2>1 DEF Table
  <2> HIDE DEF lua, kept
  <2>3. \A length : ArrivedAs(g, lua, length) = ArrivedAs(h, lua, length)
    BY <1>6, <1>7, <2>2 DEF ArrivedAs
  <2>4. Arrived(g, lua) = Arrived(h, lua)
    BY <2>3 DEF Arrived
  <2> QED BY <2>4 DEF lua
<1>8. ASSUME value.kind = "object" PROVE Arrived(g, Pushed(value)) = Arrived(h, Pushed(value))
  <2> DEFINE lua == Pushed(value)
  <2>1. lua = Table(Nothing, kept)
    BY <1>8, PushedIs DEF Entries, of
  <2>2. lua.list = Nothing /\ lua.named = kept
    BY <2>1 DEF Table
  <2> HIDE DEF lua, kept
  <2>3. \A length : ArrivedAs(g, lua, length) = ArrivedAs(h, lua, length)
    BY <1>6, <1>8, <2>2 DEF ArrivedAs
  <2>4. Arrived(g, lua) = Arrived(h, lua)
    BY <2>3 DEF Arrived
  <2> QED BY <2>4 DEF lua
<1>9. ASSUME value.kind \notin {"array", "object"}
      PROVE  Arrived(g, Pushed(value)) = Arrived(h, Pushed(value))
  BY <1>9, PushedIs DEF Arrived
<1> QED BY <1>7, <1>8, <1>9

LEMMA SomeSolves == \A n \in Nat : \E g : Solves(g, n)
<1> DEFINE S == {n \in Nat : \E g : Solves(g, n)}
           Of(n, g) == [v \in Upto(n) |-> Arrived(g, Pushed(v))]
<1>1. \A v \in Value : Depth[v] \in Nat
  BY ValueAssumption
<1>2. ASSUME NEW n \in Nat, NEW g,
             \A v \in Upto(n) : \A w \in Value : Depth[w] < Depth[v] => g[w] = Of(n, g)[w]
      PROVE  Solves(Of(n, g), n)
  <2>1. ASSUME NEW v \in Upto(n) PROVE Arrived(g, Pushed(v)) = Arrived(Of(n, g), Pushed(v))
    <3>1. v \in Value
      BY DEF Upto
    <3> HIDE DEF Of
    <3> QED BY <1>2, <3>1, ArrivedLocal
  <2>2. Of(n, g) = [v \in Upto(n) |-> Arrived(Of(n, g), Pushed(v))]
    BY <2>1
  <2> QED BY <2>2 DEF Solves
<1>3. 0 \in S
  <2> DEFINE g == << >>
  <2>1. \A v \in Upto(0) : \A w \in Value : ~(Depth[w] < Depth[v])
    BY <1>1 DEF Upto
  <2>2. Solves(Of(0, g), 0)
    BY <1>2, <2>1
  <2> QED BY <2>2
<1>4. ASSUME NEW n \in Nat, n \in S PROVE n + 1 \in S
  <2>1. PICK g : Solves(g, n)
    BY <1>4
  <2>2. ASSUME NEW v \in Upto(n + 1), NEW w \in Value, Depth[w] < Depth[v]
        PROVE  g[w] = Of(n + 1, g)[w]
    <3>1. w \in Upto(n) /\ w \in Upto(n + 1)
      BY <1>1, <2>2 DEF Upto
    <3>2. g[w] = Arrived(g, Pushed(w))
      BY <2>1, <3>1 DEF Solves
    <3> QED BY <3>1, <3>2
  <2>3. n + 1 \in Nat
    OBVIOUS
  <2>4. Solves(Of(n + 1, g), n + 1)
    BY <1>2, <2>2, <2>3
  <2> QED BY <2>3, <2>4
<1>5. Nat \subseteq S
  <2> HIDE DEF S
  <2> QED BY <1>3, <1>4, SetInduction
<1> QED BY <1>5

LEMMA SolutionsAgree ==
  ASSUME NEW n \in Nat, NEW m \in Nat, NEW g, NEW h, Solves(g, n), Solves(h, m)
  PROVE  \A v \in Value : Depth[v] <= n /\ Depth[v] <= m => g[v] = h[v]
<1> DEFINE Same(d) == \A v \in Value : Depth[v] <= n /\ Depth[v] <= m /\ Depth[v] < d => g[v] = h[v]
           S == {d \in Nat : Same(d)}
<1>1. \A v \in Value : Depth[v] \in Nat
  BY ValueAssumption
<1>2. 0 \in S
  BY <1>1
<1>3. ASSUME NEW d \in Nat, d \in S PROVE d + 1 \in S
  <2> SUFFICES ASSUME NEW v \in Value, Depth[v] <= n, Depth[v] <= m, Depth[v] < d + 1
               PROVE  g[v] = h[v]
    OBVIOUS
  <2>1. v \in Upto(n) /\ v \in Upto(m)
    BY DEF Upto
  <2>2. g[v] = Arrived(g, Pushed(v)) /\ h[v] = Arrived(h, Pushed(v))
    BY <2>1 DEF Solves
  <2>3. ASSUME NEW w \in Value, Depth[w] < Depth[v] PROVE g[w] = h[w]
    <3>1. Depth[w] <= n /\ Depth[w] <= m /\ Depth[w] < d
      BY <1>1, <2>3
    <3> QED BY <1>3, <3>1
  <2> QED BY <2>2, <2>3, ArrivedLocal
<1>4. Nat \subseteq S
  <2> HIDE DEF S
  <2> QED BY <1>2, <1>3, SetInduction
<1>5. n + 1 \in Nat
  OBVIOUS
<1>6. Same(n + 1)
  BY <1>4, <1>5
<1> QED BY <1>1, <1>6

LEMMA ReturnsAre == \A v \in Value : Returns[v] = Arrived(Returns, Pushed(v))
<1> DEFINE All(g) == g = [v \in Value |-> Arrived(g, Pushed(v))]
           At0(n) == CHOOSE g : Solves(g, n)
           some == [v \in Value |-> At0(Depth[v])[v]]
<1>1. \A v \in Value : Depth[v] \in Nat
  BY ValueAssumption
<1>2. \A n \in Nat : Solves(At0(n), n)
  BY SomeSolves
<1> HIDE DEF At0
<1>3. ASSUME NEW v \in Value PROVE some[v] = Arrived(some, Pushed(v))
  <2> DEFINE n == Depth[v]
             g == At0(n)
  <2>1. n \in Nat /\ Solves(g, n) /\ some[v] = g[v]
    BY <1>1, <1>2
  <2>2. v \in Upto(n)
    BY <1>1 DEF Upto
  <2>3. g[v] = Arrived(g, Pushed(v))
    BY <2>1, <2>2 DEF Solves
  <2>4. ASSUME NEW w \in Value, Depth[w] < Depth[v] PROVE g[w] = some[w]
    <3> DEFINE m == Depth[w]
               h == At0(m)
    <3>1. m \in Nat /\ Solves(h, m) /\ some[w] = h[w]
      BY <1>1, <1>2
    <3>2. m <= n /\ m <= m
      BY <1>1, <2>4
    <3> HIDE DEF g, h, some
    <3>3. g[w] = h[w]
      BY <2>1, <3>1, <3>2, SolutionsAgree
    <3> QED BY <3>1, <3>3
  <2> HIDE DEF g, some
  <2>5. Arrived(g, Pushed(v)) = Arrived(some, Pushed(v))
    BY <2>4, ArrivedLocal
  <2> QED BY <2>1, <2>3, <2>5
<1>4. All(some)
  <2>1. some = [v \in Value |-> some[v]]
    OBVIOUS
  <2> HIDE DEF some
  <2> QED BY <1>3, <2>1
<1>5. Returns = CHOOSE g : All(g)
  BY DEF Returns
<1> HIDE DEF All, some
<1>6. All(Returns)
  BY <1>4, <1>5
<1> HIDE DEF Returns
<1> QED BY <1>6 DEF All

LEMMA FormOf ==
  ASSUME NEW value \in Value
  PROVE  /\ value.kind = "array" => value.items \in Seq(Value)
         /\ value.kind = "object" => value.members \in [DOMAIN value.members -> Value]
         /\ value.kind \notin {"array", "object"} => value.kind \in ScalarKinds
<1>1. \A kind \in ScalarKinds : kind \notin {"array", "object"} /\ Scalar(kind).kind = kind
  BY DEF ScalarKinds, Scalar
<1> QED BY <1>1, ValueAssumption

\* A list without a null comes back as a list of as many items: the only border
\* of its table is its length.
LEMMA ListReturns ==
  ASSUME NEW value \in Value, value.kind = "array", NoHoles(value), NEW back \in Returns[value]
  PROVE  back.kind = "array" /\ (back.items = << >> <=> value.items = << >>)
<1> DEFINE kept == Present(value.items)
           lua == Pushed(value)
           n == Len(value.items)
<1>1. value.items \in Seq(Value) /\ n \in Nat /\ DOMAIN value.items = 1..n
  BY FormOf
<1>2. kept = [k \in 1..n |-> value.items[k]]
  BY <1>1 DEF Present, NoHoles
<1>3. lua.kind = "table" /\ lua.list = kept /\ lua.named = Nothing
  BY PushedIs DEF Table
<1>4. back \in Arrived(Returns, lua)
  BY ReturnsAre
<1> HIDE DEF kept, lua, n
<1>5. DOMAIN lua.list = 1..n /\ DOMAIN lua.named = {}
  BY <1>2, <1>3 DEF Nothing
<1>6. PICK length \in Borders(lua) : back \in ArrivedAs(Returns, lua, length)
  BY <1>3, <1>4 DEF Arrived
<1>7. length = n
  <2>1. length \in Int /\ (length = 0 \/ length \in 1..n) /\ length + 1 \notin 1..n
    BY <1>1, <1>5, <1>6, FS_Interval, FS_CardinalityType DEF Borders
  <2> QED BY <1>1, <2>1
<1>8. IsSequence(lua, length)
  BY <1>5, <1>7 DEF IsSequence
<1>9. PICK items : back = Array([i \in 1..n |-> items[i]])
  BY <1>6, <1>7, <1>8 DEF ArrivedAs
<1>10. back.kind = "array" /\ back.items = [i \in 1..n |-> items[i]]
  BY <1>9 DEF Array
<1>11. back.items = << >> <=> n = 0
  BY <1>1, <1>10
<1>12. value.items = << >> <=> n = 0
  BY <1>1 DEF n
<1> QED BY <1>10, <1>11, <1>12

\* An object comes back as an object that is not empty, or as the empty list when
\* no member of it is other than null.
LEMMA ObjectReturns ==
  ASSUME NEW value \in Value, value.kind = "object", NEW back \in Returns[value]
  PROVE  \/ back.kind = "array" /\ back.items = << >>
         \/ back.kind = "object" /\ DOMAIN back.members # {} /\ DOMAIN value.members # {}
<1> DEFINE kept == Present(value.members)
           lua == Pushed(value)
<1>1. lua.kind = "table" /\ lua.list = Nothing /\ lua.named = kept
  BY PushedIs DEF Table
<1>2. back \in Arrived(Returns, lua)
  BY ReturnsAre
<1>3. DOMAIN kept \subseteq DOMAIN value.members
  BY DEF Present
<1> HIDE DEF kept, lua
<1>4. DOMAIN Nothing = {}
  BY DEF Nothing
<1>5. PICK length \in Borders(lua) : back \in ArrivedAs(Returns, lua, length)
  BY <1>1, <1>2 DEF Arrived
<1>6. length = 0
  BY <1>1, <1>4, <1>5 DEF Borders
<1>7. ASSUME IsSequence(lua, length) PROVE back.kind = "array" /\ back.items = << >>
  <2>1. PICK items : back = Array([i \in 1..0 |-> items[i]])
    BY <1>5, <1>6, <1>7 DEF ArrivedAs
  <2>2. back.kind = "array" /\ back.items = [i \in 1..0 |-> items[i]]
    BY <2>1 DEF Array
  <2> QED BY <2>2
<1>8. ASSUME ~IsSequence(lua, length) PROVE back.kind = "object" /\ DOMAIN back.members = DOMAIN kept
  <2>1. PICK list \in ArrivedEntries(Returns, Nothing), named \in ArrivedEntries(Returns, kept) :
          back = Object(Named(list, named))
    BY <1>1, <1>5, <1>8 DEF ArrivedAs
  <2>2. DOMAIN list = {} /\ DOMAIN named = DOMAIN kept
    BY <1>4, <2>1 DEF ArrivedEntries
  <2>3. DOMAIN Named(list, named) = DOMAIN kept
    BY <2>2 DEF Named
  <2> QED BY <2>1, <2>3 DEF Object
<1>9. ~IsSequence(lua, length) => DOMAIN kept # {}
  <2>1. DOMAIN lua.named = DOMAIN kept /\ DOMAIN lua.list = {}
    BY <1>1, <1>4
  <2>2. 1..length = {}
    BY <1>6
  <2> QED BY <2>1, <2>2 DEF IsSequence
<1> QED BY <1>3, <1>7, <1>8, <1>9

LEMMA ScalarReturns ==
  ASSUME NEW value \in Value, value.kind \notin {"array", "object"}, NEW back \in Returns[value]
  PROVE  back = value
<1>1. Pushed(value) = value /\ value.kind # "table"
  BY PushedIs
<1>2. back \in Arrived(Returns, Pushed(value))
  BY ReturnsAre
<1> QED BY <1>1, <1>2 DEF Arrived

LEMMA StillAccepted ==
  ASSUME NEW value \in Value, NEW type \in Types, NoHoles(value),
         TypeMatches(type, KindOfValue(value)), NEW back \in Returns[value]
  PROVE  back # Null /\ TypeMatches(type, KindOfValue(back))
<1>0. Null.kind = "null"
  BY DEF Null
<1>1. ASSUME value.kind = "array" PROVE back # Null /\ KindOfValue(back) = KindOfValue(value)
  <2>1. back.kind = "array" /\ (back.items = << >> <=> value.items = << >>)
    BY <1>1, ListReturns
  <2> QED BY <1>0, <1>1, <2>1 DEF KindOfValue
<1>2. ASSUME value.kind = "object"
      PROVE  /\ back # Null
             /\ KindOfValue(back) \in {"object", "empty array"}
             /\ KindOfValue(back) = "object" => KindOfValue(value) = "object"
             /\ KindOfValue(value) \in {"object", "empty object"}
  <2>1. ASSUME back.kind = "array", back.items = << >>
        PROVE  back # Null /\ KindOfValue(back) = "empty array"
    BY <1>0, <2>1 DEF KindOfValue
  <2>2. ASSUME back.kind = "object", DOMAIN back.members # {}, DOMAIN value.members # {}
        PROVE  back # Null /\ KindOfValue(back) = "object" /\ KindOfValue(value) = "object"
    BY <1>0, <1>2, <2>2 DEF KindOfValue
  <2>3. KindOfValue(value) \in {"object", "empty object"}
    BY <1>2 DEF KindOfValue
  <2> QED BY <1>2, <2>1, <2>2, <2>3, ObjectReturns
<1>3. ASSUME value.kind \notin {"array", "object"}
      PROVE  back # Null /\ TypeMatches(type, KindOfValue(back))
  <2>1. back = value
    BY <1>3, ScalarReturns
  <2>2. KindOfValue(value) = value.kind
    BY <1>3 DEF KindOfValue
  <2>3. value.kind # "null"
    BY <2>2 DEF TypeMatches, Types
  <2> QED BY <1>0, <2>1, <2>3
<1>4. ASSUME value.kind = "object" PROVE TypeMatches(type, KindOfValue(back))
  BY <1>2, <1>4 DEF TypeMatches, Types
<1> QED BY <1>1, <1>2, <1>3, <1>4

\* An argument that an operation accepts is accepted again when a workflow got it
\* from the engine and hands it back, whatever values are passed and however deep
\* they are nested (bindings.cpp, error.cpp type_matches).
THEOREM AcceptedAgain == Spec => []AcceptedAfterRoundTrip
<1>1. AcceptedAfterRoundTrip
  BY StillAccepted DEF AcceptedAfterRoundTrip
<1> QED BY <1>1, PTL
=============================================================================
