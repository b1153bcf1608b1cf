------------------------------- MODULE Engine -------------------------------
(***************************************************************************)
(* An engine and the calls made on it (engine.cpp, class Engine).  A call  *)
(* blocks its caller: running names the call in progress, answer is what   *)
(* the last one returned, or that it threw.                                *)
(*                                                                         *)
(* A handler is what it may do to the engine: succeed, succeed with        *)
(* warnings, fail, throw; and whether a workspace lands.  What decides it  *)
(* is in modules Resolution, Generation and Transaction: apply() reports   *)
(* success exactly when its rename has landed the workspace.               *)
(***************************************************************************)
EXTENDS Operations

CONSTANT Arguments   \* the parameters a caller may pass

VARIABLES
  state,      \* LifecycleState; "absent" before Engine::create
  services,   \* what is registered with the locator
  running,    \* the call in progress, "none"
  lastResult, \* Engine::last_result()
  answer,     \* what the caller got: a result, Exception, Pending
  landed      \* whether this engine has generated a workspace

engineVars == <<state, services, running, lastResult, answer, landed>>

Services == {"filesystem", "resource", "template", "kit", "package", "asset",
             "validation", "metadata", "project", "transaction"}

Result(status, code) == [status |-> status, code |-> code]
Ok == Result("success", "none")
Failed(code) == Result("failure", code)
Codes == {"none", "lifecycle.invalid_state", "internal.service.missing",
          "validation.operation.unknown", "validation.parameter.invalid", "handler", "index"}
Results == [status : {"success", "warning", "failure"}, code : Codes]
Exception == Result("exception", "none")
Pending == Result("pending", "none")

Succeeded(result) == result.status \in {"success", "warning"}

\* with_diagnostics: a warning promotes success, and never softens a failure.
AddWarningSoftening(result) == [result EXCEPT !.status = "warning"]
AddWarning(result) ==
  IF result.status = "success" THEN [result EXCEPT !.status = "warning"] ELSE result
WithDiagnostics(result, warned) == IF warned THEN AddWarning(result) ELSE result

Idle == running = "none"

Respond(result) == lastResult' = result /\ answer' = result

-----------------------------------------------------------------------------
EngineInit ==
  /\ state = "absent" /\ services = {} /\ running = "none"
  /\ lastResult = Ok /\ answer = Pending /\ landed = FALSE

Create == state = "absent" /\ state' = "created"
          /\ UNCHANGED <<services, running, lastResult, answer, landed>>

StartInitializePartly ==
  /\ Idle /\ state = "created"
  /\ state' = "initializing" /\ services' = Services \ {"asset"} /\ running' = "initialize"
  /\ answer' = Pending /\ UNCHANGED <<lastResult, landed>>
StartInitialize ==
  /\ Idle /\ state = "created"
  /\ state' = "initializing" /\ services' = Services /\ running' = "initialize"
  /\ answer' = Pending /\ UNCHANGED <<lastResult, landed>>

FinishInitialize ==
  /\ running = "initialize" /\ running' = "none"
  /\ \E indexed, warned \in BOOLEAN :
       IF Services \subseteq services
       THEN /\ state' = IF indexed THEN "ready" ELSE "failed"
            /\ Respond(WithDiagnostics(IF indexed THEN Ok ELSE Failed("index"), warned))
       ELSE state' = "failed" /\ Respond(Failed("internal.service.missing"))
  /\ UNCHANGED <<services, landed>>

RefuseInitialize ==
  /\ Idle /\ state \notin {"absent", "created"}
  /\ Respond(Failed("lifecycle.invalid_state"))
  /\ UNCHANGED <<state, services, running, landed>>

\* The rejections of execute, in their order.
Rejection(id, parameters) ==
  IF state # "ready" THEN "lifecycle.invalid_state"
  ELSE IF id \notin Ids THEN "validation.operation.unknown"
  ELSE IF ~ValidParameters(id, parameters) THEN "validation.parameter.invalid"
  ELSE "none"

Execute(id, parameters) ==
  /\ Idle /\ state # "absent"
  /\ IF Rejection(id, parameters) = "none"
     THEN state' = "operating" /\ running' = id /\ answer' = Pending /\ UNCHANGED lastResult
     ELSE Respond(Failed(Rejection(id, parameters))) /\ UNCHANGED <<state, running>>
  /\ UNCHANGED <<services, landed>>

CanFail(id) == id \notin Introspection
\* Only these hand their diagnostics to with_diagnostics.
CanWarn(id) == id \in Resolving \/ id \in Configured \ {"config.validate"}
\* read_file throws on a directory, and two operations read what a user may have
\* made one; apply() throws where a path cannot be reached, before anything landed.
CanThrow(id) == id \in Reading \cup {"project.generate"}

HandlerReturnsFailed ==
  /\ running \in Ids /\ running' = "none"
  /\ \E ok, warned \in BOOLEAN :
       /\ ok \/ CanFail(running)
       /\ warned => CanWarn(running)
       /\ landed' = (landed \/ (running = "project.generate" /\ ok))
       /\ state' = IF ok THEN "ready" ELSE "failed"
       /\ Respond(WithDiagnostics(IF ok THEN Ok ELSE Failed("handler"), warned))
  /\ UNCHANGED services
HandlerReturns ==
  /\ running \in Ids /\ running' = "none"
  /\ \E ok, warned \in BOOLEAN :
       /\ ok \/ CanFail(running)
       /\ warned => CanWarn(running)
       /\ landed' = (landed \/ (running = "project.generate" /\ ok))
       /\ Respond(WithDiagnostics(IF ok THEN Ok ELSE Failed("handler"), warned))
  /\ state' = "ready"
  /\ UNCHANGED services

HandlerThrowsCaught ==
  /\ CanThrow(running) /\ running' = "none"
  /\ Respond(Failed("handler"))
  /\ UNCHANGED <<state, services, landed>>
\* Nothing between a handler and the caller of execute catches anything: the
\* assignments after the handler's call are skipped.
HandlerThrows ==
  /\ CanThrow(running) /\ running' = "none"
  /\ answer' = Exception
  /\ UNCHANGED <<state, services, lastResult, landed>>

StartShutdown ==
  /\ Idle /\ state \notin {"absent", "destroyed"}
  /\ state' = "shutdown" /\ running' = "shutdown" /\ answer' = Pending
  /\ UNCHANGED <<services, lastResult, landed>>

FinishShutdown ==
  /\ running = "shutdown" /\ running' = "none"
  /\ state' = "destroyed" /\ answer' = Ok
  /\ UNCHANGED <<services, lastResult, landed>>

RefuseShutdown ==
  /\ Idle /\ state = "destroyed"
  /\ answer' = Failed("lifecycle.invalid_state")
  /\ UNCHANGED <<state, services, running, lastResult, landed>>

\* What a call in progress does; its caller waits.
EngineStep == FinishInitialize \/ HandlerReturns \/ HandlerThrows \/ FinishShutdown
=============================================================================
