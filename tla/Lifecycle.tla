------------------------------ MODULE Lifecycle ------------------------------
(***************************************************************************)
(* What an engine promises of its state (engine.hpp, LifecycleState and    *)
(* the comments of class Engine): it is in exactly one state; it is        *)
(* initialized once; operations run from ready only and come back to it,   *)
(* whatever they return; it may be shut down from every state, once, and   *)
(* nothing follows.  Module Host is shown to keep this promise.            *)
(***************************************************************************)
VARIABLE state

States == {"absent", "created", "initializing", "ready", "operating", "failed",
           "shutdown", "destroyed"}

Move(from, to) == state \in from /\ state' \in to

Create == Move({"absent"}, {"created"})
Initialize == Move({"created"}, {"initializing"})
Initialized == Move({"initializing"}, {"ready", "failed"})
Operate == Move({"ready"}, {"operating"})
Operated == Move({"operating"}, {"ready"})
Shutdown == Move(States \ {"absent", "shutdown", "destroyed"}, {"shutdown"})
Release == Move({"shutdown"}, {"destroyed"})

Init == state = "absent"
Next == \/ Create \/ Initialize \/ Initialized \/ Operate \/ Operated
        \/ Shutdown \/ Release
Spec == Init /\ [][Next]_state
=============================================================================
