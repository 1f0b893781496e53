-------------------------- MODULE MCEventQueueSpec --------------------------
(* An instance of EventQueueSpec, with the events of MCEventQueue.           *)
EXTENDS EventQueueSpec

CONSTANTS tick, io, once, exit

MCPriority == [e \in Events |-> IF e = exit THEN 100 ELSE 50]
MCManaged == {once}
MCExitEvents == {exit}

=============================================================================
