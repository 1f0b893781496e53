---------------------------- MODULE MCEventQueue ----------------------------
(***************************************************************************)
(* Instances of EventQueue.  Three events of one priority, so that bins    *)
(* become stacks, one of them managed; and an exit event that comes last   *)
(* in its tick.                                                            *)
(***************************************************************************)
EXTENDS EventQueue, TLC

CONSTANTS tick, io, once, exit

MCPriority == [e \in Events |-> IF e = exit THEN 100 ELSE 50]
MCManaged == {once}
MCExitEvents == {exit}

=============================================================================
