--------------------------- MODULE MCParallelSim ---------------------------
(***************************************************************************)
(* Instances of ParallelSim for TLC: the events and their kinds.           *)
(***************************************************************************)
EXTENDS ParallelSim

CONSTANTS dev1, dev2,       \* local events
          exit1, exit2,     \* exitSimLoop
          now1,             \* exitSimLoopNow
          stat1             \* schedStatEvent

KindOfEvents ==
    [g \in Globals |-> IF g = stat1 THEN "stat" ELSE IF g = now1 THEN "exitNow" ELSE "exit"]

Platform(threads, sync, globals, migrate, handled, runs) ==
    [numQueues |-> threads, simQuantum |-> sync, globals |-> globals,
     migration |-> migrate, maxOps |-> handled, maxCalls |-> runs]

(* Two threads with exit events, and the sequential simulator with events of *)
(* every kind.                                                               *)
MCPlatforms == { Platform(2, 2, {exit1, exit2}, TRUE, 2, 2),
                 Platform(1, 0, {exit1, now1, stat1}, FALSE, 3, 3) }
=============================================================================
