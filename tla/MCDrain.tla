------------------------------ MODULE MCDrain ------------------------------
(***************************************************************************)
(* Drain for TLC: a CPU, a cache and a device, and processes created late. *)
(***************************************************************************)
EXTENDS Drain

CONSTANTS cpu, cache, dev, proc1, proc2
=============================================================================
