----------------------------- MODULE MCBarrier -----------------------------
(***************************************************************************)
(* Barrier for TLC: four threads whose generation wraps every other time.  *)
(***************************************************************************)
EXTENDS Barrier

CONSTANTS t1, t2, t3, t4
=============================================================================
