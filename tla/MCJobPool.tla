----------------------------- MODULE MCJobPool -----------------------------
(***************************************************************************)
(* JobPool for TLC: jobs are numbered in the order of the queue.           *)
(***************************************************************************)
EXTENDS JobPool

CONSTANT NumJobs

Queue == [i \in 1..NumJobs |-> i]
=============================================================================
