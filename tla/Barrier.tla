------------------------------ MODULE Barrier ------------------------------
(***************************************************************************)
(* The reusable barrier of src/gem5/src/base/barrier.hh, on which global   *)
(* events and the simulation threads synchronise: a counter of threads     *)
(* still to come, a generation number and a condition variable.            *)
(*                                                                         *)
(* wait() holds bMutex except inside bCond.wait, so each step below is one *)
(* critical section.  A thread blocked in bCond.wait is woken by           *)
(* notify_all, or spuriously, and then tests the generation again.         *)
(***************************************************************************)
EXTENDS Integers, FiniteSets

CONSTANTS Threads,      \* the threads the barrier is made for
          Modulus,      \* values of the unsigned generation (2^32)
          Rounds        \* bound: how often each thread calls wait()

numWaiting == Cardinality(Threads)

ASSUME BarrierAssumption ==
    /\ IsFiniteSet(Threads) /\ Threads # {}
    /\ Modulus \in Nat /\ Modulus >= 2
    /\ Rounds \in Nat

VARIABLES
    numLeft,    \* Barrier::numLeft
    generation, \* Barrier::generation
    place,      \* "out" of wait(), "blocked" in bCond.wait, or "woken"
    gen,        \* the local gen of wait()
    entered,    \* how often a thread has entered wait()
    left,       \* how often it has returned from wait()
    leads       \* how often wait() has returned true

barrierVars == <<numLeft, generation, place, gen, entered, left, leads>>

(* generation++ on an unsigned. *)
Succ(g) == IF g = Modulus - 1 THEN 0 ELSE g + 1

BarrierInit ==
    /\ numLeft = numWaiting
    /\ generation = 0
    /\ place = [t \in Threads |-> "out"]
    /\ gen = [t \in Threads |-> 0]
    /\ entered = [t \in Threads |-> 0]
    /\ left = [t \in Threads |-> 0]
    /\ leads = 0

(* Fault: the leader wakes one waiter only. *)
Lead_NotifyOne(t) ==
    /\ place[t] = "out" /\ entered[t] < Rounds
    /\ numLeft = 1
    /\ generation' = Succ(generation)
    /\ numLeft' = numWaiting
    /\ \/ \E u \in Threads : place[u] = "blocked" /\ place' = [place EXCEPT ![u] = "woken"]
       \/ (\A u \in Threads : place[u] # "blocked") /\ UNCHANGED place
    /\ entered' = [entered EXCEPT ![t] = @ + 1]
    /\ left' = [left EXCEPT ![t] = @ + 1]
    /\ leads' = leads + 1
    /\ UNCHANGED gen

(* wait() by the last thread of the round. *)
Lead(t) ==
    /\ place[t] = "out" /\ entered[t] < Rounds
    /\ numLeft = 1
    /\ generation' = Succ(generation)
    /\ numLeft' = numWaiting
    /\ place' = [u \in Threads |-> IF place[u] = "blocked" THEN "woken" ELSE place[u]]
    /\ entered' = [entered EXCEPT ![t] = @ + 1]
    /\ left' = [left EXCEPT ![t] = @ + 1]
    /\ leads' = leads + 1
    /\ UNCHANGED gen

(* wait() by any other thread: the generation cannot have changed yet. *)
Block(t) ==
    /\ place[t] = "out" /\ entered[t] < Rounds
    /\ numLeft # 1
    /\ numLeft' = numLeft - 1
    /\ gen' = [gen EXCEPT ![t] = generation]
    /\ place' = [place EXCEPT ![t] = "blocked"]
    /\ entered' = [entered EXCEPT ![t] = @ + 1]
    /\ UNCHANGED <<generation, left, leads>>

Spurious(t) ==
    /\ place[t] = "blocked"
    /\ place' = [place EXCEPT ![t] = "woken"]
    /\ UNCHANGED <<numLeft, generation, gen, entered, left, leads>>

(* Fault: if instead of while. *)
Recheck_NoLoop(t) ==
    /\ place[t] = "woken"
    /\ place' = [place EXCEPT ![t] = "out"]
    /\ left' = [left EXCEPT ![t] = @ + 1]
    /\ UNCHANGED <<numLeft, generation, gen, entered, leads>>

(* The loop in wait() tests the generation and blocks again, or returns false. *)
Recheck(t) ==
    /\ place[t] = "woken"
    /\ \/ /\ gen[t] = generation
          /\ place' = [place EXCEPT ![t] = "blocked"]
          /\ UNCHANGED left
       \/ /\ gen[t] # generation
          /\ place' = [place EXCEPT ![t] = "out"]
          /\ left' = [left EXCEPT ![t] = @ + 1]
    /\ UNCHANGED <<numLeft, generation, gen, entered, leads>>

Done == (\A t \in Threads : left[t] = Rounds) /\ UNCHANGED barrierVars

Step(t) == Lead(t) \/ Block(t) \/ Recheck(t)

BarrierNext == (\E t \in Threads : Step(t) \/ Spurious(t)) \/ Done

BarrierSpec == BarrierInit /\ [][BarrierNext]_barrierVars

(* The callers keep synchronising and runnable threads run; nothing spurious is assumed. *)
FairBarrierSpec == BarrierSpec /\ \A t \in Threads : WF_barrierVars(Step(t))

-----------------------------------------------------------------------------
(* The counters of Barrier and of its callers keep their ranges. *)
BarrierTypeOK ==
    /\ numLeft \in 1..numWaiting
    /\ generation \in 0..(Modulus - 1)
    /\ place \in [Threads -> {"out", "blocked", "woken"}]
    /\ gen \in [Threads -> 0..(Modulus - 1)]
    /\ entered \in [Threads -> Nat]
    /\ left \in [Threads -> Nat]
    /\ leads \in Nat

(***************************************************************************)
(* A barrier, however often it is reused and however late a thread wakes   *)
(* up: no thread has left its k-th wait() before wait() returned true for  *)
(* the k-th time, that happens only after all threads have entered their   *)
(* k-th wait(), and no thread runs a round ahead (Barrier::wait).          *)
(***************************************************************************)
RoundsSeparate ==
    \A t \in Threads : /\ left[t] <= leads /\ leads <= entered[t]
                       /\ entered[t] <= left[t] + 1

(* Every wait() returns: no wake-up is lost, even when the generation wraps. *)
WaitReturns == \A t \in Threads : place[t] # "out" ~> place[t] = "out"
=============================================================================
