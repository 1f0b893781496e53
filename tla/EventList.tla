----------------------------- MODULE EventList -----------------------------
(***************************************************************************)
(* The order in which a gem5 event queue services its events, as pure      *)
(* operators on sequences of entries (src/gem5/src/sim/eventq.{hh,cc}).    *)
(* An entry is a scheduled event together with the key it was inserted     *)
(* under: [ev |-> event, when |-> tick, pri |-> priority].  A queue is the *)
(* sequence of its entries in service order.                               *)
(***************************************************************************)
EXTENDS Integers, Sequences

(* operator< on events: earlier tick first, then lower priority value. *)
Before(a, b) ==
    \/ a.when < b.when
    \/ a.when = b.when /\ a.pri < b.pri

(* Every entry of q comes no later than the ones behind it. *)
Sorted(q) == \A i, j \in 1..Len(q) : i < j => ~Before(q[j], q[i])

(* No event occurs twice in q. *)
Distinct(q) == \A i, j \in 1..Len(q) : q[i].ev = q[j].ev => i = j

(* The events that have an entry in q. *)
EventsOf(q) == {q[i].ev : i \in 1..Len(q)}

(***************************************************************************)
(* EventQueue::insert with Event::insertBefore: the new entry goes behind  *)
(* the entries that are strictly before it and in front of all others; an  *)
(* entry of the same tick and priority is therefore serviced after it (a   *)
(* bin is a stack).                                                        *)
(***************************************************************************)
Insert(q, x) ==
    [i \in 1..(Len(q) + 1) |->
        IF i <= Len(q) /\ Before(q[i], x) THEN q[i]
        ELSE IF i = 1 \/ Before(q[i - 1], x) THEN x
        ELSE q[i - 1]]

(* EventQueue::remove: q without its entry for event e. *)
Without(q, e) ==
    [i \in 1..(Len(q) - 1) |->
        IF \E j \in 1..i : q[j].ev = e THEN q[i + 1] ELSE q[i]]

=============================================================================
