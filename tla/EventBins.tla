------------------------------ MODULE EventBins -----------------------------
(***************************************************************************)
(* The list that src/gem5/src/sim/eventq.{hh,cc} keeps the events in: a    *)
(* singly linked list of bins (nextBin), each bin a stack of events of the *)
(* same tick and priority (nextInBin).  Only the top event of a bin has a  *)
(* valid nextBin; the others keep whatever value they had, possibly a      *)
(* pointer to an event that has been freed since.                          *)
(*                                                                         *)
(* A list is a record of its head and of the two links of every event; w   *)
(* gives the events' ticks.                                                *)
(***************************************************************************)
EXTENDS Integers, FiniteSets

CONSTANTS Events, Priority, NoEvent

ASSUME BinsAssumption ==
    /\ IsFiniteSet(Events)
    /\ Priority \in [Events -> Int]
    /\ NoEvent \notin Events

Pointer == Events \cup {NoEvent}
NumEvents == Cardinality(Events)

-----------------------------------------------------------------------------
(* The comparison operators of Event, under the ticks w. *)
Less(w, a, b) == w[a] < w[b] \/ (w[a] = w[b] /\ Priority[a] < Priority[b])
Same(w, a, b) == w[a] = w[b] /\ Priority[a] = Priority[b]

(* The states of a loop in its first n turns: from x, with f for its body. *)
Turns(f, x, n) ==
    LET turn[k \in 0..n] == IF k = 0 THEN x ELSE f[turn[k - 1]]
    IN  turn

(***************************************************************************)
(* The loop "while (curr && *curr < *event)" of insert() and remove(): the *)
(* bins prev and curr it stops at.                                         *)
(***************************************************************************)
FindBin(l, w, e) ==
    LET next == [b \in [prev : Pointer, curr : Pointer] |->
                    IF b.curr # NoEvent /\ Less(w, b.curr, e)
                    THEN [prev |-> b.curr, curr |-> l.nextBin[b.curr]]
                    ELSE b]
    IN  Turns(next, [prev |-> l.head, curr |-> l.nextBin[l.head]], NumEvents)[NumEvents]

(* Fault: an event of curr's key starts a bin of its own. *)
InsertBefore_OwnBin(l, w, e, curr) ==
    [l EXCEPT !.nextBin[e] = curr, !.nextInBin[e] = NoEvent]

(***************************************************************************)
(* Event::insertBefore: e becomes the top of a new bin in front of curr or *)
(* the top of curr's stack.  Linking e to what precedes it is left to      *)
(* insert().                                                               *)
(***************************************************************************)
InsertBefore(l, w, e, curr) ==
    IF curr = NoEvent \/ Less(w, e, curr)
    THEN [l EXCEPT !.nextBin[e] = curr, !.nextInBin[e] = NoEvent]
    ELSE [l EXCEPT !.nextBin[e] = l.nextBin[curr], !.nextInBin[e] = curr]

(* Fault: the head case tests < instead of <=. *)
insert_StrictHead(l, w, e) ==
    IF l.head = NoEvent \/ Less(w, e, l.head)
    THEN [InsertBefore(l, w, e, l.head) EXCEPT !.head = e]
    ELSE LET b == FindBin(l, w, e)
         IN  [InsertBefore(l, w, e, b.curr) EXCEPT !.nextBin[b.prev] = e]

(* EventQueue::insert. *)
insert(l, w, e) ==
    IF l.head = NoEvent \/ ~Less(w, l.head, e)
    THEN [InsertBefore(l, w, e, l.head) EXCEPT !.head = e]
    ELSE LET b == FindBin(l, w, e)
         IN  [InsertBefore(l, w, e, b.curr) EXCEPT !.nextBin[b.prev] = e]

(***************************************************************************)
(* Event::removeItem on the stack under top: the list with e unlinked from *)
(* the stack, and the stack's new top.  Looking for an event that is not   *)
(* there would run off the end of the stack ("event not found!").          *)
(***************************************************************************)
RemoveItem(l, e, top) ==
    LET next == l.nextInBin[top]
        step == [p \in Events |-> IF l.nextInBin[p] = e THEN p ELSE l.nextInBin[p]]
        pred == Turns(step, top, NumEvents)[NumEvents]
    IN  IF e # top
        THEN [l |-> [l EXCEPT !.nextInBin[pred] = l.nextInBin[e]], top |-> top]
        ELSE IF next = NoEvent
        THEN [l |-> l, top |-> l.nextBin[top]]
        ELSE [l |-> [l EXCEPT !.nextBin[next] = l.nextBin[top]], top |-> next]

(* EventQueue::remove. *)
remove(l, w, e) ==
    IF Same(w, l.head, e)
    THEN LET r == RemoveItem(l, e, l.head)
         IN  [r.l EXCEPT !.head = r.top]
    ELSE LET b == FindBin(l, w, e)
             r == RemoveItem(l, e, b.curr)
         IN  [r.l EXCEPT !.nextBin[b.prev] = r.top]

(* Fault: the new top of the head's stack keeps its stale nextBin. *)
Pop_StaleBin(l) ==
    LET next == l.nextInBin[l.head]
    IN  [l EXCEPT !.head = IF next = NoEvent THEN l.nextBin[l.head] ELSE next]

(* The pop of serviceOne: the head's stack shrinks, or the next bin takes over. *)
Pop(l) ==
    LET next == l.nextInBin[l.head]
    IN  IF next = NoEvent
        THEN [l EXCEPT !.head = l.nextBin[l.head]]
        ELSE [l EXCEPT !.nextBin[next] = l.nextBin[l.head], !.head = next]

(***************************************************************************)
(* The walk over the whole list that debugVerify() and dump() make: down   *)
(* every stack, then on to the next bin.  Each linked event is listed with *)
(* the top of its bin.  One step more than there are events would show an  *)
(* event that is linked twice.                                             *)
(***************************************************************************)
Walk(h, bin, inBin) ==
    LET next == [x \in [ev : Pointer, bin : Pointer] |->
                    IF x.ev = NoEvent THEN x
                    ELSE IF inBin[x.ev] # NoEvent
                    THEN [x EXCEPT !.ev = inBin[x.ev]]
                    ELSE [ev |-> bin[x.bin], bin |-> bin[x.bin]]]
        walk == Turns(next, [ev |-> h, bin |-> h], NumEvents)
    IN  [n \in {m \in 1..(NumEvents + 1) : walk[m - 1].ev # NoEvent} |-> walk[n - 1]]

=============================================================================
