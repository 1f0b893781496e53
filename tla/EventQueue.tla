----------------------------- MODULE EventQueue -----------------------------
(***************************************************************************)
(* The event queue as src/gem5/src/sim/eventq.{hh,cc} builds it, on the    *)
(* list of EventBins.                                                      *)
(***************************************************************************)
EXTENDS EventBins

CONSTANTS Managed, ExitEvents, MaxTick

ASSUME QueueAssumption ==
    /\ Managed \subseteq Events /\ ExitEvents \subseteq Events
    /\ MaxTick \in Nat

VARIABLES head,         \* EventQueue::head
          nextBin,      \* Event::nextBin
          nextInBin,    \* Event::nextInBin
          when,         \* Event::_when
          flags,        \* Event::flags, the two bits that change
          curTick,      \* EventQueue::_curTick
          alive,        \* the events that have not been deleted
          serving       \* the event whose process() runs

links == <<head, nextBin, nextInBin>>
vars == <<links, when, flags, curTick, alive, serving>>

Tick == 0..MaxTick

(* The list as a value, for the functions that transform it. *)
List == [head |-> head, nextBin |-> nextBin, nextInBin |-> nextInBin]
SetList(l) == head' = l.head /\ nextBin' = l.nextBin /\ nextInBin' = l.nextInBin

-----------------------------------------------------------------------------
scheduled(e) == "Scheduled" \in flags[e]

(* Fault: a managed event is deleted although it was scheduled again. *)
release_Always(e, f) ==
    alive' = IF e \in Managed THEN alive \ {e} ELSE alive

(* Event::release, given the event's flags after the operation. *)
release(e, f) ==
    alive' = IF e \in Managed /\ "Scheduled" \notin f THEN alive \ {e} ELSE alive

Init ==
    /\ head = NoEvent
    /\ nextBin = [e \in Events |-> NoEvent]
    /\ nextInBin = [e \in Events |-> NoEvent]
    /\ when = [e \in Events |-> 0]
    /\ flags = [e \in Events |-> {}]
    /\ curTick = 0
    /\ alive = Events \ Managed
    /\ serving = NoEvent

(* The Event constructor, on memory that a deleted event may have used. *)
New(e) ==
    /\ e \notin alive
    /\ alive' = alive \cup {e}
    /\ nextBin' = [nextBin EXCEPT ![e] = NoEvent]
    /\ nextInBin' = [nextInBin EXCEPT ![e] = NoEvent]
    /\ when' = [when EXCEPT ![e] = 0]
    /\ flags' = [flags EXCEPT ![e] = {}]
    /\ UNCHANGED <<head, curTick, serving>>

Schedule(e, t) ==
    /\ e \in alive
    /\ t >= curTick
    /\ ~scheduled(e)
    /\ when' = [when EXCEPT ![e] = t]
    /\ SetList(insert(List, when', e))
    /\ flags' = [flags EXCEPT ![e] = @ \cup {"Scheduled"}]
    /\ UNCHANGED <<curTick, alive, serving>>

(***************************************************************************)
(* serviceOne still uses the event after its handler returns, so a handler *)
(* must not deschedule its own event when that would delete it.            *)
(***************************************************************************)
Deschedule(e) ==
    /\ scheduled(e)
    /\ e \notin Managed \/ e # serving
    /\ SetList(remove(List, when, e))
    /\ flags' = [flags EXCEPT ![e] = {}]
    /\ release(e, {})
    /\ UNCHANGED <<when, curTick, serving>>

Reschedule(e, t) ==
    /\ e \in alive
    /\ t >= curTick
    /\ when' = [when EXCEPT ![e] = t]
    /\ SetList(insert(IF scheduled(e) THEN remove(List, when, e) ELSE List, when', e))
    /\ flags' = [flags EXCEPT ![e] = {"Scheduled"}]
    /\ UNCHANGED <<curTick, alive, serving>>

(* Event::squash; its callers hold a pointer to an event they scheduled. *)
Squash(e) ==
    /\ scheduled(e)
    /\ flags' = [flags EXCEPT ![e] = @ \cup {"Squashed"}]
    /\ UNCHANGED <<links, when, curTick, alive, serving>>

(* serviceOne up to the call of process(), or all of it for a squashed event. *)
ServiceOne ==
    /\ serving = NoEvent
    /\ head # NoEvent
    /\ SetList(Pop(List))
    /\ flags' = [flags EXCEPT ![head] = {}]
    /\ IF "Squashed" \notin flags[head]
       THEN /\ curTick' = when[head]
            /\ serving' = head
            /\ alive' = alive
       ELSE /\ release(head, {})
            /\ UNCHANGED <<curTick, serving>>
    /\ UNCHANGED when

(* serviceOne from the return of process(). *)
ProcessDone ==
    /\ serving # NoEvent
    /\ IF serving \in ExitEvents THEN alive' = alive ELSE release(serving, flags[serving])
    /\ serving' = NoEvent
    /\ UNCHANGED <<links, when, flags, curTick>>

(* The end of serviceEvents(t), whose loop is a run of serviceOne steps. *)
AdvanceTo(t) ==
    /\ serving = NoEvent
    /\ t >= curTick
    /\ head # NoEvent => when[head] > t
    /\ curTick' = t
    /\ UNCHANGED <<links, when, flags, alive, serving>>

Next ==
    \/ \E e \in Events :
        \/ New(e)
        \/ Deschedule(e)
        \/ Squash(e)
        \/ \E t \in Tick : Schedule(e, t) \/ Reschedule(e, t)
    \/ ServiceOne
    \/ ProcessDone
    \/ \E t \in Tick : AdvanceTo(t)

Spec == Init /\ [][Next]_vars

-----------------------------------------------------------------------------
(* Every variable keeps its type: links lead to events, ticks stay in range. *)
TypeOK ==
    /\ head \in Pointer
    /\ nextBin \in [Events -> Pointer]
    /\ nextInBin \in [Events -> Pointer]
    /\ when \in [Events -> Tick]
    /\ flags \in [Events -> SUBSET {"Scheduled", "Squashed"}]
    /\ curTick \in Tick
    /\ alive \subseteq Events
    /\ serving \in Pointer

(* The events a walk of the list finds, each with the top of its bin. *)
Linked == Walk(head, nextBin, nextInBin)

LinkedEvents == {Linked[i].ev : i \in DOMAIN Linked}

(***************************************************************************)
(* What EventQueue::debugVerify checks, and more: all events of a stack    *)
(* have the key of their bin, and the keys of the bins increase strictly,  *)
(* so an event's bin is unique and remove() looks for it in the right one; *)
(* no event is linked twice.                                               *)
(***************************************************************************)
debugVerify ==
    LET l == Linked
    IN  \A i \in DOMAIN l :
            /\ Same(when, l[i].ev, l[i].bin)
            /\ \A j \in DOMAIN l : i < j =>
                /\ l[i].ev # l[j].ev
                /\ l[i].bin # l[j].bin => Less(when, l[i].bin, l[j].bin)

(***************************************************************************)
(* Every variable has its type, and the Scheduled flag tells the truth: an *)
(* event has it exactly when a walk of the list finds the event.           *)
(* deschedule() and reschedule() rely on it to find what they remove       *)
(* (otherwise: panic "event not found!"), and the release of a managed     *)
(* event to not delete one that is linked.                                 *)
(***************************************************************************)
ScheduledIffLinked ==
    /\ TypeOK
    /\ {e \in Events : scheduled(e)} = LinkedEvents

(* No pointer that a list walk follows leads to a deleted event. *)
WalksStayAlive == LinkedEvents \cup ({serving} \ {NoEvent}) \subseteq alive

(* The linked events with their keys, in the order serviceOne takes them. *)
ServiceOrder ==
    LET l == Linked
    IN  [i \in DOMAIN l |-> [ev |-> l[i].ev, when |-> when[l[i].ev], pri |-> Priority[l[i].ev]]]

S == INSTANCE EventQueueSpec WITH
        queue <- ServiceOrder,
        squashed <- {e \in Events : "Squashed" \in flags[e]}

(***************************************************************************)
(* The linked list implements the sorted queue of EventQueueSpec: every    *)
(* call has the effect on the service order that the specification gives   *)
(* it, stale nextBin pointers notwithstanding.                             *)
(***************************************************************************)
ImplementsQueue == S!Spec

=============================================================================
