--------------------------- MODULE EventQueueSpec ---------------------------
(***************************************************************************)
(* What a gem5 event queue promises to the simulator: its events are       *)
(* serviced one at a time in order of tick and priority, the most recently *)
(* scheduled one first among equals, simulated time never runs backwards   *)
(* and an event the queue manages is freed only when nothing can reach it. *)
(* EventQueue.tla, the linked list of src/gem5/src/sim/eventq.cc,          *)
(* implements this specification.                                          *)
(*                                                                         *)
(* A step between ServiceOne and ProcessDone is a call made by the handler *)
(* (Event::process) of the event in service; a step outside is a call made *)
(* between two events: from Python, or by the simulator's startup code.    *)
(***************************************************************************)
EXTENDS EventList

CONSTANTS Events,       \* event objects
          Priority,     \* Event::_priority, fixed at construction
          Managed,      \* the events with the Managed flag
          ExitEvents,   \* the events with the IsExitEvent flag
          MaxTick,      \* the last tick
          NoEvent       \* a null Event pointer

ASSUME QueueAssumption ==
    /\ Priority \in [Events -> Int]
    /\ Managed \subseteq Events
    /\ ExitEvents \subseteq Events
    /\ MaxTick \in Nat
    /\ NoEvent \notin Events

VARIABLES queue,        \* the scheduled events in service order
          curTick,      \* EventQueue::_curTick
          squashed,     \* the events with the Squashed flag
          alive,        \* the events that exist
          serving       \* the event whose process() runs, or NoEvent

vars == <<queue, curTick, squashed, alive, serving>>

Tick == 0..MaxTick
Entry == [ev : Events, when : Tick, pri : Int]

EntryOf(e, t) == [ev |-> e, when |-> t, pri |-> Priority[e]]
Scheduled(e) == e \in EventsOf(queue)

(* Fault: a managed event is deleted although it is queued again. *)
Release_Always(e, q) ==
    alive' = IF e \in Managed THEN alive \ {e} ELSE alive

(* Event::release: a managed event that is no longer queued is deleted. *)
Release(e, q) ==
    alive' = IF e \in Managed /\ e \notin EventsOf(q) THEN alive \ {e} ELSE alive

Init ==
    /\ queue = <<>>
    /\ curTick = 0
    /\ squashed = {}
    /\ alive = Events \ Managed
    /\ serving = NoEvent

(* A managed event is allocated. *)
New(e) ==
    /\ e \notin alive
    /\ alive' = alive \cup {e}
    /\ UNCHANGED <<queue, curTick, squashed, serving>>

(* Fault: the assertion that the tick has not passed is missing. *)
Schedule_AnyTick(e, t) ==
    /\ e \in alive
    /\ ~Scheduled(e)
    /\ queue' = Insert(queue, EntryOf(e, t))
    /\ UNCHANGED <<curTick, squashed, alive, serving>>

Schedule(e, t) ==
    /\ e \in alive
    /\ t >= curTick
    /\ ~Scheduled(e)
    /\ queue' = Insert(queue, EntryOf(e, t))
    /\ UNCHANGED <<curTick, squashed, alive, serving>>

(* Fault: the Squashed flag survives the removal. *)
Deschedule_KeepSquashed(e) ==
    /\ Scheduled(e)
    /\ e \notin Managed \/ e # serving
    /\ queue' = Without(queue, e)
    /\ Release(e, queue')
    /\ UNCHANGED <<squashed, curTick, serving>>

(* The handler of a managed event does not deschedule that event. *)
Deschedule(e) ==
    /\ Scheduled(e)
    /\ e \notin Managed \/ e # serving
    /\ queue' = Without(queue, e)
    /\ squashed' = squashed \ {e}
    /\ Release(e, queue')
    /\ UNCHANGED <<curTick, serving>>

(* Fault: an event that is queued is inserted again without being removed. *)
Reschedule_NoRemove(e, t) ==
    /\ e \in alive
    /\ t >= curTick
    /\ queue' = Insert(queue, EntryOf(e, t))
    /\ squashed' = squashed \ {e}
    /\ UNCHANGED <<curTick, alive, serving>>

Reschedule(e, t) ==
    /\ e \in alive
    /\ t >= curTick
    /\ queue' = Insert(IF Scheduled(e) THEN Without(queue, e) ELSE queue, EntryOf(e, t))
    /\ squashed' = squashed \ {e}
    /\ UNCHANGED <<curTick, alive, serving>>

Squash(e) ==
    /\ Scheduled(e)
    /\ squashed' = squashed \cup {e}
    /\ UNCHANGED <<queue, curTick, alive, serving>>

(* The first event is taken off the queue and its handler starts. *)
ServiceOne ==
    /\ serving = NoEvent
    /\ queue # <<>>
    /\ Head(queue).ev \notin squashed
    /\ queue' = Tail(queue)
    /\ curTick' = Head(queue).when
    /\ serving' = Head(queue).ev
    /\ UNCHANGED <<squashed, alive>>

(* A squashed event is taken off the queue and nothing else happens. *)
SkipSquashed ==
    /\ serving = NoEvent
    /\ queue # <<>>
    /\ Head(queue).ev \in squashed
    /\ queue' = Tail(queue)
    /\ squashed' = squashed \ {Head(queue).ev}
    /\ Release(Head(queue).ev, queue')
    /\ UNCHANGED <<curTick, serving>>

(* The handler returns; an exit event goes to the caller, unreleased. *)
ProcessDone ==
    /\ serving # NoEvent
    /\ IF serving \in ExitEvents THEN alive' = alive ELSE Release(serving, queue)
    /\ serving' = NoEvent
    /\ UNCHANGED <<queue, curTick, squashed>>

(* Fault: serviceEvents() moves the time without servicing what is due. *)
AdvanceTo_SkipDue(t) ==
    /\ serving = NoEvent
    /\ t >= curTick
    /\ curTick' = t
    /\ UNCHANGED <<queue, squashed, alive, serving>>

(* serviceEvents() leaves its loop: nothing is due up to tick t. *)
AdvanceTo(t) ==
    /\ serving = NoEvent
    /\ t >= curTick
    /\ queue # <<>> => Head(queue).when > t
    /\ curTick' = t
    /\ UNCHANGED <<queue, squashed, alive, serving>>

Next ==
    \/ \E e \in Events :
        \/ New(e)
        \/ Deschedule(e)
        \/ Squash(e)
        \/ \E t \in Tick : Schedule(e, t) \/ Reschedule(e, t)
    \/ ServiceOne
    \/ SkipSquashed
    \/ ProcessDone
    \/ \E t \in Tick : AdvanceTo(t)

Spec == Init /\ [][Next]_vars

-----------------------------------------------------------------------------
(* Every variable keeps its type: the tick of the queue and of its events, the flags. *)
TypeOK ==
    /\ queue \in Seq(Entry)
    /\ curTick \in Tick
    /\ squashed \subseteq Events
    /\ alive \subseteq Events
    /\ serving \in Events \cup {NoEvent}

(***************************************************************************)
(* The queue stays sorted and holds every event at most once, whatever     *)
(* order schedule, deschedule, reschedule and serviceOne are called in.    *)
(***************************************************************************)
QueueOrdered == Sorted(queue) /\ Distinct(queue)

(***************************************************************************)
(* No event waits at a tick that has passed: "event scheduled in the past" *)
(* (the assertion of doSimLoop, simulate.cc:301) cannot happen on a queue  *)
(* that only its own thread uses.                                          *)
(***************************************************************************)
NoPastEvents == \A i \in 1..Len(queue) : queue[i].when >= curTick

(***************************************************************************)
(* The Squashed flag is never left on an event that is not queued.         *)
(* schedule() does not clear it (eventq.hh:757-782), so a flag left over   *)
(* would silently cancel the event the next time it is scheduled.          *)
(***************************************************************************)
SquashedOnlyQueued == squashed \subseteq EventsOf(queue)

(***************************************************************************)
(* A managed event that serviceOne or a list walk can still reach has not  *)
(* been deleted by release().                                              *)
(***************************************************************************)
NoUseAfterFree == EventsOf(queue) \cup ({serving} \ {NoEvent}) \subseteq alive

(***************************************************************************)
(* Simulated time never runs backwards, and it only moves to the tick of   *)
(* an event being taken off the queue or past an idle stretch.             *)
(***************************************************************************)
TimeMonotone == [][curTick' >= curTick]_vars

=============================================================================
