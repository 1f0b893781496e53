---------------------------- MODULE ParallelSim ----------------------------
(***************************************************************************)
(* Multi-threaded simulation in gem5: one event queue per thread, the      *)
(* simulation loop every thread runs, the global events that bring all     *)
(* threads to a barrier, and the main thread's simulate() that starts and  *)
(* stops the loops (src/gem5/src/sim/simulate.cc, global_event.{hh,cc},    *)
(* eventq.{hh,cc}, src/gem5/src/base/barrier.hh).                          *)
(*                                                                         *)
(* Thread 0 is the main thread, the one that runs Python; the others are   *)
(* its subordinates.  Queue t belongs to thread t.  A queue is a sequence  *)
(* of entries in service order (EventList), as EventQueue.tla shows the    *)
(* linked list to be.                                                      *)
(***************************************************************************)
EXTENDS EventList, FiniteSets

CONSTANTS Platforms,    \* the simulators: number of queues, quantum, migration
          Locals,       \* local events: what the simulated devices schedule
          Globals,      \* global events, except the limit and the quantum event
          Kind,         \* [Globals -> {"exit", "exitNow", "stat"}]
          RunLengths,   \* arguments of simulate()
          Horizon       \* bound: no handler schedules beyond this tick

(* The last tick, 2^64 - 1; as an argument of simulate() it is the default. *)
MaxTick == Horizon + 1

None == "none"
Free == -1              \* no thread holds the mutex

(* simulate_limit_event and quantum_event, and the barrier of SimulatorThreads. *)
limit == "limit"
quantum == "quantum"
threadBarrier == "threads"

GlobalEvents == Globals \cup {limit, quantum}

ASSUME SimAssumption ==
    /\ Horizon \in Nat
    /\ Kind \in [Globals -> {"exit", "exitNow", "stat"}]
    /\ RunLengths \subseteq 1..MaxTick
    /\ \A p \in Platforms :
          /\ p.numQueues \in Nat \ {0} /\ p.simQuantum \in Nat
          /\ p.numQueues > 1 => p.simQuantum > 0
          /\ p.globals \subseteq Globals /\ p.migration \in BOOLEAN
          /\ p.maxOps \in Nat /\ p.maxCalls \in Nat

VARIABLES
    platform,       \* the simulator that runs
    queue,          \* the entries of each event queue, in service order
    async_queue,    \* EventQueue::async_queue: scheduled, not yet inserted
    curTick,        \* EventQueue::_curTick
    service_mutex,  \* EventQueue::service_mutex: the thread that holds it
    globalQMutex,   \* BaseGlobalEvent::globalQMutex
    inParallelMode, \* the global flag of that name
    barrier,        \* numLeft and generation of every Barrier
    pc,             \* where each thread is
    serving,        \* the entry whose process() each thread runs
    gen,            \* the local gen of Barrier::wait
    leader,         \* whether Barrier::wait returned true
    call,           \* the loop of the global schedule() a thread executes, or
                    \* (next) the queue it has migrated to
    started,        \* SimulatorThreads::threads is not empty
    terminate,      \* SimulatorThreads::terminate
    ops, calls      \* what is left of MaxOps and MaxCalls

queues == <<queue, async_queue, curTick>>
locks == <<service_mutex, globalQMutex>>
local == <<serving, gen, leader, call>>
mode == <<platform, inParallelMode, started, terminate>>
control == <<mode, ops, calls>>
vars == <<queues, locks, barrier, pc, local, control>>

NumQueues == platform.numQueues    \* numMainEventQueues
simQuantum == platform.simQuantum  \* ticks between two synchronisations
Migration == platform.migration    \* whether handlers use ScopedMigration
MaxOps == platform.maxOps          \* bound: what all handlers together may do
MaxCalls == platform.maxCalls      \* bound: calls of simulate()

Threads == 0..(NumQueues - 1)
AllThreads == UNION {0..(p.numQueues - 1) : p \in Platforms}

-----------------------------------------------------------------------------
(* The priorities of EventBase. *)
Pri(e) ==
    IF e \in Locals THEN 0                              \* Default_Pri
    ELSE IF e = quantum THEN 95                         \* Progress_Event_Pri
    ELSE IF e = limit THEN 100                          \* Sim_Exit_Pri
    ELSE IF Kind[e] = "exit" THEN 100
    ELSE IF Kind[e] = "stat" THEN 90                    \* Stat_Event_Pri
    ELSE -128                                           \* Minimum_Pri

IsExitEvent(e) == e = limit \/ (e \in Globals /\ Kind[e] \in {"exit", "exitNow"})

EntryOf(e, t) == [ev |-> e, when |-> t, pri |-> Pri(e)]

(* Event::scheduled, for the event's instance on queue q. *)
Scheduled(e, q) == e \in EventsOf(queue[q]) \cup EventsOf(async_queue[q])
Idle(e) == \A q \in Threads : ~Scheduled(e, q) /\ serving[q] # e /\ call[q].ev # e

Goto(t, label) == pc' = [pc EXCEPT ![t] = label]

(* A list of entries inserted one after the other. *)
InsertAll(q, s) ==
    LET ins[n \in 0..Len(s)] == IF n = 0 THEN q ELSE Insert(ins[n - 1], s[n])
    IN  ins[Len(s)]

(* EventQueue::handleAsyncInsertions. *)
HandleAsyncInsertions(q) ==
    /\ queue' = [queue EXCEPT ![q] = InsertAll(@, async_queue[q])]
    /\ async_queue' = [async_queue EXCEPT ![q] = <<>>]

-----------------------------------------------------------------------------
(***************************************************************************)
(* Barrier::wait: the last thread to arrive starts a new generation and    *)
(* goes on; the others wait for the generation to change.  The counter     *)
(* wraps; Barrier.tla shows that two values are enough.                    *)
(***************************************************************************)
FreshBarrier == [numLeft |-> NumQueues, generation |-> 0]

Arrive(t, b, released, waiting) ==
    IF barrier[b].numLeft = 1
    THEN /\ barrier' = [barrier EXCEPT ![b] =
                [numLeft |-> NumQueues, generation |-> 1 - barrier[b].generation]]
         /\ leader' = [leader EXCEPT ![t] = TRUE]
         /\ Goto(t, released)
         /\ gen' = gen
    ELSE /\ barrier' = [barrier EXCEPT ![b].numLeft = @ - 1]
         /\ gen' = [gen EXCEPT ![t] = barrier[b].generation]
         /\ leader' = [leader EXCEPT ![t] = FALSE]
         /\ Goto(t, waiting)

Awake(t, b) == gen[t] # barrier[b].generation

-----------------------------------------------------------------------------
(***************************************************************************)
(* Initially the queues hold what the objects' startup() scheduled: each   *)
(* local event on one queue, at tick 0 or 1.                               *)
(***************************************************************************)
Init ==
    /\ platform \in Platforms
    /\ \E home \in [Locals -> Threads], first \in [Locals -> {0, 1}], order \in [1..Cardinality(Locals) -> Locals] :
        /\ \A e \in Locals : \E i \in DOMAIN order : order[i] = e
        /\ queue = [q \in Threads |->
                InsertAll(<<>>, SelectSeq([i \in DOMAIN order |-> EntryOf(order[i], first[order[i]])],
                                          LAMBDA x : home[x.ev] = q))]
    /\ async_queue = [q \in Threads |-> <<>>]
    /\ curTick = [q \in Threads |-> 0]
    /\ service_mutex = [q \in Threads |-> Free]
    /\ globalQMutex = Free
    /\ inParallelMode = FALSE
    /\ barrier = [b \in GlobalEvents \cup {threadBarrier} |-> FreshBarrier]
    /\ pc = [t \in AllThreads |-> IF t = 0 THEN "python" ELSE "unborn"]
    /\ serving = [t \in Threads |-> None]
    /\ gen = [t \in Threads |-> 0]
    /\ leader = [t \in Threads |-> FALSE]
    /\ call = [t \in Threads |-> [ev |-> None, when |-> 0, next |-> 0, return |-> None]]
    /\ started = FALSE
    /\ terminate = FALSE
    /\ ops = MaxOps
    /\ calls = MaxCalls

-----------------------------------------------------------------------------
(* EventQueue::reschedule on a queue that no other thread is using. *)
Moved(q, e, t) == Insert(IF e \in EventsOf(q) THEN Without(q, e) ELSE q, EntryOf(e, t))

(* Fault: the first synchronisation is at the end of the run, not a quantum from now. *)
Simulate_LateSync(n) ==
    LET end == curTick[0] + n
    IN  /\ pc[0] = "python"
        /\ calls > 0
        /\ queue' = [q \in Threads |-> Insert(Moved(queue[q], limit, end), EntryOf(quantum, end))]
        /\ barrier' = [barrier EXCEPT ![quantum] = FreshBarrier]
        /\ inParallelMode' = TRUE
        /\ calls' = calls - 1
        /\ Goto(0, "start")
        /\ UNCHANGED <<platform, async_queue, curTick, locks, local, started, terminate, ops>>

(***************************************************************************)
(* simulate(n) up to the start of the loop.  The limit event is moved to   *)
(* tick curTick + n; the default n leaves it where it is, except that the  *)
(* first call puts it at MaxTick.  The quantum event is new in every call. *)
(***************************************************************************)
Simulate(n) ==
    LET now == curTick[0]
        first == calls = MaxCalls
        end == IF now + n > MaxTick THEN MaxTick ELSE now + n
        limited == [q \in Threads |->
                        IF n # MaxTick \/ first THEN Moved(queue[q], limit, end) ELSE queue[q]]
    IN  /\ pc[0] = "python"
        /\ calls > 0
        /\ queue' = [q \in Threads |->
                        IF NumQueues > 1 THEN Insert(limited[q], EntryOf(quantum, now + simQuantum))
                        ELSE limited[q]]
        /\ barrier' = [barrier EXCEPT ![quantum] = FreshBarrier]
        /\ inParallelMode' = (NumQueues > 1)
        /\ calls' = calls - 1
        /\ Goto(0, "start")
        /\ UNCHANGED <<platform, async_queue, curTick, locks, local, started, terminate, ops>>

(* SimulatorThreads::runUntilLocalExit: the subordinates are created once. *)
RunUntilLocalExit ==
    /\ pc[0] = "start"
    /\ pc' = [t \in AllThreads |-> IF t = 0 \/ (t \in Threads /\ ~started) THEN "threadBarrier" ELSE pc[t]]
    /\ started' = TRUE
    /\ UNCHANGED <<platform, queues, locks, barrier, local, inParallelMode, terminate, ops, calls>>

ArriveThreads(t) ==
    /\ pc[t] = "threadBarrier"
    /\ Arrive(t, threadBarrier, "released", "threadWait")
    /\ UNCHANGED <<queues, locks, serving, call, control>>

WakeThreads(t) ==
    /\ pc[t] = "threadWait"
    /\ Awake(t, threadBarrier)
    /\ Goto(t, "released")
    /\ UNCHANGED <<queues, locks, barrier, local, control>>

(* thread_main and terminateThreads test terminate after the barrier. *)
Released(t) ==
    /\ pc[t] = "released"
    /\ Goto(t, IF ~terminate THEN "begin" ELSE IF t = 0 THEN "join" ELSE "exited")
    /\ UNCHANGED <<queues, locks, barrier, local, control>>

(* The head of doSimLoop, before the loop: no lock is held. *)
BeginLoop(t) ==
    /\ pc[t] = "begin"
    /\ HandleAsyncInsertions(t)
    /\ Goto(t, "top")
    /\ UNCHANGED <<curTick, locks, barrier, local, control>>

(***************************************************************************)
(* serviceOne takes the first event.  It holds the queue's lock while a    *)
(* local handler runs; a global event gives it up at once (globalBarrier). *)
(***************************************************************************)
ServiceOne(t) ==
    LET x == queue[t][1]
    IN  /\ pc[t] = "top"
        /\ service_mutex[t] = Free
        /\ queue[t] # <<>>
        /\ queue' = [queue EXCEPT ![t] = Tail(@)]
        /\ curTick' = [curTick EXCEPT ![t] = x.when]
        /\ serving' = [serving EXCEPT ![t] = x.ev]
        /\ service_mutex' = [service_mutex EXCEPT ![t] = IF x.ev \in Locals THEN t ELSE Free]
        /\ Goto(t, IF x.ev \in Locals THEN "handler" ELSE "arrive1")
        /\ UNCHANGED <<async_queue, globalQMutex, barrier, gen, leader, call, control>>

-----------------------------------------------------------------------------
(* BarrierEvent::process: first barrier, the leader processes, second barrier. *)
Arrive1(t) ==
    /\ pc[t] = "arrive1"
    /\ Arrive(t, serving[t], "lock1", "wait1")
    /\ UNCHANGED <<queues, locks, serving, call, control>>

Wake1(t) ==
    /\ pc[t] = "wait1"
    /\ Awake(t, serving[t])
    /\ Goto(t, "lock1")
    /\ UNCHANGED <<queues, locks, barrier, local, control>>

(* Fault: every thread that passes the first barrier processes the event. *)
Relock1_All(t) ==
    /\ pc[t] = "lock1"
    /\ service_mutex[t] = Free
    /\ service_mutex' = [service_mutex EXCEPT ![t] = t]
    /\ Goto(t, "process")
    /\ UNCHANGED <<queues, globalQMutex, barrier, local, control>>

(* ScopedRelease takes the lock back; all but the leader release it again. *)
Relock1(t) ==
    /\ pc[t] = "lock1"
    /\ service_mutex[t] = Free
    /\ service_mutex' = [service_mutex EXCEPT ![t] = IF leader[t] THEN t ELSE Free]
    /\ Goto(t, IF leader[t] THEN "process" ELSE "arrive2")
    /\ UNCHANGED <<queues, globalQMutex, barrier, local, control>>

(* The global event's process(): the quantum event schedules itself again. *)
Process(t) ==
    /\ pc[t] = "process"
    /\ IF serving[t] = quantum
       THEN /\ call' = [call EXCEPT ![t] = [ev |-> quantum, when |-> curTick[t] + simQuantum,
                                            next |-> 0, return |-> "arrive2"]]
            /\ Goto(t, "schedule")
            /\ UNCHANGED service_mutex
       ELSE /\ service_mutex' = [service_mutex EXCEPT ![t] = Free]
            /\ Goto(t, "arrive2")
            /\ UNCHANGED call
    /\ UNCHANGED <<queues, globalQMutex, barrier, serving, gen, leader, control>>

Arrive2(t) ==
    /\ pc[t] = "arrive2"
    /\ Arrive(t, serving[t], "lock2", "wait2")
    /\ UNCHANGED <<queues, locks, serving, call, control>>

Wake2(t) ==
    /\ pc[t] = "wait2"
    /\ Awake(t, serving[t])
    /\ Goto(t, "lock2")
    /\ UNCHANGED <<queues, locks, barrier, local, control>>

(* Fault: nothing is inserted after the barrier. *)
Finish_NoInsertions(t) ==
    /\ pc[t] = "lock2"
    /\ service_mutex[t] = Free
    /\ Goto(t, IF ~IsExitEvent(serving[t]) THEN "top" ELSE IF t = 0 THEN "returned" ELSE "threadBarrier")
    /\ serving' = [serving EXCEPT ![t] = None]
    /\ UNCHANGED <<queues, locks, barrier, gen, leader, call, control>>

(* The rest of process() and of serviceOne; an exit event ends doSimLoop. *)
Finish(t) ==
    /\ pc[t] = "lock2"
    /\ service_mutex[t] = Free
    /\ IF serving[t] = quantum THEN HandleAsyncInsertions(t) ELSE UNCHANGED <<queue, async_queue>>
    /\ Goto(t, IF ~IsExitEvent(serving[t]) THEN "top" ELSE IF t = 0 THEN "returned" ELSE "threadBarrier")
    /\ serving' = [serving EXCEPT ![t] = None]
    /\ UNCHANGED <<curTick, locks, barrier, gen, leader, call, control>>

-----------------------------------------------------------------------------
(* Fault: a thread inserts a global event directly in its own queue. *)
GlobalSchedule_OwnDirect(t) ==
    LET c == call[t]
        x == EntryOf(c.ev, c.when)
        last == c.next = NumQueues - 1
    IN  /\ pc[t] = "schedule"
        /\ globalQMutex \in {Free, t}
        /\ IF inParallelMode /\ c.next # t
           THEN /\ async_queue' = [async_queue EXCEPT ![c.next] = Append(@, x)]
                /\ UNCHANGED queue
           ELSE /\ queue' = [queue EXCEPT ![c.next] = Insert(@, x)]
                /\ UNCHANGED async_queue
        /\ IF last
           THEN /\ globalQMutex' = Free
                /\ call' = [call EXCEPT ![t].ev = None]
                /\ Goto(t, c.return)
                /\ service_mutex' = [service_mutex EXCEPT ![t] = IF c.return = "handler" THEN t ELSE Free]
           ELSE /\ globalQMutex' = t
                /\ call' = [call EXCEPT ![t].next = @ + 1]
                /\ UNCHANGED <<pc, service_mutex>>
        /\ UNCHANGED <<curTick, barrier, serving, gen, leader, control>>

(***************************************************************************)
(* One round of the loop in BaseGlobalEvent::schedule, under globalQMutex: *)
(* in parallel mode every queue gets its event through the async queue.    *)
(***************************************************************************)
GlobalSchedule(t) ==
    LET c == call[t]
        x == EntryOf(c.ev, c.when)
        last == c.next = NumQueues - 1
    IN  /\ pc[t] = "schedule"
        /\ globalQMutex \in {Free, t}
        /\ IF inParallelMode
           THEN /\ async_queue' = [async_queue EXCEPT ![c.next] = Append(@, x)]
                /\ UNCHANGED queue
           ELSE /\ queue' = [queue EXCEPT ![c.next] = Insert(@, x)]
                /\ UNCHANGED async_queue
        /\ IF last
           THEN /\ globalQMutex' = Free
                /\ call' = [call EXCEPT ![t].ev = None]
                /\ Goto(t, c.return)
                /\ service_mutex' = [service_mutex EXCEPT ![t] = IF c.return = "handler" THEN t ELSE Free]
           ELSE /\ globalQMutex' = t
                /\ call' = [call EXCEPT ![t].next = @ + 1]
                /\ UNCHANGED <<pc, service_mutex>>
        /\ UNCHANGED <<curTick, barrier, serving, gen, leader, control>>

(* The event handlers of the simulated system: what a local event may do. *)
HandlerStep(t) == pc[t] = "handler" /\ ops > 0 /\ ops' = ops - 1

(* An event on the handler's own queue, at any tick from now on. *)
ScheduleOwn(t, e, w) ==
    /\ HandlerStep(t)
    /\ Idle(e) \/ (e = serving[t] /\ \A q \in Threads : ~Scheduled(e, q))
    /\ w >= curTick[t]
    /\ queue' = [queue EXCEPT ![t] = Insert(@, EntryOf(e, w))]
    /\ UNCHANGED <<async_queue, curTick, locks, barrier, pc, local, mode, calls>>

(* Fault: an event on another queue at any tick. *)
ScheduleOther_AnyTick(t, q, e, w) ==
    /\ HandlerStep(t)
    /\ q \in Threads \ {t}
    /\ Idle(e)
    /\ w >= curTick[t]
    /\ async_queue' = [async_queue EXCEPT ![q] = Append(@, EntryOf(e, w))]
    /\ UNCHANGED <<queue, curTick, locks, barrier, pc, local, mode, calls>>

(* An event on another queue, at least one quantum ahead. *)
ScheduleOther(t, q, e, w) ==
    /\ HandlerStep(t)
    /\ q \in Threads \ {t}
    /\ Idle(e)
    /\ w >= curTick[t] + simQuantum
    /\ async_queue' = [async_queue EXCEPT ![q] = Append(@, EntryOf(e, w))]
    /\ UNCHANGED <<queue, curTick, locks, barrier, pc, local, mode, calls>>

(* Fault: exitSimLoop does not add the quantum. *)
NewGlobal_NoQuantum(t, g, return) ==
    /\ g \in platform.globals /\ Idle(g)
    /\ barrier' = [barrier EXCEPT ![g] = FreshBarrier]
    /\ call' = [call EXCEPT ![t] = [ev |-> g, when |-> curTick[t], next |-> 0, return |-> return]]
    /\ Goto(t, "schedule")

(* exitSimLoop, exitSimLoopNow and schedStatEvent create a global event. *)
NewGlobal(t, g, return) ==
    /\ g \in platform.globals /\ Idle(g)
    /\ barrier' = [barrier EXCEPT ![g] = FreshBarrier]
    /\ call' = [call EXCEPT ![t] =
            [ev |-> g, when |-> curTick[t] + (IF Kind[g] = "exitNow" THEN 0 ELSE simQuantum),
             next |-> 0, return |-> return]]
    /\ Goto(t, "schedule")

HandlerGlobal(t, g) ==
    /\ HandlerStep(t)
    /\ NewGlobal(t, g, "handler")
    /\ UNCHANGED <<queues, locks, serving, gen, leader, mode, calls>>

(* The main loop finds async_exit (or a statistics request) set by a signal. *)
AsyncEvent(g) ==
    /\ pc[0] = "top"
    /\ ops > 0 /\ ops' = ops - 1
    /\ Kind[g] \in {"exit", "stat"}
    /\ service_mutex[0] = Free
    /\ service_mutex' = [service_mutex EXCEPT ![0] = 0]
    /\ NewGlobal(0, g, "top")
    /\ UNCHANGED <<queues, globalQMutex, serving, gen, leader, mode, calls>>

(* Fault: the own queue's lock is kept. *)
MigrateAway_KeepLock(t, q) ==
    /\ Migration
    /\ HandlerStep(t)
    /\ q \in Threads \ {t}
    /\ call' = [call EXCEPT ![t].next = q]
    /\ Goto(t, "migrate")
    /\ UNCHANGED <<queues, locks, barrier, serving, gen, leader, mode, calls>>

(* ScopedMigration: the own queue's lock is given up before the other's is taken. *)
MigrateAway(t, q) ==
    /\ Migration
    /\ HandlerStep(t)
    /\ q \in Threads \ {t}
    /\ service_mutex' = [service_mutex EXCEPT ![t] = Free]
    /\ call' = [call EXCEPT ![t].next = q]
    /\ Goto(t, "migrate")
    /\ UNCHANGED <<queues, globalQMutex, barrier, serving, gen, leader, mode, calls>>

LockOther(t) ==
    /\ pc[t] = "migrate"
    /\ service_mutex[call[t].next] = Free
    /\ service_mutex' = [service_mutex EXCEPT ![call[t].next] = t]
    /\ Goto(t, "away")
    /\ UNCHANGED <<queues, globalQMutex, barrier, local, control>>

(* While away, the handler schedules on the queue it has migrated to. *)
ScheduleAway(t, e, w) ==
    LET q == call[t].next
    IN  /\ pc[t] = "away" /\ ops > 0 /\ ops' = ops - 1
        /\ Idle(e)
        /\ w >= curTick[q]
        /\ queue' = [queue EXCEPT ![q] = Insert(@, EntryOf(e, w))]
        /\ UNCHANGED <<async_queue, curTick, locks, barrier, pc, local, mode, calls>>

LeaveOther(t) ==
    /\ pc[t] = "away"
    /\ service_mutex' = [service_mutex EXCEPT ![call[t].next] = Free]
    /\ Goto(t, "comeBack")
    /\ UNCHANGED <<queues, globalQMutex, barrier, local, control>>

LockOwn(t) ==
    /\ pc[t] = "comeBack"
    /\ service_mutex[t] = Free
    /\ service_mutex' = [service_mutex EXCEPT ![t] = t]
    /\ Goto(t, "handler")
    /\ UNCHANGED <<queues, globalQMutex, barrier, local, control>>

(* The handler returns, and with it serviceOne. *)
HandlerDone(t) ==
    /\ pc[t] = "handler"
    /\ service_mutex' = [service_mutex EXCEPT ![t] = Free]
    /\ serving' = [serving EXCEPT ![t] = None]
    /\ Goto(t, "top")
    /\ UNCHANGED <<queues, globalQMutex, barrier, gen, leader, call, control>>

-----------------------------------------------------------------------------
(* simulate() after doSimLoop: the quantum event is descheduled and deleted. *)
SimulateReturns ==
    /\ pc[0] = "returned"
    /\ inParallelMode' = FALSE
    /\ queue' = [q \in Threads |->
                    IF quantum \in EventsOf(queue[q]) THEN Without(queue[q], quantum) ELSE queue[q]]
    /\ Goto(0, "python")
    /\ UNCHANGED <<platform, async_queue, curTick, locks, barrier, local, started, terminate, ops, calls>>

(* SimulatorThreads::terminateThreads, before fork() and at exit. *)
TerminateThreads ==
    /\ pc[0] = "python"
    /\ started
    /\ terminate' = TRUE
    /\ Goto(0, "threadBarrier")
    /\ UNCHANGED <<platform, queues, locks, barrier, local, inParallelMode, started, ops, calls>>

Join ==
    /\ pc[0] = "join"
    /\ \A t \in Threads \ {0} : pc[t] = "exited"
    /\ pc' = [t \in AllThreads |-> IF t = 0 THEN "python" ELSE "unborn"]
    /\ terminate' = FALSE
    /\ started' = FALSE
    /\ UNCHANGED <<platform, queues, locks, barrier, local, inParallelMode, ops, calls>>

(* The process has nothing left to do. *)
Exited ==
    /\ pc[0] = "python" /\ calls = 0 /\ ~started
    /\ UNCHANGED vars

(* The steps of a thread inside the simulation, up to the choices of its handlers. *)
ThreadStep(t) ==
    \/ ArriveThreads(t) \/ WakeThreads(t) \/ Released(t) \/ BeginLoop(t) \/ ServiceOne(t)
    \/ Arrive1(t) \/ Wake1(t) \/ Relock1(t) \/ Process(t)
    \/ Arrive2(t) \/ Wake2(t) \/ Finish(t)
    \/ GlobalSchedule(t)
    \/ LockOther(t) \/ LeaveOther(t) \/ LockOwn(t) \/ HandlerDone(t)

HandlerChoice(t) ==
    \/ \E e \in Locals, w \in 0..Horizon : ScheduleOwn(t, e, w) \/ ScheduleAway(t, e, w)
    \/ \E q \in AllThreads, e \in Locals, w \in 0..Horizon : ScheduleOther(t, q, e, w)
    \/ \E g \in Globals : HandlerGlobal(t, g)
    \/ \E q \in AllThreads : MigrateAway(t, q)

MainStep == RunUntilLocalExit \/ SimulateReturns \/ Join

Next ==
    \/ \E n \in RunLengths : Simulate(n)
    \/ MainStep
    \/ TerminateThreads
    \/ \E g \in Globals : AsyncEvent(g)
    \/ \E t \in AllThreads : ThreadStep(t) \/ HandlerChoice(t)
    \/ Exited

(* The operating system runs every thread that can run. *)
Fairness == WF_vars(MainStep) /\ \A t \in AllThreads : WF_vars(ThreadStep(t))

Spec == Init /\ [][Next]_vars
FairSpec == Spec /\ Fairness

-----------------------------------------------------------------------------
(* Where a thread may be. *)
Outside == {"python", "start", "returned", "join", "unborn", "exited",
            "threadBarrier", "threadWait", "released"}
InEvent == {"arrive1", "wait1", "lock1", "process", "arrive2", "wait2", "lock2"}
InLoop == {"begin", "top", "handler", "schedule", "migrate", "away", "comeBack"} \cup InEvent

Entry == {x \in [ev : Locals \cup GlobalEvents, when : Nat, pri : {-128, 0, 90, 95, 100}] :
            x.pri = Pri(x.ev)}

(* Every variable keeps its type. *)
TypeOK ==
    /\ \A q \in Threads : /\ \A i \in DOMAIN queue[q] : queue[q][i] \in Entry
                          /\ \A i \in DOMAIN async_queue[q] : async_queue[q][i] \in Entry
                          /\ Sorted(queue[q])
                          /\ Distinct(queue[q] \o async_queue[q])
    /\ curTick \in [Threads -> Nat]
    /\ service_mutex \in [Threads -> Threads \cup {Free}]
    /\ globalQMutex \in Threads \cup {Free}
    /\ \A b \in DOMAIN barrier : barrier[b] \in [numLeft : 1..NumQueues, generation : {0, 1}]
    /\ pc \in [AllThreads -> Outside \cup InLoop]
    /\ serving \in [Threads -> Locals \cup GlobalEvents \cup {None}]
    /\ gen \in [Threads -> {0, 1}] /\ leader \in [Threads -> BOOLEAN]
    /\ inParallelMode \in BOOLEAN /\ started \in BOOLEAN /\ terminate \in BOOLEAN
    /\ ops \in 0..MaxOps /\ calls \in 0..MaxCalls

(***************************************************************************)
(* Every variable has its type, and the two assertions at the top of the   *)
(* loop in doSimLoop hold: there is always an event to service, and it is  *)
(* never in the past, whatever handlers on other threads put on the queue  *)
(* meanwhile.                                                              *)
(***************************************************************************)
LoopAsserts ==
    /\ TypeOK
    /\ \A t \in Threads : pc[t] = "top" => queue[t] # <<>> /\ curTick[t] <= queue[t][1].when

(***************************************************************************)
(* The first assertion of EventQueue::schedule, for global events: the     *)
(* tick has not passed on the queue it is put on, although that queue's    *)
(* thread runs on while the loop in BaseGlobalEvent::schedule does.        *)
(***************************************************************************)
ScheduleAssert ==
    \A t \in Threads : pc[t] = "schedule" => call[t].when >= curTick[call[t].next]

(***************************************************************************)
(* Threads in the loop are never more than a quantum apart, so an event a  *)
(* handler puts on another queue one quantum ahead is not in its past      *)
(* (eventq.hh, the rules for parallel simulation; GlobalSyncEvent).        *)
(***************************************************************************)
QuantumSkew ==
    inParallelMode => \A t, u \in Threads : curTick[u] <= curTick[t] + simQuantum

(***************************************************************************)
(* Global events are totally ordered (global_event.cc): no two threads are *)
(* waiting for each other at the first barriers of different events.       *)
(***************************************************************************)
GlobalOrder ==
    \A t, u \in Threads : {pc[t], pc[u]} \subseteq {"arrive1", "wait1"} => serving[t] = serving[u]

(***************************************************************************)
(* Two places count on being alone.  A thread that executes process() of a *)
(* global event does so at the same tick for all, while every other thread *)
(* is between the two barriers of that event.  And while Python, or        *)
(* simulate() outside its loop, runs on the main thread, no subordinate    *)
(* can touch a queue: those not yet waiting at the thread barrier are      *)
(* leaving an exit event; all queues are at the same tick (simulate.cc,    *)
(* the comments in runUntilLocalExit and terminateThreads).                *)
(***************************************************************************)
ProcessAlone ==
    \A t \in Threads :
        pc[t] = "process" \/ (pc[t] = "schedule" /\ call[t].return = "arrive2") =>
            \A u \in Threads \ {t} : /\ serving[u] = serving[t]
                                     /\ curTick[u] = curTick[t]
                                     /\ pc[u] \in {"wait1", "lock1", "arrive2", "wait2"}

MainAlone ==
    pc[0] \in {"python", "start", "returned"} =>
        /\ \A t \in Threads \ {0} :
              \/ pc[t] \in {"unborn", "exited", "threadBarrier", "threadWait"}
              \/ pc[t] \in {"wait2", "lock2"} /\ IsExitEvent(serving[t])
        /\ \A q \in Threads : service_mutex[q] = Free /\ curTick[q] = curTick[0]

Alone == ProcessAlone /\ MainAlone

(***************************************************************************)
(* When simulate() returns and its unique_ptr deschedules and deletes the  *)
(* quantum event, no thread is inside it and each of its local events is   *)
(* in its queue's list, where EventQueue::remove can find it.              *)
(***************************************************************************)
QuantumRemovable ==
    pc[0] = "returned" /\ inParallelMode =>
        \A q \in Threads : serving[q] # quantum /\ quantum \in EventsOf(queue[q])

(* A call of simulate() returns to Python: the threads never block each other. *)
SimulateEnds == pc[0] = "start" ~> pc[0] = "python"

=============================================================================
