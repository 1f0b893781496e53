# TLA+ models of gem5 and of the experiment scheduler

The repository is gem5 with a layer of scripts that build profile-guided
binaries of it and measure them. Modelled here are the parts on which every
simulation and every measurement depends and whose errors a test would hardly
reach:

- gem5's simulation kernel: the event queue, the loop that services it on one or
  several threads, the global events and barriers that keep the threads together,
  and the drain protocol that brings the system to rest;
- two of the simulated machines: Ruby's MESI two-level coherence protocol, which
  the Ruby configurations of `gem5_config/` use, and the renaming, commit and
  squash machinery of the out-of-order CPU;
- the script that runs hundreds of gem5 processes, can be killed and started again,
  and collects their times.

All paths below are relative to `src/`; `gem5:` stands for `gem5/src/`.

## Inventory

| part | state | operations | what makes it hard |
|---|---|---|---|
| event queue (`gem5:sim/eventq.{hh,cc}`) | a list of bins, each a stack of events of one tick and priority; flags, tick and links in the events | schedule, deschedule, reschedule, squash, serviceOne, serviceEvents, release of managed events | links that are stale by design; events that free themselves; handlers that call back into the queue |
| simulation loop (`gem5:sim/simulate.cc`) | the limit event, the quantum event, the threads, their barrier | simulate, set_max_tick, runUntilLocalExit, terminateThreads, doSimLoop, asynchronous exits and statistics | threads that enter and leave the loop at their own pace, Python running on one of them |
| global events (`gem5:sim/global_event.{hh,cc}`, `sim_events.cc`, `stat_control.cc`) | one local event per queue, a barrier, globalQMutex, the async queues | schedule, reschedule, deschedule, process, exitSimLoop, exitSimLoopNow, schedStatEvent | all threads must meet all global events in the same order or they deadlock |
| barrier (`gem5:base/barrier.hh`) | numLeft, generation, a condition variable | wait | reuse, late wake-ups, a counter that wraps |
| drain manager (`gem5:sim/drain.{hh,cc}`, `gem5:python/m5/simulate.py`) | the state and the count of the manager, the state of every object | drain, tryDrain, signalDrainDone, resume, preCheckpointRestore, registration | drained objects are disturbed; objects are created meanwhile; other exit events interfere |
| experiment scheduler (`runscripts/run_fig347_backend.sh`) | a pool of CPUs, the running jobs, the CSV file, a stats.txt per job | run_jobs_in_parallel, run_gem5_simulation, record_result_to_csv | failures, memory pressure, a kill that leaves the background jobs running beside those of the next run |
| Ruby coherence (`gem5:mem/ruby/protocol/MESI_Two_Level-*.sm`, `gem5:mem/ruby/system/Sequencer.cc`) | state, data and TBE of a line in every L1, the L2 and the directory; stall maps; messages | the transitions of loads, stores, fetches, LL/SC, locked read-modify-writes, replacements | a network without order: upgrades, writebacks, invalidations and forwarded requests cross |
| out-of-order CPU (`gem5:cpu/o3/`) | rename map, free list, history; skid buffer, ROB, wires between stages | rename, squash, commit, block and unblock, serialize | stages that learn of each other one or two cycles late |
| classic memory system, distributed simulation, standard library | | | see "Not modelled" |

The properties that make these parts correct:

- *event queue*: service in order of tick and priority, the latest first among
  equals; time never runs backwards; the Scheduled flag tells the truth; nothing
  that can still be reached is freed; no squash is left over;
- *simulation loop and global events*: there is always an event and never one in
  the past; threads are at most a quantum apart; global events are totally
  ordered; one thread processes a global event while all others wait at the same
  tick; Python runs alone; simulate() returns;
- *barrier*: rounds do not mix, every wait() returns;
- *drain*: a drained system is at rest, the count is exact, drain() returns,
  everything is resumed;
- *scheduler*: a CPU per job and none lost, one sound row for a job that never had
  two processes at once, no job forgotten, the script ends;
- *coherence*: readers see the last write, one writer at a time, atomic pairs
  are atomic, memory is up to date when nobody caches the line, no message meets a
  state without a transition for it, every request is answered;
- *out-of-order CPU*: no register is lost, doubled or freed while in use, the
  speculative and the committed map agree, no instruction disappears, buffers do
  not overflow, serializing instructions serialize, no stage waits for ever.

`PROJECT.json` lists the hazards of each part at the line where they bite, with
the property that would show one going wrong.

## Modules

| module | models | 
|---|---|
| `EventList` | order, insertion and removal as operators on sequences |
| `EventQueueSpec` | what an event queue promises |
| `EventBins` | the linked list of bins as a value: insertion, removal, pop and walk |
| `EventQueue` | the queue on that list, which implements the specification |
| `ParallelSim` | the simulation loop on several threads, global events, simulate() |
| `Barrier` | the barrier, one step per critical section |
| `Drain` | drain manager, drainable objects and the Python functions |
| `JobPool` | the experiment scheduler |
| `MESITwoLevel` | L1 and L2 controllers, directory, sequencer and network for one line |
| `RenameMap` | rename map, free list and history: what renaming promises |
| `O3Pipeline` | the stages that rename, squash and commit; implements `RenameMap` |
| `...Proofs` | lemmas and theorems about the module of that name; those about `EventList` are in `EventQueueSpecProofs`, those about `RenameMap` and `O3Pipeline` in `O3Proofs`, `O3SquashProofs` and `O3CommitProofs`, those about `Drain` and `Barrier`, neither of which uses the other, in `SyncProofs` |
| `MC...` | the instances for TLC |

Operators whose names have a suffix (`Reschedule_NoRemove`, `Launch_KeepCpu`) are
faults: plausible bugs that take the place of the operator they are named after
to show that a property would notice them. No specification uses them.

### Event queue

`EventQueueSpec` has one action per call on the queue. Its state is the sequence
of entries in service order, the tick, the squashed events, the events that exist
and the event in service. `serviceOne` is two actions, because the handler it
calls may call every other operation: `ServiceOne` (or `SkipSquashed`) up to the
call of `process()`, `ProcessDone` from its return. `AdvanceTo` is the end of
`serviceEvents`, whose loop is a run of `serviceOne` steps. Two guards are what the
callers see to and not what the queue tests: `AdvanceTo` is called with a tick that is
not in the past (so `TimeMonotone` is about the ticks of events, and takes that for
granted), and `Squash` with an event that is scheduled, as in `gem5:cpu/o3/cpu.hh:141`.

`EventQueue` keeps `head`, `nextBin` and `nextInBin`. `EventBins` has the functions
that change them, which follow the C++ code step by step: `insert` and
`insertBefore`, `remove` and `removeItem`, the pop in `serviceOne`. The stale
`nextBin` pointers of events inside a stack are kept, and a freed event keeps its
links until its memory is used again. A loop is a recursive function of its turns
(`Turns`), of which there are at most as many as there are events.
`ImplementsQueue` maps the list to the sequence that a walk yields and checks
`EventQueueSpec` as a property.

One call is excluded in both: the handler of a managed event that schedules its
event again and then deschedules it. `deschedule` deletes the event and
`serviceOne` uses it afterwards; the code relies on no handler doing so.

### Simulation loop and global events

`ParallelSim` composes queues (as sequences), their async queues and locks, the
barriers and the control state of every thread. A step is what a thread does
between two points at which another thread can be noticed: taking a lock,
arriving at or waking from a barrier, one round of the loop in
`BaseGlobalEvent::schedule`, one call of a handler.

- The main thread: `Simulate`, `RunUntilLocalExit`, `SimulateReturns`,
  `TerminateThreads`, `Join`.
- Every thread in `doSimLoop`: `BeginLoop`, `ServiceOne`, and either a handler or
  `Arrive1` .. `Finish`, the two barriers of a global event.
- Handlers of local events: an event on the own queue at any tick from now on; on
  another queue through the async queue, one quantum ahead or later, as the rules
  in `eventq.hh` demand; a global event; migration to another queue and back.
- `AsyncEvent`: a signal has set `async_exit` or a statistics flag.

What the objects' `startup()` leaves in the queues (each local event on any queue
at tick 0 or 1, in any order) is the initial state. Left out: the return on a
Python exception, polled I/O, repeating exit events, exit events with a later tick,
global events scheduled while migrated.

### Barrier

One action per critical section of `wait()`: `Lead` for the last thread of a round,
`Block` for the others, `Recheck` for the loop after a wake-up, and `Spurious`.
`Modulus` stands for the 2^32 values of the unsigned generation.

### Drain

The objects' `drain()` is abstracted to "nothing in flight". While the simulation
runs, objects that are Running start work (`StartWork`), finish it (`FinishWork`) or
hand it to another object, drained or not (`HandOver`); an object that has nothing
left calls `signalDrainDone`. These three actions stand for the objects' own events
and are marked external. The loop in `resume()` is modelled object by object, since
`drainResume()` may create objects (`DmDrainResume`).

### Experiment scheduler

The script and the processes it starts are separate actors; `proc[r][j]` is the process
that run `r` of the script started for job `j`. A process checks the CSV file, then the
job's stats.txt, then runs gem5, which may fail and may leave a stats.txt that
`get_execution_time` rejects or accepts; `csv` counts the rows of each job. `Restart`
kills the script at any point and starts it again. The script traps no signal and ends no
job, so any of its processes may live on (all when only the script is killed, none when the
host goes down) beside those of the next run, which knows nothing of them. The lock around
the append orders the rows; nothing looks for the row again there. When an old and a new
process of a job are alive together, both may find no row and both append one: TLC reaches
such states, and the model records the job in the history variable `overlapped`.
`RowsSound` is about all other jobs. `PoolConserved` is about the jobs of one run: an old
process may share its CPU with a new one.

The script cannot tell an accepted stats.txt of a complete run from that of an interrupted
one, so the model does not either. `has_enough_memory` may be false whenever a process is
alive, and is true when none is: the host is otherwise idle. The script does not see to
that, and on a host where others use up the memory it waits for ever.

### Coherence

`MESITwoLevel` has one action per group of transitions that the SLICC sources write
as one: `L1Hit`, `L1Miss`, `L1Inv`, `L1Forward`, `L2Read`, `L2Write`, `L2WBData` and so
on; the state and message names are those of the sources. A controller's entry and TBE
for the line are one record. The network is a bag of messages, any of which may arrive
next; `stall_and_wait` moves a message to the controller's stall map and
`kd_wakeUpDependents` puts all of it back. A message whose state has no transition for it
stays undeliverable, which `NoInvalidTransition` forbids. The line leaves a cache when
another line needs its way, at any time (`L1Replacement`, `L2Replacement`). `latest`
and `window` are history variables: the last value written, and the values the line
has had since a core's request. The sequencer is modelled for one line and one request
per core, with its blocking of the line for locked read-modify-writes.

A platform says which cores issue which operations and whether the L2 evicts. An
invalidation clears the load-linked monitor, as it does when `send_evictions` is set, which
it is for the Arm and the x86 CPU.

### Out-of-order CPU

`RenameMap` is the data structure: rename an instruction, undo its youngest or
commit its oldest history entry, free the registers of squashed instructions, in any
order. `O3Pipeline` adds the stages that decide the order. A cycle runs through
`phase` as `CPU::tick` runs through the stages, with a loop of a stage (renaming,
undoing, retiring) taking one step per turn; the time buffers between the stages are
the variables `toIEW`, `fromIEW`, `fromCommit` and the two wires in `rename`. Which
instructions arrive, when one has executed, and whether it mispredicts, violates the
memory order or faults is left open; an executed instruction may stay at the head of the
ROB for any number of cycles, which allows more than the code does. One case matters and is
kept: a control transfer that serializes what follows and is mispredicted takes the mark on
the next instruction away with its squash. It executes at the head of the ROB and commits in
the cycle after its squash (`Returned`), before an instruction of the right path can be
there; without this TLC finds `Serialized` violated. An instruction executes after the cycle
of its dispatch; a nop, which is executed at dispatch (`gem5:cpu/o3/iew.cc:1008`), could
commit one cycle sooner than in the model. The serialize-after flag of rename
(`serializeOnNextInst`), the credit of ROB entries (`calcFreeROBEntries`), the squash of
`squashWidth` instructions per cycle and commit's refusal of instructions meanwhile are
those of the code.

## Runs

All passing runs check deadlock. State counts are distinct states.

| run | instance | states | what it shows |
|---|---|---|---|
| `event_queue_spec` | 4 events, 3 ticks | 33,139 | `QueueOrdered`, `NoPastEvents`, `SquashedOnlyQueued`, `NoUseAfterFree`, `TimeMonotone` |
| `event_queue` | 4 events, 2 ticks | 352,661 | `debugVerify`, `ScheduledIffLinked`, `WalksStayAlive` |
| `event_queue_refines` | 3 events, 3 ticks | 28,102 | `ImplementsQueue` |
| `parallel_sim` | 2 threads, 2 devices, 2 exit events, 2 calls, migration; and 1 thread, all kinds of global events, 3 calls | 647,599 | `LoopAsserts`, `ScheduleAssert`, `QuantumSkew`, `GlobalOrder`, `Alone`, `QuantumRemovable`, `SimulateEnds` |
| `barrier` | 4 threads, modulus 2, 4 rounds | 1,326 | `RoundsSeparate`, `WaitReturns` |
| `drain` | 3 objects, 1 created later, 5 calls | 160,056 | `Quiescent`, `CountsDraining`, `FinishedIsAwaited`, `AllResumed`, `DrainEnds` |
| `job_pool` | 3 jobs, 2 CPUs, 1 restart, any jobs left running | 850,684 | `PoolConserved`, `RowsSound`, `NoneForgotten`, `ScriptEnds` |
| `mesi` | 2 cores with evictions everywhere, 2 with LL/SC, 3 with loads and stores; 2 values | 1,176,431 | `Coherent`, `StateMeaning`, `NoInvalidTransition`, `LoadsInWindow`, `AtomicUpdates` |
| `mesi_live` | 2 cores, each pair of operations | 120,035 | `RequestAnswered` |
| `o3_pipeline` | 4 to 6 instructions, width 1 or 2, ROB of 2, 3 or 6, 2 renamed registers and one that is not | 1,953,570 | `RegistersConserved`, `OwnedNotFree`, `MapsAgree`, `NothingLost`, `AssertionsHold`, `Serialized`, `NoLostWakeup` |

The type invariants are conjuncts of `debugVerify`, `LoopAsserts`, `CountsDraining`,
`PoolConserved`, `StateMeaning` and `AssertionsHold`; those of `EventQueueSpec` and `Barrier`
are proved (`TypeCorrect`, `BarrierTypeCorrect`). Where one run covers several instances, the record `platform`
is chosen in the initial state.

*Bounds.* Two ticks and three events of one priority, plus one of another, give every
shape of the list: an empty queue, a stack of three, a stack in front of and behind
another bin. `Horizon`, `MaxOps` and `MaxCalls` in `ParallelSim` allow two
synchronisations, cross-queue events that land before, at and after them, and a second
`simulate()` that meets what the first left behind. `parallel_sim` calls `simulate(n)`
with n larger than the quantum, see the end of the next section. With two threads a
barrier of `ParallelSim` has one waiter; barriers with more are the subject of
`Barrier`. A modulus of 2 is the hardest for it: a thread one round late must still see
a different generation. In `Drain`, two units of work per object and five units of fuel let an
object drain, be disturbed and drain again. `JobPool` has more jobs than CPUs, so that a CPU
is used again before and after a restart, and with one restart up to two old processes meet
two new ones.

`MESITwoLevel` needs no bound: a core has one request at a time, so the messages in
flight are finite in number, and one line is all the protocol knows of. Two values tell a
stale copy from the current one. Two cores meet all races of owner and requestor; a third
adds a second acknowledgement to collect. With load-linked, `mesi` does not let the L2
evict: with both, memory is lost, see `mesi_llsc` below.

In `O3Pipeline` four instructions at width two fill a ROB of two or three entries and the
skid buffer, are squashed one entry per cycle, and refetched; six at width one pass through
a ROB that never fills, so that the delays of the wires alone hold the stages apart. Four
physical registers for two architectural ones run out after two renamings.

*Fairness.* `SimulateEnds`, `WaitReturns`: every thread that can take a step inside the
simulation eventually does (the operating system's scheduler); nothing is assumed of
what handlers choose to do. In `Barrier` no spurious wake-up is assumed. `DrainEnds`:
transactions finish and exit events are reached, as the event queue services what is in
it; the work handed over is bounded by `MaxFuel`. `ScriptEnds`: the script runs and every
gem5 run ends. `RequestAnswered`: controllers run what is enabled (weak fairness, the
event queue services every wake-up); a request of another core that becomes possible
again and again is taken (strong fairness): a woken message keeps its arrival time and is
the oldest of its queue then, and the L1 serves forwarded requests before those of its
core. A core that has locked a line writes it. No cache is obliged to evict. For
`O3Pipeline` no liveness is stated, because its length is bounded by the program;
`NoLostWakeup` says as an invariant that a quiet pipeline is not stuck.

## Disagreements between code and documentation

One is a run that TLC refutes, with the statement it contradicts quoted in
`PROJECT.json`.

- `mesi_llsc`: a load-linked that takes modified data from another core leaves it in E,
  as if it were clean. When the L2 evicts the line, the L1 answers the invalidation
  without data and the L2 gives its old copy to memory: a store is lost. Without
  load-linked, which x86 has not, `StateMeaning` holds.

Four more were confirmed with TLC on instances of these modules that no run of the
project keeps; the settings are given so that they can be repeated.

- A statistics event requested at the start of a quantum has the tick of the next
  synchronisation and a smaller priority value. A thread that enters `doSimLoop` after the
  request waits at its barrier, one that entered before waits at the barrier of the quantum
  event: a deadlock (`GlobalOrder`, platform `Platform(2, 2, {stat1}, FALSE, 2, 1)`, `Horizon = 3`;
  `gem5:sim/stat_control.cc:108`).
- `exitSimLoopNow` in a parallel simulation schedules at the tick of its own queue, which is
  in the past of a queue that is ahead (`ScheduleAssert`, `Platform(2, 2, {now1}, FALSE, 2, 1)`;
  `gem5:sim/sim_events.cc:65`).
- After `simulate(n)` reached its limit, `simulate()` runs without a limit event and can meet
  an empty queue (`LoopAsserts`, `Platform(1, 0, {}, FALSE, 1, 2)`, `RunLengths = {2, 4}`, `Horizon = 3`;
  `gem5:sim/simulate.cc:204`).
- A job that finds memory short after the launch delay is not launched at all, although the
  message says that the script waits (`runscripts/run_fig347_backend.sh:443`); `JobPool`
  keeps such jobs in `dropped`, which is not always empty at the end, and `NoneForgotten`
  excepts them.

The others were met on the way, the first with TLC and the rest by reading.

- The limit of a `simulate(n)` is inserted directly in the queues. When the last call
  left an exit event that one queue has inserted and another still has in its async
  queue, and n is such that the two share a tick, they are ordered differently in the
  two queues. With `RunLengths = {2}`, the quantum, TLC finds `GlobalOrder` violated;
  `parallel_sim` keeps n larger.
- The head of `doSimLoop` inserts in its queue without the lock that the comment on
  `service_mutex` assumes, while another thread may have migrated there.
- An object created while resuming can reallocate the vector that `resume()` iterates
  over; `Drain` takes its capacity to be enough.
- A managed event whose handler schedules it again and then deschedules it is deleted before
  `serviceOne` uses it (`gem5:sim/eventq.cc:259`); the models exclude that call.
- The main loop returns NULL on an asynchronous exception, which `simulate()` takes for an
  event (`gem5:sim/simulate.cc:235`). Ruby's cache warm-up drops what is left in the
  temporary event list when it puts the old head back (`gem5:mem/ruby/system/RubySystem.cc:459`).
- gem5 writes its statistics also when it is interrupted; the script accepts the stats.txt of
  a run cut short after `min_host_seconds` (`runscripts/run_fig347_backend.sh:273`).
- The directory's states M_DRD and M_DWR have no transition for a clean replacement, and PF_SM
  of the L1 none for a second prefetch; neither DMA nor prefetches are modelled.
- A squash leaves `serializeOnNextInst` set (`gem5:cpu/o3/rename.cc:1392`): the next instruction
  serializes although the one that asked for it may be gone. That costs time, not correctness.

## Proofs

`tlapm` checks every proof to the last leaf.

*Event queue, for every set of events, priorities and last tick.* `EventQueueSpecProofs`
shows that the comparison of events is a strict weak order (`BeforeOrder`), that `Insert` keeps
a queue sorted and adds exactly one entry (`InsertPlace`, `InsertSorted`,
`InsertEvents`), and that `Without` and `Tail` remove exactly one event
(`WithoutEvents`, `TailEvents`), and uses this for the invariant

    IInv == TypeOK /\ QueueOrdered /\ NoPastEvents /\ SquashedOnlyQueued /\ NoUseAfterFree

None of its conjuncts is inductive alone: time is monotone because the first entry has
the least tick, which needs the order; removing an event frees it safely because it is
queued only once. The theorems are `TypeCorrect`, `OrderCorrect`, `NothingOverdue`,
`SquashCorrect`, `ReleaseCorrect` and `TimeCorrect`. The only assumption is
`QueueAssumption`, the types of the constants.

*The list behind it, for every finite set of events and all priorities.* `EventQueueProofs`
shows that the linked list implements that queue (`Refinement`), and that the walks of the
code are right: `ListVerified`, `FlagsCorrect` and `WalksCorrect`. None of these properties
is inductive, since they say what one walk from `head` meets and not what the links are.
The invariant `ListInv` says that the links stand for a sequence `q[1..n]` of different
events, sorted by key, in which the top of a bin leads to the top of the next one and every
other event to the one below it (`Chain`). It says nothing of the `nextBin` of the events
below a top, because the code leaves stale values there; that `insert`, `removeItem` and
the pop of `serviceOne` write `nextBin` exactly when an event becomes a top is what the
proof is about. `EventBinsProofs` has the effect of each of them on the sequence
(`InsertChain`, `RemoveChain`, `PopChain`) and shows that the loops stop at the right bin
within as many turns as there are events (`FindBinStops`, `PredStops`), which includes that
no walk goes in circles (`WalkFacts`). `EntriesInsert`, `EntriesWithout` and `EntriesTail`
are the same effects on the queue of the specification. The assumptions are
`BinsAssumption` and `QueueAssumption`: finitely many events, integer priorities.

*Barrier, for every finite set of threads, number of rounds and modulus from 2 on.*
`RoundsSeparate` needs to know which generation a waiting thread holds: the current one
if it is in the current round, the one before if it is in the round before. A thread
cannot be further behind, because the round it holds up cannot end; that is why a
counter that wraps, even with two values, is enough. The invariant `BarrierInv` of
`SyncProofs` says this and that `numLeft` counts the threads still to come. The
theorems are `BarrierTypeCorrect` and `BarrierCorrect`, from `BarrierAssumption`.

*Drain, for every set of objects and every sequence of calls.* What the manager's state
says about the objects depends on where the script is; `Phase` of `SyncProofs` lists it.
The count is exact because only an object in state Draining decrements it. That needs a
detail that is easy to miss: an object created while the system drains has that state too
and is not counted; it never signals, because nothing gives it work. The theorems are
`QuiescentCorrect`, `CountCorrect`, `FinishedCorrect` and `ResumeCorrect`, from
`DrainAssumption`.

*Experiment scheduler, for every queue of jobs, number of CPUs and number of restarts, and
whatever processes live on.*
`running_jobs`, the list of pids and the pool agree because a job is launched at most once
in a run of the script: it is the one taken last from the queue, and all that were launched
were taken before (`Control`, `Processes` in `JobPoolProofs`). `Passed` says that the loop
leaves no job behind without a row, a process or an entry in `dropped`. `Alone` says that,
unless the job is in `overlapped`, it has at most one living process, that the job has no row
while a process is between its check and its append, and that stats.txt is accepted once a
process is about to append. The theorems are
`PoolCorrect`, `RowsCorrect` and `NoneForgottenCorrect`, from `PoolAssumption`: the jobs
of the queue are different, and there is a CPU.

*Renaming, for every set of registers.* `RegistersCorrect` says that in `RenameMap` every
physical register is in exactly one place. `RegistersConserved` is not inductive: that an
undone entry puts the right register back, and takes the right one out, needs the entries of
an architectural register to form a chain in which each replaces what the one before made,
the last one being in the map (`Chained`), one entry per instruction and register
(`OneEntry`), and unrenamed registers to map to themselves (`MiscFixed`). From
`RegsAssumption`: the kinds of registers are disjoint.

*The pipeline, for every width, ROB, program and order of events.* `PipelineRenames` shows
`Spec => MapSpec`: every step of `O3Pipeline` is a step of `RenameMap` or does not touch its
variables. The inductive part is `QueuesInv`, which says that whatever stalls, unblocks or is
squashed, the queues of the rename stage hold instructions with known destinations.
`PipelineConserves` follows from it and `RegistersCorrect`. `PlatformsAssumption` says that
destinations are registers and the squash width is a natural number.

*What rename and commit know of each other.* `NothingLostCorrect`, `MapsAgreeCorrect` and
`OwnedCorrect` are about state that two stages keep apart and update in different cycles.
Their invariant is `PipeInv` of `O3SquashProofs`:

- `FrontInv`, `BackInv`: the buffers from fetch to the ROB are in fetch order, each ahead of
  the next, so a squash to a sequence number cuts them at one place;
- `SquashInv`: commit's status, its signals and the position of the ROB's squash walk agree;
  behind that position everything younger than the target is marked;
- `FlowInv`: while the ROB squashes, all that can still reach it is marked, and rename has
  nothing to rename or is blocked. This is the argument for commit to drop instructions
  without telling anybody: IEW's block reaches rename before an instruction of the new path
  does;
- `LostInv`, `HeadInv`, `RecordInv`: a renaming that is not committed belongs to a living
  instruction in flight or to one that a squash covers, and a living instruction has all its
  renamings in the history buffer, unless the squash that is about to mark it has undone them
  already; its registers are then in `freeingInProgress`, not in the free list.

`O3Proofs` shows `FrontInv`, `O3SquashProofs` the rest for the steps of decode, rename and IEW
and for commit's squashes, `O3CommitProofs` for the insertion in the ROB, retirement, faults
and the end of a cycle.
The invariant was checked with TLC on the instance of `o3_pipeline` before it was proved.

What a recursive function computes is proved from a least counterexample: the induction
schemes of the library take an operator as a parameter, which the provers cannot
instantiate, but its theorem on minimal elements takes a set. Lemmas that argue this way
have `LeastElements` as a hypothesis, and `LeastNat` discharges it before the theorems.

*Only model-checked.*

- All liveness properties and `NoInvalidTransition`: fairness and ENABLED are out of the
  prover's reach.
- `ParallelSim`: what it promises depends on the lengths given to `simulate()`, and on
  which global events there are, as the disagreements above show. A theorem for all values of the constants would be false; one
  that restricts them to what `parallel_sim` uses would say no more than the run.
- `MESITwoLevel` (`Coherent`, `StateMeaning`, `LoadsInWindow`, `AtomicUpdates`): the
  inductive invariant has to say which messages may be in flight in every pair of transient
  states of the L1s and the L2; it has not been worked out.
- `O3Pipeline`, the properties `AssertionsHold`, `Serialized` and `NoLostWakeup`: the first
  and the last rest on a count of the instructions in every buffer and wire in each phase of
  a cycle, which `PipeInv` does not have. `Serialized` would need how many cycles every
  signal and instruction is under way.

## Not modelled

- *In the modelled parts*: checkpoints of single events, `replaceHead`, the exception path of
  the loop, polled I/O, repeating and counted exit events; prefetch, DMA, `MEM_Inv` and
  functional accesses in the coherence protocol (the boards of `gem5_config/` have no DMA
  ports and the prefetcher is off), several lines at once, and the sequencer's coalescing of
  requests to one line; in the CPU fetch, the issue and load/store queues and their limits,
  stores that delay `emptyROB`, SMT, interrupts, transactions and pinned registers.
- *Other Ruby protocols*: each is a specification of its own, and no script runs them.
- *Classic caches, crossbars, packet queues, MSHRs*: about 8,000 lines of flow control that
  would be a project of their own. `run-basic.py` uses them with one core, where no two caches
  share a line.
- *Distributed simulation* (`dist_iface.cc`): no script of the repository runs it.
- *The exit-event dispatch of the standard library* is sequential Python around
  `m5.simulate()`; `run_schedule` of `run_fig10.sh` has the control of
  `run_jobs_in_parallel` without the pool of CPUs.
- *Serialisation* as such is text I/O. Instruction sets and devices are data
  transformations, most of them generated. SimPoint is floating-point clustering. The
  scripts that build binaries are sequences of commands.

What is modelled is a small share of gem5's lines: most of them are device and instruction
descriptions and the other memory systems and CPU models.
