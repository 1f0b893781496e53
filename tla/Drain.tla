------------------------------- MODULE Drain -------------------------------
(***************************************************************************)
(* Draining and resuming the simulator before and after a checkpoint or a  *)
(* CPU switch: DrainManager and Drainable (src/gem5/src/sim/drain.{hh,cc}) *)
(* and the Python functions drain() and simulate() that drive them         *)
(* (src/gem5/src/python/m5/simulate.py).                                   *)
(*                                                                         *)
(* What an object has in flight is a number of work units.  Its drain()    *)
(* returns Drained exactly when it has none, as the drain() methods of the *)
(* memory system and the devices do; while it is not Running it starts no  *)
(* new work, but other objects may still hand it theirs.                   *)
(***************************************************************************)
EXTENDS Integers, Sequences, FiniteSets, SequencesExt

CONSTANTS Objects,      \* the Drainables the configuration creates
          Late,         \* Drainables created later, which never have work (Process)
          MaxWork,      \* bound: work units of one object
          MaxFuel,      \* bound: units of work started or handed over
          MaxExits,     \* bound: exit events of the simulated program
          MaxCalls      \* bound: calls of drain() and simulate() by the script

ASSUME DrainAssumption ==
    /\ IsFiniteSet(Objects) /\ IsFiniteSet(Late) /\ Objects \cap Late = {}
    /\ {MaxWork, MaxFuel, MaxExits, MaxCalls} \subseteq Nat

VARIABLES
    _allDrainable,  \* the registered objects, in order
    _state,         \* DrainManager::_state
    _count,         \* DrainManager::_count
    _drainState,    \* Drainable::_drainState of every registered object
    work,           \* what each object has in flight
    finished,       \* exit events "Finished drain" in the event queue
    exits,          \* other exit events in the event queue
    pc,             \* where the Python script is
    begun,          \* simulate() has been called
    idx, last,      \* the iterator and the end of the loop in resume()
    fuel, budget, calls

manager == <<_allDrainable, _state, _count, _drainState>>
bounds == <<fuel, budget, calls>>
loop == <<idx, last>>
vars == <<manager, work, finished, exits, pc, begun, loop, bounds>>

Registered == ToSet(_allDrainable)

Init ==
    /\ _allDrainable \in {s \in [1..Cardinality(Objects) -> Objects] : IsInjective(s)}
    /\ _state = "Running"
    /\ _count = 0
    /\ _drainState = [o \in Objects |-> "Running"]
    /\ work = [o \in Objects |-> 0]
    /\ finished = 0 /\ exits = 0
    /\ pc = "script"
    /\ begun = FALSE
    /\ idx = 0 /\ last = 0
    /\ fuel = MaxFuel /\ budget = MaxExits /\ calls = MaxCalls

-----------------------------------------------------------------------------
(* Drainable's constructor: the object inherits the manager's state. *)
Register(o) ==
    /\ o \in Late \ Registered
    /\ _allDrainable' = Append(_allDrainable, o)
    /\ _drainState' = [x \in Registered \cup {o} |-> IF x = o THEN _state ELSE _drainState[x]]

Construct(o) ==
    /\ pc \in {"script", "simulate", "drainSimulate"}
    /\ Register(o)
    /\ UNCHANGED <<_state, _count, work, finished, exits, pc, begun, loop, bounds>>

(* instantiate() of a configuration that restores a checkpoint. *)
PreCheckpointRestore ==
    /\ pc = "script" /\ ~begun /\ _state = "Running"
    /\ _state' = "Drained"
    /\ _drainState' = [o \in Registered |-> "Drained"]
    /\ UNCHANGED <<_allDrainable, _count, work, finished, exits, pc, begun, loop, bounds>>

(* drain() does nothing in a drained system. *)
DrainCall ==
    /\ pc = "script" /\ calls > 0
    /\ calls' = calls - 1
    /\ pc' = IF _state = "Drained" THEN "script" ELSE "tryDrain"
    /\ UNCHANGED <<manager, work, finished, exits, begun, loop, fuel, budget>>

(* Fault: an object that is not ready is taken for drained in the second cycle. *)
TryDrain_Once ==
    /\ pc = "tryDrain"
    /\ LET busy == {o \in Objects : work[o] > 0 /\ _state = "Running"}
       IN  /\ _drainState' = [o \in Registered |-> IF o \in busy THEN "Draining" ELSE "Drained"]
           /\ _count' = Cardinality(busy)
           /\ _state' = IF busy = {} THEN "Drained" ELSE "Draining"
           /\ pc' = IF busy = {} THEN "script" ELSE "drainSimulate"
    /\ UNCHANGED <<_allDrainable, work, finished, exits, begun, loop, bounds>>

(***************************************************************************)
(* DrainManager::tryDrain, which calls dmDrain of every object while       *)
(* nothing is simulated; drain() simulates when it returns false.          *)
(***************************************************************************)
TryDrain ==
    /\ pc = "tryDrain"
    /\ LET busy == {o \in Objects : work[o] > 0}
       IN  /\ _drainState' = [o \in Registered |-> IF o \in busy THEN "Draining" ELSE "Drained"]
           /\ _count' = Cardinality(busy)
           /\ _state' = IF busy = {} THEN "Drained" ELSE "Draining"
           /\ pc' = IF busy = {} THEN "script" ELSE "drainSimulate"
    /\ UNCHANGED <<_allDrainable, work, finished, exits, begun, loop, bounds>>

(* simulate(): a drained system is resumed first. *)
SimulateCall ==
    /\ pc = "script" /\ calls > 0
    /\ calls' = calls - 1
    /\ begun' = TRUE
    /\ IF _state = "Drained"
       THEN /\ _state' = "Resuming"
            /\ pc' = "resume"
            /\ idx' = 1 /\ last' = Len(_allDrainable)
       ELSE /\ pc' = "simulate"
            /\ UNCHANGED <<_state, idx, last>>
    /\ UNCHANGED <<_allDrainable, _count, _drainState, work, finished, exits, fuel, budget>>

-----------------------------------------------------------------------------
(***************************************************************************)
(* DrainManager::resume.  The loop visits the objects registered when it   *)
(* started and calls dmDrainResume of those that are not Running.  Objects *)
(* that drainResume() creates are registered meanwhile: push_back on the   *)
(* vector the loop iterates over, whose capacity is taken to be enough.    *)
(* The loop repeats until all are Running.                                 *)
(***************************************************************************)
DmDrainResume ==
    /\ pc = "resume" /\ idx <= last
    /\ LET o == _allDrainable[idx]
       IN  \/ /\ _drainState' = [_drainState EXCEPT ![o] = "Running"]
              /\ UNCHANGED _allDrainable
           \/ \E n \in Late \ Registered :
              /\ _drainState[o] # "Running"
              /\ _allDrainable' = Append(_allDrainable, n)
              /\ _drainState' = [x \in Registered \cup {n} |->
                    IF x = n THEN _state ELSE IF x = o THEN "Running" ELSE _drainState[x]]
    /\ idx' = idx + 1
    /\ UNCHANGED <<_state, _count, work, finished, exits, pc, begun, last, bounds>>

(* Fault: one pass over the objects is taken to be enough. *)
ResumePassDone_Once ==
    /\ pc = "resume" /\ idx > last
    /\ _state' = "Running"
    /\ pc' = "simulate"
    /\ UNCHANGED <<_allDrainable, _count, _drainState, work, finished, exits, begun, loop, bounds>>

ResumePassDone ==
    /\ pc = "resume" /\ idx > last
    /\ IF \A o \in Registered : _drainState[o] = "Running"
       THEN /\ _state' = "Running"
            /\ pc' = "simulate"
            /\ UNCHANGED <<idx, last>>
       ELSE /\ idx' = 1 /\ last' = Len(_allDrainable)
            /\ UNCHANGED <<_state, pc>>
    /\ UNCHANGED <<_allDrainable, _count, _drainState, work, finished, exits, begun, bounds>>

-----------------------------------------------------------------------------
Simulating == pc \in {"simulate", "drainSimulate"}

(* An object that runs starts a transaction. *)
StartWork(o) ==
    /\ Simulating
    /\ _drainState[o] = "Running"
    /\ work[o] < MaxWork /\ fuel > 0
    /\ work' = [work EXCEPT ![o] = @ + 1]
    /\ fuel' = fuel - 1
    /\ UNCHANGED <<manager, finished, exits, pc, begun, loop, budget, calls>>

(* Fault: Drainable::signalDrainDone leaves the object Draining. *)
SignalDrainDone_KeepState(o) ==
    IF _drainState[o] = "Draining"
    THEN /\ _count' = _count - 1
         /\ finished' = IF _count = 1 THEN finished + 1 ELSE finished
         /\ UNCHANGED _drainState
    ELSE UNCHANGED <<_drainState, _count, finished>>

(* Faults: every signal ends the simulation; _count-- == 0 for --_count == 0. *)
SignalDrainDone_Each(o) ==
    IF _drainState[o] = "Draining"
    THEN /\ _drainState' = [_drainState EXCEPT ![o] = "Drained"]
         /\ _count' = _count - 1
         /\ finished' = 1
    ELSE UNCHANGED <<_drainState, _count, finished>>

SignalDrainDone_Postfix(o) ==
    IF _drainState[o] = "Draining"
    THEN /\ _drainState' = [_drainState EXCEPT ![o] = "Drained"]
         /\ _count' = _count - 1
         /\ finished' = IF _count = 0 THEN finished + 1 ELSE finished
    ELSE UNCHANGED <<_drainState, _count, finished>>

(***************************************************************************)
(* Drainable::signalDrainDone and DrainManager::signalDrainDone, called by *)
(* every object that has nothing in flight any more.                       *)
(***************************************************************************)
SignalDrainDone(o) ==
    IF _drainState[o] = "Draining"
    THEN /\ _drainState' = [_drainState EXCEPT ![o] = "Drained"]
         /\ _count' = _count - 1
         /\ finished' = IF _count = 1 THEN finished + 1 ELSE finished
    ELSE UNCHANGED <<_drainState, _count, finished>>

SignalWhenDone(o, left) ==
    IF left = 0 THEN SignalDrainDone(o) ELSE UNCHANGED <<_drainState, _count, finished>>

(* A transaction ends. *)
FinishWork(o) ==
    /\ Simulating
    /\ work[o] > 0
    /\ work' = [work EXCEPT ![o] = @ - 1]
    /\ SignalWhenDone(o, work[o] - 1)
    /\ UNCHANGED <<_allDrainable, _state, exits, pc, begun, loop, bounds>>

(* A transaction moves on to another object, drained or not. *)
HandOver(o, p) ==
    /\ Simulating
    /\ o # p
    /\ work[o] > 0 /\ work[p] < MaxWork /\ fuel > 0
    /\ work' = [work EXCEPT ![o] = @ - 1, ![p] = @ + 1]
    /\ fuel' = fuel - 1
    /\ SignalWhenDone(o, work[o] - 1)
    /\ UNCHANGED <<_allDrainable, _state, exits, pc, begun, loop, budget, calls>>

(* The simulated program, or the tick limit, ends the simulation. *)
ScheduleExit ==
    /\ Simulating
    /\ budget > 0 /\ budget' = budget - 1
    /\ exits' = exits + 1
    /\ UNCHANGED <<manager, work, finished, pc, begun, loop, fuel, calls>>

(***************************************************************************)
(* An exit event returns to Python.  _drain() goes on simulating until the *)
(* cause is "Finished drain", and is then called again.                    *)
(***************************************************************************)
ExitEvent ==
    /\ Simulating
    /\ \/ /\ exits > 0
          /\ exits' = exits - 1
          /\ pc' = IF pc = "drainSimulate" THEN pc ELSE "script"
          /\ UNCHANGED finished
       \/ /\ finished > 0
          /\ finished' = finished - 1
          /\ pc' = IF pc = "drainSimulate" THEN "tryDrain" ELSE "script"
          /\ UNCHANGED exits
    /\ UNCHANGED <<manager, work, begun, loop, bounds>>

(* The script ends, or the simulation runs on until it is stopped from outside. *)
Stopped ==
    /\ \/ pc = "script" /\ calls = 0
       \/ pc = "simulate" /\ exits = 0 /\ budget = 0
    /\ UNCHANGED vars

Manage == TryDrain \/ DmDrainResume \/ ResumePassDone

Next ==
    \/ \E o \in Late : Construct(o)
    \/ PreCheckpointRestore \/ DrainCall \/ SimulateCall \/ Manage
    \/ \E o \in Objects : StartWork(o) \/ FinishWork(o) \/ \E p \in Objects : HandOver(o, p)
    \/ ScheduleExit \/ ExitEvent
    \/ Stopped

Spec == Init /\ [][Next]_vars

(* The event queue services what is in it: transactions end and exit events are reached. *)
FairSpec == Spec /\ WF_vars(Manage) /\ WF_vars(ExitEvent) /\ \A o \in Objects : WF_vars(FinishWork(o))

-----------------------------------------------------------------------------
DrainStates == {"Running", "Draining", "Drained", "Resuming"}

(* Every variable keeps its type; an object is registered once. *)
TypeOK ==
    /\ Registered \subseteq Objects \cup Late /\ IsInjective(_allDrainable)
    /\ _state \in DrainStates
    /\ _count \in 0..Cardinality(Objects)
    /\ _drainState \in [Registered -> DrainStates]
    /\ work \in [Objects -> 0..MaxWork]
    /\ finished \in 0..1 /\ exits \in 0..MaxExits
    /\ pc \in {"script", "tryDrain", "drainSimulate", "resume", "simulate"}
    /\ begun \in BOOLEAN
    /\ idx \in Nat /\ last \in Nat
    /\ fuel \in 0..MaxFuel /\ budget \in 0..MaxExits /\ calls \in 0..MaxCalls

(***************************************************************************)
(* What drain() is for: when the script has a drained system to serialize  *)
(* or to switch CPUs in, nothing is in flight anywhere, although a drained *)
(* object may have been handed work meanwhile (the notes on drain()).      *)
(***************************************************************************)
Quiescent ==
    pc = "script" /\ _state = "Drained" =>
        /\ \A o \in Registered : _drainState[o] = "Drained"
        /\ \A o \in Objects : work[o] = 0

(***************************************************************************)
(* tryDrain and resume do not panic: a drain cycle starts with _count at   *)
(* zero in a system that is not drained, and resuming meets only drained   *)
(* or resuming objects.                                                    *)
(***************************************************************************)
NoPanic ==
    /\ pc = "tryDrain" => _count = 0 /\ _state \in {"Running", "Draining"}
    /\ pc = "resume" =>
          /\ _count = 0
          /\ \A o \in Registered : _drainState[o] # "Draining"

(***************************************************************************)
(* Every variable has its type, and _count is the number of objects that   *)
(* still have to signal, so signalDrainDone never finds it 0 (its          *)
(* assertion), and tryDrain and resume do not panic, whoever is created,   *)
(* disturbed or signals again while the system drains.                     *)
(***************************************************************************)
CountsDraining ==
    /\ TypeOK
    /\ _count = Cardinality({o \in Objects : _drainState[o] = "Draining"})
    /\ NoPanic

(***************************************************************************)
(* A "Finished drain" exit is pending only while _drain() waits for it and *)
(* no object is left to wait for; it never reaches the user's script.      *)
(***************************************************************************)
FinishedIsAwaited == finished > 0 => pc = "drainSimulate" /\ _count = 0

(* simulate() runs the script's simulation with the manager and all objects Running. *)
AllResumed ==
    pc = "simulate" => _state = "Running" /\ \A o \in Registered : _drainState[o] = "Running"

(* drain() returns to the script. *)
DrainEnds == pc = "tryDrain" ~> pc = "script"
=============================================================================
