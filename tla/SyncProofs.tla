----------------------------- MODULE SyncProofs -----------------------------
(***************************************************************************)
(* The two protocols by which the simulator's parts wait for each other:   *)
(* the safety properties of Drain, for any objects, any amount of work and *)
(* any sequence of calls of drain() and simulate(); and those of Barrier,  *)
(* for any finite set of threads, any number of rounds and any modulus of  *)
(* the generation counter from 2 on.  Neither uses the other.              *)
(***************************************************************************)
EXTENDS Drain, Barrier, FiniteSetTheorems, SequenceTheorems, TLAPS

(* What the provers may take for a step that names none, in seconds. *)
USE SMTT(30), ZenonT(30), Z3T(30)

(***************************************************************************)
(*                               I.  DRAIN                                 *)
(* What the manager's state says about the objects depends on where the    *)
(* script is (Phase).  The counter is exact because only an object in      *)
(* state Draining decrements it, and because an object created while the   *)
(* system drains, which has that state too, never has work to signal for.  *)
(***************************************************************************)
(* Nothing is in flight. *)
Idle == \A o \in Objects : work[o] = 0

(* The objects tryDrain counts. *)
Draining == {o \in Objects : _drainState[o] = "Draining"}

AllIn(S) == \A o \in Registered : _drainState[o] \in S

(* What holds between the calls the script makes, and in each of them. *)
Phase ==
    /\ ~begun => Idle /\ pc \in {"script", "tryDrain"}
    /\ pc = "script" => /\ finished = 0
                        /\ _state \in {"Running", "Drained"} /\ AllIn({_state})
                        /\ _state = "Drained" => Idle
    /\ pc = "simulate" => finished = 0 /\ _state = "Running" /\ AllIn({"Running"})
    /\ pc = "tryDrain" => finished = 0
    /\ pc = "drainSimulate" => _state = "Draining" /\ AllIn({"Draining", "Drained"})
    /\ pc = "resume" => finished = 0 /\ _state = "Resuming" /\ idx >= 1 /\ last <= Len(_allDrainable)

IInv ==
    /\ CountsDraining /\ FinishedIsAwaited /\ Phase
    /\ _allDrainable \in Seq(Objects \cup Late) /\ Objects \subseteq Registered
    /\ exits + budget <= MaxExits

-----------------------------------------------------------------------------
(* The counter's range, and what an object leaving Draining does to it. *)
LEMMA CountFacts ==
  ASSUME NEW S \in SUBSET Objects
  PROVE  /\ IsFiniteSet(S) /\ Cardinality(S) \in 0..Cardinality(Objects)
         /\ Cardinality(S) = 0 <=> S = {}
         /\ \A o \in S : Cardinality(S \ {o}) = Cardinality(S) - 1
<1>1. IsFiniteSet(S) /\ Cardinality(S) <= Cardinality(Objects)
  BY FS_Subset, DrainAssumption
<1>2. Cardinality(S) \in Nat /\ Cardinality(Objects) \in Nat
  BY <1>1, FS_CardinalityType, DrainAssumption
<1> QED
  BY <1>1, <1>2, FS_EmptySet, FS_RemoveElement

(* push_back of a new object. *)
LEMMA RegisterFacts ==
  ASSUME NEW S, NEW s \in Seq(S), IsInjective(s), NEW o \in S, o \notin ToSet(s)
  PROVE  /\ Append(s, o) \in Seq(S) /\ Len(Append(s, o)) = Len(s) + 1 /\ Len(s) \in Nat
         /\ ToSet(Append(s, o)) = ToSet(s) \cup {o}
         /\ IsInjective(Append(s, o))
<1> DEFINE r == Append(s, o)
<1>1. /\ r \in Seq(S) /\ Len(s) \in Nat /\ Len(r) = Len(s) + 1
      /\ DOMAIN s = 1..Len(s) /\ DOMAIN r = 1..Len(r)
      /\ \A i \in 1..Len(s) : r[i] = s[i]
      /\ r[Len(s) + 1] = o
  BY AppendProperties, LenProperties
<1> HIDE DEF r
<1>2. /\ \A i \in 1..Len(r) : i \in 1..Len(s) \/ i = Len(s) + 1
      /\ Len(s) + 1 \in 1..Len(r) /\ \A i \in 1..Len(s) : i \in 1..Len(r)
  BY <1>1
<1>3. ToSet(r) = ToSet(s) \cup {o}
  BY <1>1, <1>2 DEF ToSet
<1>4. \A i \in 1..Len(s) : r[i] # o
  BY <1>1 DEF ToSet
<1>5. IsInjective(r)
  BY <1>1, <1>2, <1>4 DEF IsInjective
<1> QED
  BY <1>1, <1>3, <1>5 DEF r

(* A configured system runs, and every object of it is registered. *)
LEMMA InitInv == Init => IInv
<1> SUFFICES ASSUME Init PROVE IInv
  OBVIOUS
<1> DEFINE n == Cardinality(Objects)
<1>1. n \in Nat /\ _allDrainable \in [1..n -> Objects] /\ IsInjective(_allDrainable)
  BY FS_CardinalityType, DrainAssumption DEF Init
<1>2. _allDrainable \in Seq(Objects \cup Late) /\ DOMAIN _allDrainable = 1..n
  BY <1>1
<1>3. Registered = Objects
  <2>1. _allDrainable \in Injection(1..n, Objects)
    BY <1>1 DEF Injection
  <2>2. Cardinality(1..n) = n
    <3>1. Cardinality(1..n) = IF 1 > n THEN 0 ELSE n - 1 + 1
      BY <1>1, FS_Interval
    <3> QED
      BY <1>1, <3>1
  <2>3. _allDrainable \in Surjection(1..n, Objects)
    BY <2>1, <2>2, FS_Injection, DrainAssumption
  <2> QED
    BY <1>1, <1>2, <2>3 DEF Registered, ToSet, Surjection
<1>4. {o \in Objects : _drainState[o] = "Draining"} = {} /\ Cardinality({}) = 0
  BY FS_EmptySet DEF Init
<1>5. TypeOK
  <2>1. MaxWork \in Nat /\ MaxFuel \in Nat /\ MaxExits \in Nat /\ MaxCalls \in Nat
    BY DrainAssumption
  <2>2. _drainState \in [Registered -> DrainStates] /\ work \in [Objects -> 0..MaxWork]
    BY <1>3, <2>1 DEF Init, DrainStates
  <2>3. /\ fuel \in 0..MaxFuel /\ budget \in 0..MaxExits /\ calls \in 0..MaxCalls
        /\ finished \in 0..1 /\ exits \in 0..MaxExits /\ _count \in 0..Cardinality(Objects)
        /\ idx \in Nat /\ last \in Nat /\ pc = "script" /\ _state = "Running" /\ begun = FALSE
    BY <1>1, <2>1 DEF Init
  <2> QED
    BY <1>1, <1>3, <2>2, <2>3, ZenonT(30) DEF TypeOK, DrainStates
<1>6. CountsDraining /\ FinishedIsAwaited /\ Phase
  BY <1>3, <1>4, <1>5 DEF Init, CountsDraining, NoPanic, FinishedIsAwaited, Phase, Idle, AllIn
<1> QED
  BY <1>2, <1>3, <1>6, DrainAssumption DEF IInv, Init

-----------------------------------------------------------------------------
(* An object created while the system drains is not among those counted. *)
LEMMA ConstructInv == ASSUME IInv, NEW o \in Late, Construct(o) PROVE IInv'
<1>1. TypeOK /\ _count = Cardinality(Draining) /\ NoPanic /\ FinishedIsAwaited /\ Phase
  BY DEF IInv, CountsDraining, Draining
<1>2. /\ pc \in {"script", "simulate", "drainSimulate"} /\ o \in Late \ Registered
      /\ _allDrainable' = Append(_allDrainable, o)
      /\ _drainState' = [x \in Registered \cup {o} |-> IF x = o THEN _state ELSE _drainState[x]]
      /\ UNCHANGED <<_state, _count, work, finished, exits, pc, begun, idx, last, fuel, budget, calls>>
  BY DEF Construct, Register, loop, bounds
<1>3. /\ _allDrainable' \in Seq(Objects \cup Late) /\ Registered' = Registered \cup {o}
      /\ IsInjective(_allDrainable')
  BY <1>1, <1>2, RegisterFacts DEF IInv, TypeOK, Registered
<1>4. \A x \in Registered : x # o /\ _drainState'[x] = _drainState[x]
  BY <1>2
<1>5. _drainState'[o] = _state
  BY <1>2
<1>6. Draining' = Draining
  BY <1>4 DEF Draining, IInv
<1>7. TypeOK'
  BY <1>1, <1>2, <1>3 DEF TypeOK
<1>8. NoPanic' /\ FinishedIsAwaited'
  BY <1>1, <1>2 DEF NoPanic, FinishedIsAwaited
<1>9. Phase'
  BY <1>1, <1>2, <1>3, <1>4, <1>5 DEF Phase, Idle, AllIn
<1> QED
  BY <1>1, <1>2, <1>3, <1>6, <1>7, <1>8, <1>9, ZenonT(30) DEF IInv, CountsDraining, Draining

(* The script's calls, with no object between two states. *)
LEMMA CallInv == IInv /\ (PreCheckpointRestore \/ DrainCall \/ SimulateCall) => IInv'
<1> SUFFICES ASSUME IInv, PreCheckpointRestore \/ DrainCall \/ SimulateCall PROVE IInv'
  OBVIOUS
<1>1. /\ TypeOK /\ NoPanic /\ FinishedIsAwaited /\ Phase
      /\ _count = Cardinality(Draining) /\ _count = 0 /\ finished = 0 /\ pc = "script"
  <2>1. pc = "script"
    BY DEF PreCheckpointRestore, DrainCall, SimulateCall
  <2>2. Draining = {}
    BY <2>1 DEF IInv, Phase, AllIn, Draining
  <2> QED
    BY <2>1, <2>2, FS_EmptySet, ZenonT(30) DEF IInv, CountsDraining, Draining, Phase
<1>2. /\ UNCHANGED <<_allDrainable, _count, work, finished, exits, fuel, budget>>
      /\ Registered' = Registered
      /\ calls' \in 0..MaxCalls
  BY <1>1, DrainAssumption DEF PreCheckpointRestore, DrainCall, SimulateCall, manager, bounds, loop,
     Registered, TypeOK
<1>3. _allDrainable \in Seq(Objects \cup Late) /\ Len(_allDrainable) \in Nat /\ Objects \subseteq Registered
  BY LenProperties DEF IInv
<1>4. CASE PreCheckpointRestore
  <2>1. \A o \in Registered : _drainState'[o] = "Drained"
    BY <1>4 DEF PreCheckpointRestore
  <2>2. Draining' = {}
    BY <1>3, <2>1 DEF Draining
  <2>3. TypeOK'
    BY <1>1, <1>2, <1>4 DEF TypeOK, PreCheckpointRestore, DrainStates, loop, bounds
  <2>4. Phase' /\ NoPanic' /\ FinishedIsAwaited'
    BY <1>1, <1>2, <1>4, <2>1 DEF PreCheckpointRestore, Phase, AllIn, Idle, NoPanic, FinishedIsAwaited, loop
  <2> QED
    BY <1>1, <1>2, <1>3, <2>2, <2>3, <2>4, FS_EmptySet, ZenonT(30) DEF IInv, CountsDraining, Draining
<1>5. CASE DrainCall
  <2>1. TypeOK' /\ Draining' = Draining
    BY <1>1, <1>2, <1>5 DEF TypeOK, DrainCall, Draining, manager, loop, bounds
  <2>2. Phase' /\ NoPanic' /\ FinishedIsAwaited'
    BY <1>1, <1>2, <1>5 DEF DrainCall, Phase, AllIn, Idle, NoPanic, FinishedIsAwaited, manager, loop
  <2> QED
    BY <1>1, <1>2, <1>3, <2>1, <2>2, ZenonT(30) DEF IInv, CountsDraining, Draining
<1>6. CASE SimulateCall
  <2>1. TypeOK' /\ Draining' = Draining
    BY <1>1, <1>2, <1>3, <1>6 DEF TypeOK, SimulateCall, Draining, DrainStates
  <2>2. Phase' /\ NoPanic' /\ FinishedIsAwaited'
    BY <1>1, <1>2, <1>3, <1>6 DEF SimulateCall, Phase, AllIn, Idle, NoPanic, FinishedIsAwaited
  <2> QED
    BY <1>1, <1>2, <1>3, <2>1, <2>2, ZenonT(30) DEF IInv, CountsDraining, Draining
<1> QED
  BY <1>4, <1>5, <1>6

(* A drain cycle starts: dmDrain of every object, and the count of the busy ones. *)
LEMMA TryDrainInv == IInv /\ TryDrain => IInv'
<1> SUFFICES ASSUME IInv, TryDrain PROVE IInv'
  OBVIOUS
<1> DEFINE busy == {o \in Objects : work[o] > 0}
<1>1. TypeOK /\ NoPanic /\ FinishedIsAwaited /\ Phase /\ Objects \subseteq Registered
  BY DEF IInv, CountsDraining
<1>2. /\ pc = "tryDrain"
      /\ _drainState' = [o \in Registered |-> IF o \in busy THEN "Draining" ELSE "Drained"]
      /\ _count' = Cardinality(busy)
      /\ _state' = IF busy = {} THEN "Drained" ELSE "Draining"
      /\ pc' = IF busy = {} THEN "script" ELSE "drainSimulate"
      /\ UNCHANGED <<_allDrainable, work, finished, exits, begun, idx, last, fuel, budget, calls>>
      /\ Registered' = Registered
  BY DEF TryDrain, loop, bounds, Registered
<1>3. Draining' = busy
  BY <1>1, <1>2 DEF Draining
<1>4. Cardinality(busy) \in 0..Cardinality(Objects)
  BY CountFacts
<1>5. busy = {} <=> Idle
  BY <1>1 DEF Idle, TypeOK
<1> HIDE DEF busy
<1>6. TypeOK'
  BY <1>1, <1>2, <1>4 DEF TypeOK, DrainStates
<1>7. NoPanic' /\ FinishedIsAwaited'
  BY <1>1, <1>2 DEF NoPanic, FinishedIsAwaited, Phase
<1>8. Phase'
  <2>1. ~begun => Idle
    BY <1>1 DEF Phase
  <2>2. Idle' = Idle
    BY <1>2 DEF Idle
  <2> QED
    BY <1>1, <1>2, <1>5, <2>1, <2>2 DEF Phase, AllIn
<1> QED
  BY <1>2, <1>3, <1>6, <1>7, <1>8, ZenonT(30) DEF IInv, CountsDraining, Draining

(* A step of the loop in resume(): one object runs again, another may be created. *)
LEMMA DmDrainResumeInv == IInv /\ DmDrainResume => IInv'
<1> SUFFICES ASSUME IInv, DmDrainResume PROVE IInv'
  OBVIOUS
<1> DEFINE o == _allDrainable[idx]
<1>1. /\ TypeOK /\ NoPanic /\ FinishedIsAwaited /\ Phase /\ Objects \subseteq Registered
      /\ _allDrainable \in Seq(Objects \cup Late)
  BY DEF IInv, CountsDraining
<1>2. /\ pc = "resume" /\ _state = "Resuming" /\ idx' = idx + 1
      /\ UNCHANGED <<_state, _count, work, finished, exits, pc, begun, last, fuel, budget, calls>>
  BY <1>1 DEF DmDrainResume, Phase, bounds
<1>3. o \in Registered /\ Len(_allDrainable) \in Nat
  <2>1. DOMAIN _allDrainable = 1..Len(_allDrainable) /\ Len(_allDrainable) \in Nat
    BY <1>1, LenProperties
  <2>2. idx \in DOMAIN _allDrainable
    BY <1>1, <1>2, <2>1 DEF TypeOK, Phase, DmDrainResume
  <2> QED
    BY <2>1, <2>2 DEF Registered, ToSet
<1> DEFINE Resumed ==
             /\ _allDrainable' \in Seq(Objects \cup Late) /\ IsInjective(_allDrainable')
             /\ Registered \subseteq Registered' /\ Registered' \subseteq Objects \cup Late
             /\ Len(_allDrainable') \in Nat /\ Len(_allDrainable') >= Len(_allDrainable)
             /\ _drainState' \in [Registered' -> DrainStates]
             /\ \A x \in Registered' : _drainState'[x] # "Draining"
<1>4. Resumed
  <2>1. CASE UNCHANGED _allDrainable /\ _drainState' = [_drainState EXCEPT ![o] = "Running"]
    BY <1>1, <1>2, <1>3, <2>1 DEF TypeOK, NoPanic, DrainStates, Registered
  <2>2. ASSUME NEW n \in Late \ Registered,
               _allDrainable' = Append(_allDrainable, n),
               _drainState' = [x \in Registered \cup {n} |->
                    IF x = n THEN _state ELSE IF x = o THEN "Running" ELSE _drainState[x]]
        PROVE  Resumed
    <3>1. /\ _allDrainable' \in Seq(Objects \cup Late) /\ IsInjective(_allDrainable')
          /\ Registered' = Registered \cup {n}
          /\ Len(_allDrainable') = Len(_allDrainable) + 1
      BY <1>1, <2>2, RegisterFacts DEF TypeOK, Registered
    <3> QED
      BY <1>1, <1>2, <1>3, <2>2, <3>1 DEF TypeOK, NoPanic, DrainStates
  <2> QED
    BY <2>1, <2>2, ZenonT(30) DEF DmDrainResume
<1>5. Draining' = {} /\ Draining = {} /\ _count = Cardinality(Draining)
  BY <1>1, <1>2, <1>4 DEF Draining, NoPanic, IInv, CountsDraining
<1>6. TypeOK'
  BY <1>1, <1>2, <1>4 DEF TypeOK
<1>7. NoPanic' /\ FinishedIsAwaited'
  BY <1>1, <1>2, <1>4 DEF NoPanic, FinishedIsAwaited
<1>8. Phase'
  BY <1>1, <1>2, <1>4, <1>3 DEF Phase, Idle, TypeOK
<1> QED
  BY <1>1, <1>2, <1>4, <1>5, <1>6, <1>7, <1>8, ZenonT(30) DEF IInv, CountsDraining, Draining

(* The loop repeats until it finds all objects Running. *)
LEMMA ResumePassDoneInv == IInv /\ ResumePassDone => IInv'
<1> SUFFICES ASSUME IInv, ResumePassDone PROVE IInv'
  OBVIOUS
<1>1. /\ TypeOK /\ NoPanic /\ FinishedIsAwaited /\ Phase
      /\ _allDrainable \in Seq(Objects \cup Late) /\ Len(_allDrainable) \in Nat
  BY LenProperties DEF IInv, CountsDraining
<1>2. /\ pc = "resume" /\ Registered' = Registered /\ Draining' = Draining
      /\ UNCHANGED <<_allDrainable, _count, _drainState, work, finished, exits, begun, fuel, budget, calls>>
  BY DEF ResumePassDone, Registered, Draining, bounds
<1>3. TypeOK'
  BY <1>1, <1>2 DEF TypeOK, ResumePassDone, DrainStates
<1>4. NoPanic' /\ FinishedIsAwaited' /\ Phase'
  BY <1>1, <1>2 DEF ResumePassDone, NoPanic, FinishedIsAwaited, Phase, AllIn, Idle
<1> QED
  BY <1>2, <1>3, <1>4 DEF IInv, CountsDraining, Draining

-----------------------------------------------------------------------------
(***************************************************************************)
(* An object's work changes and it may signal: the object leaves Draining, *)
(* the counter goes with it, and "Finished drain" is scheduled when it     *)
(* reaches 0.  FinishWork and HandOver are such steps.                     *)
(***************************************************************************)
LEMMA SignalInv ==
  ASSUME IInv, Simulating, NEW o \in Objects, NEW rest, SignalWhenDone(o, rest),
         work' \in [Objects -> 0..MaxWork], fuel' \in 0..MaxFuel,
         UNCHANGED <<_allDrainable, _state, exits, pc, begun, loop, budget, calls>>
  PROVE  IInv'
<1>1. /\ TypeOK /\ NoPanic /\ FinishedIsAwaited /\ Phase /\ Objects \subseteq Registered
      /\ _count = Cardinality(Draining) /\ exits + budget <= MaxExits
      /\ _allDrainable \in Seq(Objects \cup Late)
  BY DEF IInv, CountsDraining, Draining
<1>2. /\ UNCHANGED <<_allDrainable, _state, exits, pc, begun, idx, last, budget, calls>>
      /\ Registered' = Registered /\ pc \in {"simulate", "drainSimulate"}
  BY DEF loop, Registered, Simulating
<1>3. CASE UNCHANGED <<_drainState, _count, finished>>
  <2>1. TypeOK' /\ Draining' = Draining
    BY <1>1, <1>2, <1>3 DEF TypeOK, Draining
  <2>2. NoPanic' /\ FinishedIsAwaited' /\ Phase'
    BY <1>1, <1>2, <1>3 DEF NoPanic, FinishedIsAwaited, Phase, AllIn
  <2> QED
    BY <1>1, <1>2, <1>3, <2>1, <2>2 DEF IInv, CountsDraining, Draining
<1>4. CASE /\ _drainState[o] = "Draining"
           /\ _drainState' = [_drainState EXCEPT ![o] = "Drained"]
           /\ _count' = _count - 1
           /\ finished' = IF _count = 1 THEN finished + 1 ELSE finished
  <2>1. /\ o \in Draining /\ Draining' = Draining \ {o}
        /\ \A x \in Registered : _drainState'[x] = IF x = o THEN "Drained" ELSE _drainState[x]
    BY <1>1, <1>4 DEF Draining, TypeOK
  <2>2. _count' = Cardinality(Draining') /\ _count \in Nat \ {0} /\ _count' \in 0..Cardinality(Objects)
    <3>1. Draining \in SUBSET Objects /\ Draining' \in SUBSET Objects
      BY DEF Draining
    <3>2. Cardinality(Draining') \in 0..Cardinality(Objects)
      BY <3>1, CountFacts
    <3> QED
      BY <1>1, <1>4, <2>1, <3>1, <3>2, CountFacts
  <2>3. finished = 0 /\ pc = "drainSimulate"
    <3>1. pc = "drainSimulate"
      BY <1>1, <1>2, <1>4 DEF Phase, AllIn
    <3> QED
      BY <1>1, <2>2, <3>1 DEF FinishedIsAwaited, TypeOK
  <2>4. TypeOK'
    <3>1. _drainState' \in [Registered' -> DrainStates] /\ finished' \in 0..1
      BY <1>1, <1>2, <1>4, <2>3 DEF TypeOK, DrainStates
    <3> QED
      BY <1>1, <1>2, <2>2, <3>1 DEF TypeOK
  <2>5. NoPanic' /\ FinishedIsAwaited'
    BY <1>2, <1>4, <2>2, <2>3 DEF NoPanic, FinishedIsAwaited
  <2>6. Phase'
    BY <1>1, <1>2, <2>1, <2>3 DEF Phase, AllIn
  <2> QED
    BY <1>1, <1>2, <2>1, <2>2, <2>4, <2>5, <2>6 DEF IInv, CountsDraining, Draining
<1> QED
  BY <1>3, <1>4 DEF SignalWhenDone, SignalDrainDone

(* New work starts only while the script's simulation runs. *)
LEMMA StartWorkInv == ASSUME IInv, NEW o \in Objects, StartWork(o) PROVE IInv'
<1>1. TypeOK /\ NoPanic /\ FinishedIsAwaited /\ Phase /\ Objects \subseteq Registered
  BY DEF IInv, CountsDraining
<1>2. /\ UNCHANGED <<_allDrainable, _state, _count, _drainState, finished, exits, pc, begun, idx, last, budget, calls>>
      /\ Registered' = Registered /\ Draining' = Draining
  BY DEF StartWork, manager, loop, Registered, Draining
<1>3. pc = "simulate"
  BY <1>1 DEF StartWork, Simulating, Phase, AllIn
<1>4. work' \in [Objects -> 0..MaxWork] /\ fuel' \in 0..MaxFuel
  <2>1. MaxWork \in Nat /\ MaxFuel \in Nat
    BY DrainAssumption
  <2>2. work[o] \in 0..MaxWork /\ work[o] < MaxWork /\ fuel \in 0..MaxFuel /\ fuel > 0
    BY <1>1 DEF TypeOK, StartWork
  <2>3. work[o] + 1 \in 0..MaxWork /\ fuel - 1 \in 0..MaxFuel
    BY <2>1, <2>2
  <2> QED
    BY <1>1, <2>3 DEF TypeOK, StartWork
<1>5. TypeOK'
  BY <1>1, <1>2, <1>4 DEF TypeOK
<1>6. NoPanic' /\ FinishedIsAwaited' /\ Phase'
  BY <1>1, <1>2, <1>3 DEF NoPanic, FinishedIsAwaited, Phase, AllIn
<1> QED
  BY <1>2, <1>5, <1>6 DEF IInv, CountsDraining, Draining

LEMMA FinishWorkInv == ASSUME IInv, NEW o \in Objects, FinishWork(o) PROVE IInv'
<1>1. work' \in [Objects -> 0..MaxWork] /\ fuel' \in 0..MaxFuel
  <2>1. work[o] - 1 \in 0..MaxWork
    BY DrainAssumption DEF IInv, CountsDraining, TypeOK, FinishWork
  <2> QED
    BY <2>1 DEF IInv, CountsDraining, TypeOK, FinishWork, bounds
<1> QED
  BY <1>1, SignalInv DEF FinishWork, bounds

LEMMA HandOverInv == ASSUME IInv, NEW o \in Objects, NEW p \in Objects, HandOver(o, p) PROVE IInv'
<1>1. work' \in [Objects -> 0..MaxWork] /\ fuel' \in 0..MaxFuel
  <2>1. MaxWork \in Nat /\ MaxFuel \in Nat
    BY DrainAssumption
  <2>2. /\ work[o] \in 0..MaxWork /\ work[o] > 0 /\ work[p] \in 0..MaxWork /\ work[p] < MaxWork
        /\ fuel \in 0..MaxFuel /\ fuel > 0 /\ o # p
    BY DEF IInv, CountsDraining, TypeOK, HandOver
  <2>3. work[o] - 1 \in 0..MaxWork /\ work[p] + 1 \in 0..MaxWork /\ fuel - 1 \in 0..MaxFuel
    BY <2>1, <2>2
  <2>4. /\ work \in [Objects -> 0..MaxWork] /\ fuel' = fuel - 1
        /\ work' = [[work EXCEPT ![o] = work[o] - 1] EXCEPT ![p] = work[p] + 1]
    BY <2>2 DEF IInv, CountsDraining, TypeOK, HandOver
  <2> QED
    BY <2>3, <2>4
<1> QED
  BY <1>1, SignalInv DEF HandOver

(* Exit events: "Finished drain" is consumed where it is awaited. *)
LEMMA ExitInv == IInv /\ (ScheduleExit \/ ExitEvent) => IInv'
<1> SUFFICES ASSUME IInv, ScheduleExit \/ ExitEvent PROVE IInv'
  OBVIOUS
<1>1. /\ TypeOK /\ NoPanic /\ FinishedIsAwaited /\ Phase /\ exits + budget <= MaxExits
      /\ MaxExits \in Nat
  BY DrainAssumption DEF IInv, CountsDraining
<1>2. /\ UNCHANGED <<_allDrainable, _state, _count, _drainState, work, begun, idx, last, fuel, calls>>
      /\ Registered' = Registered /\ Draining' = Draining
  BY DEF ScheduleExit, ExitEvent, manager, loop, bounds, Registered, Draining
<1>3. /\ exits' \in 0..MaxExits /\ budget' \in 0..MaxExits /\ exits' + budget' <= MaxExits
      /\ finished' \in 0..1
  BY <1>1 DEF ScheduleExit, ExitEvent, TypeOK, bounds
<1>4. /\ pc \in {"simulate", "drainSimulate"}
      /\ \/ pc' = pc /\ finished' = finished
         \/ pc = "simulate" /\ pc' = "script" /\ finished' = 0
         \/ pc = "drainSimulate" /\ pc' = "tryDrain" /\ finished = 1 /\ finished' = 0
  BY <1>1 DEF ScheduleExit, ExitEvent, Simulating, TypeOK, Phase
<1>5. TypeOK'
  BY <1>1, <1>2, <1>3, <1>4 DEF TypeOK
<1>6. NoPanic' /\ FinishedIsAwaited'
  BY <1>1, <1>2, <1>4 DEF NoPanic, FinishedIsAwaited, Phase
<1>7. Phase'
  BY <1>1, <1>2, <1>4 DEF Phase, AllIn, Idle
<1> QED
  BY <1>2, <1>3, <1>5, <1>6, <1>7 DEF IInv, CountsDraining, Draining

LEMMA NextInv == IInv /\ [Next]_vars => IInv'
<1> SUFFICES ASSUME IInv, [Next]_vars PROVE IInv'
  OBVIOUS
<1>1. CASE Stopped \/ UNCHANGED vars
  <2>1. UNCHANGED <<_allDrainable, _state, _count, _drainState, work, finished, exits, pc, begun, idx, last,
                    fuel, budget, calls>>
    BY <1>1 DEF Stopped, vars, manager, loop, bounds
  <2> QED
    BY <2>1 DEF IInv, CountsDraining, TypeOK, NoPanic, FinishedIsAwaited, Phase, AllIn, Idle, Registered
<1>2. CASE Manage
  BY <1>2, TryDrainInv, DmDrainResumeInv, ResumePassDoneInv DEF Manage
<1> QED
  BY <1>1, <1>2, ConstructInv, CallInv, StartWorkInv, FinishWorkInv, HandOverInv, ExitInv DEF Next

LEMMA Invariance == Spec => []IInv
  BY InitInv, NextInv, PTL DEF Spec

-----------------------------------------------------------------------------
(***************************************************************************)
(* What drain() is for: a drained system has nothing in flight             *)
(* (DrainManager::tryDrain is repeated until every object is drained at    *)
(* the same time).                                                         *)
(***************************************************************************)
THEOREM QuiescentCorrect == Spec => []Quiescent
<1>1. IInv => Quiescent
  BY DEF IInv, Phase, AllIn, Idle, Quiescent
<1> QED
  BY <1>1, Invariance, PTL

(***************************************************************************)
(* _count is the number of objects that have still to signal, so the       *)
(* assertion in DrainManager::signalDrainDone holds and neither tryDrain   *)
(* nor resume panics.                                                      *)
(***************************************************************************)
THEOREM CountCorrect == Spec => []CountsDraining
<1>1. IInv => CountsDraining
  BY DEF IInv
<1> QED
  BY <1>1, Invariance, PTL

(***************************************************************************)
(* The "Finished drain" exit of DrainManager::signalDrainDone is pending   *)
(* only while _drain() waits for it.                                       *)
(***************************************************************************)
THEOREM FinishedCorrect == Spec => []FinishedIsAwaited
<1>1. IInv => FinishedIsAwaited
  BY DEF IInv
<1> QED
  BY <1>1, Invariance, PTL

(***************************************************************************)
(* simulate() runs with all objects Running, those included that           *)
(* drainResume() of another created (the do loop of DrainManager::resume). *)
(***************************************************************************)
THEOREM ResumeCorrect == Spec => []AllResumed
<1>1. IInv => AllResumed
  BY DEF IInv, Phase, AllIn, AllResumed
<1> QED
  BY <1>1, Invariance, PTL

(***************************************************************************)
(*                              II.  BARRIER                               *)
(***************************************************************************)
(* The threads that have entered the round that is being collected. *)
Arrived == {t \in Threads : entered[t] = leads + 1}

(***************************************************************************)
(* The inductive invariant.  A thread in wait() is either in the current   *)
(* round, and holds the current generation, or in the round before, and    *)
(* holds the generation before: a thread cannot be further behind, because *)
(* the round it holds up cannot end.                                       *)
(***************************************************************************)
BarrierInv ==
    /\ BarrierTypeOK
    /\ numLeft = numWaiting - Cardinality(Arrived)
    /\ \A t \in Threads :
        /\ entered[t] \in {leads, leads + 1}
        /\ left[t] <= leads
        /\ entered[t] = IF place[t] = "out" THEN left[t] ELSE left[t] + 1
        /\ place[t] # "out" =>
              generation = IF entered[t] = leads + 1 THEN gen[t] ELSE Succ(gen[t])

(* numWaiting is a positive number, and so is the size of every set of threads a number. *)
LEMMA Sizes ==
    /\ numWaiting \in Nat /\ numWaiting >= 1
    /\ \A S \in SUBSET Threads : IsFiniteSet(S) /\ Cardinality(S) \in Nat
  <1>1. \A S \in SUBSET Threads : IsFiniteSet(S) /\ Cardinality(S) \in Nat
    BY FS_Subset, FS_CardinalityType, BarrierAssumption
  <1>2. numWaiting # 0
    BY FS_EmptySet, BarrierAssumption DEF numWaiting
  <1> QED BY <1>1, <1>2 DEF numWaiting

(* The generation counter stays in its range and never steps to itself. *)
LEMMA SuccStep == \A g \in 0..(Modulus - 1) : Succ(g) \in 0..(Modulus - 1) /\ Succ(g) # g
  BY BarrierAssumption DEF Succ

(* A new Barrier satisfies the invariant. *)
LEMMA BarrierInitInv == BarrierInit => BarrierInv
  <1> SUFFICES ASSUME BarrierInit PROVE BarrierInv OBVIOUS
  <1>1. Arrived = {}
    BY DEF BarrierInit, Arrived
  <1>2. Cardinality(Arrived) = 0
    BY <1>1, FS_EmptySet
  <1>3. BarrierTypeOK
    BY Sizes, BarrierAssumption DEF BarrierInit, BarrierTypeOK
  <1>4. numLeft = numWaiting - Cardinality(Arrived)
    BY <1>2, Sizes DEF BarrierInit
  <1> QED BY <1>3, <1>4 DEF BarrierInit, BarrierInv

(* A thread outside wait() has not entered the current round. *)
LEMMA OutNotArrived ==
    ASSUME BarrierInv, NEW t \in Threads, place[t] = "out"
    PROVE  entered[t] = leads /\ left[t] = leads /\ t \notin Arrived
  BY DEF BarrierInv, BarrierTypeOK, Arrived

(* When one thread is missing, all the others have arrived. *)
LEMMA LastOne ==
    ASSUME BarrierInv, NEW t \in Threads, place[t] = "out", numLeft = 1
    PROVE  \A u \in Threads \ {t} : entered[u] = leads + 1
  <1>1. t \notin Arrived /\ Arrived \subseteq Threads
    BY OutNotArrived DEF Arrived
  <1>2. Cardinality(Arrived \cup {t}) = Cardinality(Arrived) + 1
    BY <1>1, Sizes, FS_AddElement
  <1>3. Cardinality(Arrived \cup {t}) = Cardinality(Threads)
    BY <1>1, <1>2, Sizes DEF BarrierInv, numWaiting
  <1>4. Arrived \cup {t} = Threads
    BY <1>1, <1>3, FS_Subset, BarrierAssumption
  <1> QED BY <1>4 DEF Arrived

(* The last thread of a round ends it: everyone is then in the round before. *)
LEMMA LeadInv ==
    ASSUME BarrierInv, NEW t \in Threads, Lead(t)
    PROVE  BarrierInv'
  <1>1. entered[t] = leads /\ left[t] = leads
    BY OutNotArrived DEF Lead
  <1>2. \A u \in Threads \ {t} : entered[u] = leads + 1
    BY LastOne DEF Lead
  <1>3. \A u \in Threads : entered'[u] = leads'
    BY <1>1, <1>2 DEF Lead, BarrierInv, BarrierTypeOK
  <1>4. Arrived' = {}
    BY <1>3 DEF Arrived, Lead, BarrierInv, BarrierTypeOK
  <1>5. numLeft' = numWaiting - Cardinality(Arrived)'
    BY <1>4, FS_EmptySet, Sizes DEF Lead
  <1>6. BarrierTypeOK'
    BY Sizes, SuccStep DEF Lead, BarrierInv, BarrierTypeOK
  <1>7. ASSUME NEW u \in Threads
        PROVE  /\ entered'[u] \in {leads', leads' + 1}
               /\ left'[u] <= leads'
               /\ entered'[u] = IF place'[u] = "out" THEN left'[u] ELSE left'[u] + 1
    BY <1>1, <1>3 DEF Lead, BarrierInv, BarrierTypeOK
  <1>8. ASSUME NEW u \in Threads, place'[u] # "out"
        PROVE  generation' = IF entered'[u] = leads' + 1 THEN gen'[u] ELSE Succ(gen'[u])
    <2>1. u # t /\ place[u] # "out"
      BY <1>8 DEF Lead, BarrierInv, BarrierTypeOK
    <2>2. entered[u] = leads + 1 /\ generation = gen[u]
      BY <1>2, <2>1 DEF BarrierInv
    <2>3. entered'[u] # leads' + 1
      BY <1>3 DEF Lead, BarrierInv, BarrierTypeOK
    <2> QED BY <2>2, <2>3 DEF Lead
  <1> QED BY <1>5, <1>6, <1>7, <1>8 DEF BarrierInv

(* A thread that is not the last joins the round and takes its generation. *)
LEMMA BlockInv ==
    ASSUME BarrierInv, NEW t \in Threads, Block(t)
    PROVE  BarrierInv'
  <1>1. entered[t] = leads /\ left[t] = leads /\ t \notin Arrived /\ Arrived \subseteq Threads
    BY OutNotArrived DEF Block, Arrived
  <1>2. Arrived' = Arrived \cup {t}
    BY <1>1 DEF Block, Arrived, BarrierInv, BarrierTypeOK
  <1>3. Cardinality(Arrived') = Cardinality(Arrived) + 1
    BY <1>1, <1>2, Sizes, FS_AddElement
  <1>4. numLeft' = numWaiting - Cardinality(Arrived)'
    BY <1>1, <1>3, Sizes DEF Block, BarrierInv
  <1>5. BarrierTypeOK'
    BY Sizes DEF Block, BarrierInv, BarrierTypeOK
  <1>6. ASSUME NEW u \in Threads
        PROVE  /\ entered'[u] \in {leads', leads' + 1}
               /\ left'[u] <= leads'
               /\ entered'[u] = IF place'[u] = "out" THEN left'[u] ELSE left'[u] + 1
               /\ place'[u] # "out" =>
                     generation' = IF entered'[u] = leads' + 1 THEN gen'[u] ELSE Succ(gen'[u])
    BY <1>1 DEF Block, BarrierInv, BarrierTypeOK
  <1> QED BY <1>4, <1>5, <1>6 DEF BarrierInv

(* Waking up, spuriously or not, and testing the generation keep the invariant. *)
LEMMA RecheckInv ==
    ASSUME BarrierInv, NEW t \in Threads, Recheck(t) \/ Spurious(t)
    PROVE  BarrierInv'
  <1>1. Arrived' = Arrived
    BY DEF Recheck, Spurious, Arrived
  <1>2. BarrierTypeOK'
    BY DEF Recheck, Spurious, BarrierInv, BarrierTypeOK
  <1>3. ASSUME NEW u \in Threads
        PROVE  /\ entered'[u] \in {leads', leads' + 1}
               /\ left'[u] <= leads'
               /\ entered'[u] = IF place'[u] = "out" THEN left'[u] ELSE left'[u] + 1
               /\ place'[u] # "out" =>
                     generation' = IF entered'[u] = leads' + 1 THEN gen'[u] ELSE Succ(gen'[u])
    BY DEF Recheck, Spurious, BarrierInv, BarrierTypeOK
  <1> QED BY <1>1, <1>2, <1>3 DEF BarrierInv, Recheck, Spurious

(* The invariant is inductive. *)
LEMMA BarrierNextInv == BarrierInv /\ [BarrierNext]_barrierVars => BarrierInv'
  <1> SUFFICES ASSUME BarrierInv, [BarrierNext]_barrierVars PROVE BarrierInv' OBVIOUS
  <1>1. ASSUME NEW t \in Threads, Step(t) \/ Spurious(t) PROVE BarrierInv'
    BY <1>1, LeadInv, BlockInv, RecheckInv DEF Step
  <1>2. CASE UNCHANGED barrierVars
    <2>1. Arrived' = Arrived
      BY <1>2 DEF barrierVars, Arrived
    <2> QED BY <1>2, <2>1 DEF barrierVars, BarrierInv, BarrierTypeOK
  <1> QED BY <1>1, <1>2 DEF BarrierNext, Done

(* The invariant implies the two properties of Barrier.tla. *)
LEMMA InvImplies == BarrierInv => BarrierTypeOK /\ RoundsSeparate
  BY DEF BarrierInv, BarrierTypeOK, RoundsSeparate

(* The counters of Barrier::wait keep their ranges. *)
THEOREM BarrierTypeCorrect == BarrierSpec => []BarrierTypeOK
  BY BarrierInitInv, BarrierNextInv, InvImplies, PTL DEF BarrierSpec

(* Barrier::wait separates the rounds of its callers, for any number of them. *)
THEOREM BarrierCorrect == BarrierSpec => []RoundsSeparate
  BY BarrierInitInv, BarrierNextInv, InvImplies, PTL DEF BarrierSpec
=============================================================================
