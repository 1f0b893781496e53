--------------------------- MODULE JobPoolProofs ---------------------------
(***************************************************************************)
(* The safety properties of JobPool, for any queue of jobs, any            *)
(* MAX_PARALLEL and any number of restarts.                                *)
(*                                                                         *)
(* The counter running_jobs, the pids and the pool of CPUs agree because   *)
(* a job is launched at most once in a run of the script: it is the one    *)
(* taken last from the queue, and everything launched was taken before.    *)
(* That no CPU is lost rests on the pool being the complement of what the  *)
(* launched jobs use, until the last loop has visited them.                *)
(*                                                                         *)
(* The CSV file is sound where a job never has two processes: then what    *)
(* one process has seen of the row and of stats.txt stays as it was until  *)
(* that process acts on it (Alone).                                        *)
(***************************************************************************)
EXTENDS JobPool, FiniteSetTheorems, SequenceTheorems, TLAPS

(* What the provers may take for a step that names none, in seconds. *)
USE SMTT(30), ZenonT(30), Z3T(30)

(* The jobs whose CPU is not in the pool. *)
Using == IF pc \in {"join", "done"} THEN unchecked ELSE job_pids

(* The jobs the loop over job_queue has taken. *)
Taken == {job_queue[i] : i \in 1..(next - 1)}

(* The loop has a job in hand that it has not launched. *)
InHand == pc \in {"wait", "reap", "delay", "launch"}

SeqTypes == available_cpus \in Seq(Cpus)

(* Where the script is tells what it has done. *)
Control ==
    /\ pc \notin {"reap", "join"} => unchecked = {}
    /\ pc \in {"delay", "launch"} => available_cpus # <<>>
    /\ InHand => next > 1 /\ proc[run][job] = "none"
    /\ pc \in {"join", "done"} => next > Len(job_queue)

(* What the processes of this run have done: there is one for taken jobs only. *)
Processes ==
    /\ \A j \in Jobs : proc[run][j] # "none" => j \in Taken /\ (j \in Using \/ ended(j))
    /\ \A j \in job_pids : proc[run][j] # "none"
    /\ \A j \in Jobs : proc[run][j] = "ok" => csv[j] > 0
    /\ \A r \in Runs : r > run => \A j \in Jobs : proc[r][j] = "none"

(* A process that has its job to itself can rely on what it has seen. *)
Alone ==
    \A j \in Jobs \ overlapped, r \in Runs :
        /\ alive(r, j) => \A q \in Runs : alive(q, j) => q = r
        /\ proc[r][j] \in {"checked", "simulating", "recording"} => csv[j] = 0
        /\ proc[r][j] = "recording" => stats[j] = "accepted"

(* Nothing the loop has passed is forgotten. *)
Passed ==
    \A i \in 1..(next - 1) :
        \/ csv[job_queue[i]] > 0 \/ job_queue[i] \in dropped
        \/ proc[run][job_queue[i]] # "none"
        \/ InHand /\ i = next - 1

IInv == SeqTypes /\ PoolConserved /\ Control /\ Processes /\ Alone /\ Passed /\ RowsSound

-----------------------------------------------------------------------------
(* The queue is a function on 1..n without repetitions. *)
LEMMA QueueFacts ==
  /\ Len(job_queue) \in Nat
  /\ \A i \in 1..Len(job_queue) : job_queue[i] \in Jobs
  /\ \A j \in Jobs : \E i \in 1..Len(job_queue) : j = job_queue[i]
  /\ \A i, j \in 1..Len(job_queue) : job_queue[i] = job_queue[j] => i = j
<1>1. DOMAIN job_queue = 1..Len(job_queue) /\ Len(job_queue) \in Nat
  BY PoolAssumption, LenProperties
<1> QED
  BY <1>1, PoolAssumption DEF Jobs, ToSet, IsInjective

(* Appending a new element. *)
LEMMA AppendFacts ==
  ASSUME NEW S, NEW s \in Seq(S), NEW x \in S, x \notin ToSet(s), IsInjective(s)
  PROVE  /\ Append(s, x) \in Seq(S)
         /\ ToSet(Append(s, x)) = ToSet(s) \cup {x}
         /\ IsInjective(Append(s, x))
<1> DEFINE r == Append(s, x)
<1>1. /\ r \in Seq(S) /\ Len(s) \in Nat /\ Len(r) = Len(s) + 1
      /\ DOMAIN s = 1..Len(s) /\ DOMAIN r = 1..Len(r)
      /\ \A i \in 1..Len(s) : r[i] = s[i]
      /\ r[Len(s) + 1] = x
  BY AppendProperties, LenProperties
<1> HIDE DEF r
<1>2. \A i \in 1..Len(r) : i \in 1..Len(s) \/ i = Len(s) + 1
  BY <1>1
<1>3. ToSet(r) = ToSet(s) \cup {x}
  <2>1. Len(s) + 1 \in 1..Len(r) /\ \A i \in 1..Len(s) : i \in 1..Len(r)
    BY <1>1
  <2> QED
    BY <1>1, <1>2, <2>1 DEF ToSet
<1>4. \A i \in 1..Len(s) : r[i] # x
  BY <1>1 DEF ToSet
<1>5. IsInjective(r)
  BY <1>1, <1>2, <1>4 DEF IsInjective
<1> QED
  BY <1>1, <1>3, <1>5 DEF r

(* Taking the first element. *)
LEMMA TailFacts ==
  ASSUME NEW S, NEW s \in Seq(S), s # <<>>, IsInjective(s)
  PROVE  /\ Tail(s) \in Seq(S) /\ Head(s) \in S /\ Head(s) \in ToSet(s)
         /\ ToSet(Tail(s)) = ToSet(s) \ {Head(s)}
         /\ IsInjective(Tail(s))
<1> DEFINE r == Tail(s)
           n == Len(s)
<1>1. /\ r \in Seq(S) /\ Head(s) \in S /\ Head(s) = s[1] /\ n \in Nat \ {0}
      /\ DOMAIN s = 1..n /\ DOMAIN r = 1..(n - 1)
      /\ \A i \in 1..(n - 1) : r[i] = s[i + 1]
  BY HeadTailProperties, LenProperties, EmptySeq
<1> HIDE DEF r, n
<1>2. \A i \in 1..n : i = 1 \/ i - 1 \in 1..(n - 1)
  BY <1>1
<1>3. 1 \in 1..n /\ \A i \in 1..(n - 1) : i + 1 \in 1..n /\ i + 1 # 1
  BY <1>1
<1>4. Head(s) \in ToSet(s)
  BY <1>1, <1>3 DEF ToSet
<1>5. ToSet(r) \subseteq ToSet(s) \ {Head(s)}
  <2> SUFFICES ASSUME NEW i \in 1..(n - 1) PROVE r[i] \in ToSet(s) /\ r[i] # Head(s)
    BY <1>1 DEF ToSet
  <2>1. i + 1 \in DOMAIN s /\ 1 \in DOMAIN s /\ i + 1 # 1
    BY <1>1, <1>3
  <2>2. s[i + 1] \in ToSet(s)
    BY <2>1 DEF ToSet
  <2>3. s[i + 1] # s[1]
    BY <2>1 DEF IsInjective
  <2> QED
    BY <1>1, <2>2, <2>3
<1>6. \A i \in 1..n : i # 1 => s[i] = r[i - 1]
  BY <1>1, <1>2
<1>7. ToSet(s) \ {Head(s)} \subseteq ToSet(r)
  <2> SUFFICES ASSUME NEW i \in 1..n, s[i] # Head(s) PROVE s[i] \in ToSet(r)
    BY <1>1 DEF ToSet
  <2>1. i - 1 \in DOMAIN r /\ s[i] = r[i - 1]
    BY <1>1, <1>2, <1>6
  <2> QED
    BY <2>1 DEF ToSet
<1>8. IsInjective(r)
  <2> SUFFICES ASSUME NEW i \in 1..(n - 1), NEW j \in 1..(n - 1), r[i] = r[j] PROVE i = j
    BY <1>1 DEF IsInjective
  <2>1. i + 1 \in DOMAIN s /\ j + 1 \in DOMAIN s
    BY <1>1, <1>3
  <2>2. s[i + 1] = s[j + 1]
    BY <1>1
  <2>3. i + 1 = j + 1
    BY <2>1, <2>2 DEF IsInjective
  <2> QED
    BY <2>3
<1> QED
  BY <1>1, <1>4, <1>5, <1>7, <1>8 DEF r

(* Jobs with different CPUs: there are at most MAX_PARALLEL of them. *)
LEMMA UsingBound ==
  ASSUME NEW S \in SUBSET Jobs, NEW f \in [Jobs -> Cpus],
         \A i, j \in S : i # j => f[i] # f[j]
  PROVE  IsFiniteSet(S) /\ Cardinality(S) \in 0..MAX_PARALLEL
<1> DEFINE g == [j \in S |-> f[j]]
<1>1. g \in Injection(S, Cpus)
  BY DEF Injection, IsInjective
<1>2. IsFiniteSet(Cpus) /\ Cardinality(Cpus) = MAX_PARALLEL
  BY FS_Interval, PoolAssumption DEF Cpus
<1>3. IsFiniteSet(S) /\ Cardinality(S) <= MAX_PARALLEL
  BY <1>1, <1>2, FS_Injection
<1> QED
  BY <1>3, FS_CardinalityType, PoolAssumption

(* A pool without repetitions has at most MAX_PARALLEL entries. *)
LEMMA PoolBound ==
  ASSUME NEW s \in Seq(Cpus), IsInjective(s)
  PROVE  Len(s) <= MAX_PARALLEL
<1>1. Len(s) \in Nat /\ s \in Injection(1..Len(s), Cpus)
  BY LenProperties DEF Injection
<1>2. IsFiniteSet(Cpus) /\ Cardinality(Cpus) = MAX_PARALLEL
  BY FS_Interval, PoolAssumption DEF Cpus
<1>3. Cardinality(1..Len(s)) = Len(s)
  <2>1. Cardinality(1..Len(s)) = IF 1 > Len(s) THEN 0 ELSE Len(s) - 1 + 1
    <3>1. 1 \in Int /\ Len(s) \in Int
      BY <1>1
    <3> QED
      BY <3>1, FS_Interval, ZenonT(30)
  <2> QED
    BY <1>1, <2>1
<1> QED
  BY <1>1, <1>2, <1>3, FS_Injection

-----------------------------------------------------------------------------
(* The part of PoolConserved that is not about types. *)
Shares ==
    /\ \A i, j \in Using : i # j => job_cpu[i] # job_cpu[j]
    /\ IsInjective(available_cpus)
    /\ ToSet(available_cpus) = Cpus \ {job_cpu[j] : j \in Using}
    /\ pc \in {"next", "wait", "reap", "delay", "launch"} => running_jobs = Cardinality(Using)

LEMMA PoolParts == PoolConserved <=> TypeOK /\ Shares
  BY DEF PoolConserved, Shares, Using

(* The bounds in TypeOK follow from the shares. *)
LEMMA ShareBounds ==
  ASSUME job_pids \subseteq Jobs, unchecked \subseteq job_pids, job_cpu \in [Jobs -> Cpus], SeqTypes, Shares
  PROVE  /\ Len(available_cpus) <= MAX_PARALLEL
         /\ IsFiniteSet(Using) /\ Cardinality(Using) \in 0..MAX_PARALLEL
<1>1. Using \in SUBSET Jobs
  BY DEF Using
<1> QED
  BY <1>1, UsingBound, PoolBound DEF Shares, SeqTypes

(* What survives a kill: the files, and processes of earlier runs. *)
Survives ==
    /\ csv \in [Jobs -> Nat] /\ stats \in [Jobs -> {"rejected", "accepted"}]
    /\ run \in Runs /\ overlapped \subseteq Jobs
    /\ proc \in [Runs -> [Jobs -> ProcStates]]
    /\ \A r \in Runs : r >= run => \A j \in Jobs : proc[r][j] = "none"
    /\ Alone /\ RowsSound

(* A script that starts has all CPUs in its pool and nothing launched. *)
LEMMA StartInv == Start /\ Survives => IInv
<1> SUFFICES ASSUME Start, Survives PROVE IInv
  OBVIOUS
<1> USE DEF Survives
<1>1. /\ available_cpus \in Seq(Cpus) /\ Len(available_cpus) = MAX_PARALLEL
      /\ IsInjective(available_cpus)
      /\ ToSet(available_cpus) = Cpus
  <2>1. /\ available_cpus \in [1..MAX_PARALLEL -> Cpus]
        /\ \A i \in 1..MAX_PARALLEL : available_cpus[i] = i - 1
    BY PoolAssumption DEF Start, Cpus
  <2>2. available_cpus \in Seq(Cpus) /\ Len(available_cpus) = MAX_PARALLEL
    BY <2>1, PoolAssumption
  <2>3. IsInjective(available_cpus)
    BY <2>1, PoolAssumption DEF IsInjective
  <2>4. \A c \in Cpus : c + 1 \in 1..MAX_PARALLEL /\ available_cpus[c + 1] = c
    BY <2>1, PoolAssumption DEF Cpus
  <2>5. ToSet(available_cpus) = Cpus
    BY <2>1, <2>4 DEF ToSet
  <2> QED
    BY <2>2, <2>3, <2>5
<1>2. \A j \in Jobs : proc[run][j] = "none"
  BY DEF Runs
<1>3. TypeOK
  <2>1. /\ 1 \in 1..(Len(job_queue) + 1) /\ 0 \in 0..MAX_PARALLEL /\ 0 \in Cpus
        /\ MAX_PARALLEL <= MAX_PARALLEL
    BY QueueFacts, PoolAssumption DEF Cpus
  <2>2. job_cpu \in [Jobs -> Cpus]
    BY <2>1 DEF Start
  <2> QED
    BY <1>1, <2>1, <2>2, ZenonT(30) DEF Start, TypeOK
<1>4. Shares
  BY <1>1, FS_EmptySet, ZenonT(30) DEF Start, Shares, Using
<1>5. Control /\ Processes /\ Passed
  <2>1. \A r \in Runs : r > run => r >= run
    BY DEF Runs
  <2> QED
    BY <1>2, <2>1 DEF Start, Control, Processes, Passed, InHand
<1> QED
  BY <1>1, <1>3, <1>4, <1>5, PoolParts DEF IInv, SeqTypes

(* There are no rows and no processes at first. *)
LEMMA InitInv == Init => IInv
<1> SUFFICES ASSUME Init PROVE IInv
  OBVIOUS
<1>1. Survives
  BY PoolAssumption DEF Init, Survives, RowsSound, Alone, alive, Runs, ProcStates
<1> QED
  BY <1>1, StartInv DEF Init

-----------------------------------------------------------------------------
(***************************************************************************)
(* A step of a process: it moves on, and may write its stats.txt or add a  *)
(* row.  It opens stats.txt, or adds the row, only after it has seen that  *)
(* there is no row.                                                        *)
(***************************************************************************)
Effect(r, j) ==
    /\ proc' \in [Runs -> [Jobs -> ProcStates]]
    /\ \A q \in Runs, i \in Jobs : q # r \/ i # j => proc'[q][i] = proc[q][i]
    /\ alive(r, j) /\ proc'[r][j] \in {"checked", "simulating", "recording", "ok", "failed"}
    /\ csv' \in [Jobs -> Nat] /\ stats' \in [Jobs -> {"rejected", "accepted"}]
    /\ \A i \in Jobs : i # j => csv'[i] = csv[i] /\ stats'[i] = stats[i]
    /\ \/ csv'[j] = csv[j]
       \/ csv'[j] = csv[j] + 1 /\ proc[r][j] = "recording" /\ proc'[r][j] = "ok" /\ stats' = stats
    /\ stats'[j] # stats[j] => proc[r][j] \in {"checked", "simulating"}
    /\ proc'[r][j] = "ok" => csv'[j] > 0
    /\ proc'[r][j] \in {"checked", "simulating", "recording"} =>
          /\ csv'[j] = csv[j]
          /\ proc[r][j] = "started" => csv[j] = 0
    /\ proc'[r][j] = "recording" => stats'[j] = "accepted"

LEMMA JobStepEffect ==
  ASSUME TypeOK, NEW r \in Runs, NEW j \in Jobs, JobStep(r, j)
  PROVE  Effect(r, j) /\ UNCHANGED <<script, run, overlapped>>
<1> USE DEF TypeOK
<1>1. CASE run_gem5_simulation(r, j)
  BY <1>1 DEF run_gem5_simulation, check_result_exists, Effect, alive, ProcStates, files
<1>2. CASE ExtractOrRun(r, j)
  <2>1. PICK p \in {"recording", "simulating"}, s \in {"rejected", "accepted"} :
           /\ proc' = [proc EXCEPT ![r][j] = p] /\ stats' = [stats EXCEPT ![j] = s]
           /\ p = "recording" => s = "accepted"
    BY <1>2 DEF ExtractOrRun
  <2> QED
    BY <1>2, <2>1 DEF ExtractOrRun, Effect, alive, ProcStates
<1>3. CASE Gem5Dumps(r, j)
  BY <1>3 DEF Gem5Dumps, Effect, alive, ProcStates
<1>4. CASE Gem5Exits(r, j)
  <2>1. PICK p \in {"failed", "recording"}, s \in {"rejected", "accepted"} :
           /\ proc' = [proc EXCEPT ![r][j] = p] /\ stats' = [stats EXCEPT ![j] = s]
           /\ p = "recording" => s = "accepted"
    BY <1>4 DEF Gem5Exits
  <2> QED
    BY <1>4, <2>1 DEF Gem5Exits, Effect, alive, ProcStates
<1>5. CASE record_result_to_csv(r, j)
  BY <1>5 DEF record_result_to_csv, Effect, alive, ProcStates
<1> QED
  BY <1>1, <1>2, <1>3, <1>4, <1>5 DEF JobStep

LEMMA JobStepInv == ASSUME IInv, NEW r \in Runs, NEW j \in Jobs, JobStep(r, j) PROVE IInv'
<1>1. TypeOK /\ Shares /\ SeqTypes /\ Control /\ Processes /\ Alone /\ Passed /\ RowsSound
  BY PoolParts DEF IInv
<1>2. Effect(r, j) /\ UNCHANGED <<script, run, overlapped>>
  BY <1>1, JobStepEffect
<1> USE <1>1, <1>2
<1>3. run \in Runs /\ r <= run
  <2>1. run \in Runs /\ proc[r][j] # "none"
    BY DEF TypeOK, Effect, alive
  <2> QED
    BY <2>1 DEF Processes, Runs
<1>4. \A i \in Jobs : proc[run][i] # "none" => proc'[run][i] # "none"
  BY <1>3 DEF Effect
<1>5. SeqTypes' /\ Shares'
  BY DEF SeqTypes, Shares, Using, script
<1>6. TypeOK'
  BY DEF TypeOK, script, Effect
<1>7. Control'
  <2>1. InHand => job \in Jobs
    BY QueueFacts DEF Control, TypeOK, job
  <2>2. InHand => proc'[run][job] = "none"
    BY <1>3, <2>1 DEF Control, Effect, alive
  <2> QED
    BY <2>2 DEF Control, InHand, job, script
<1>8. Processes'
  <2>1. Using' = Using /\ Taken' = Taken /\ job_pids' = job_pids /\ run' = run
    BY DEF Using, Taken, script
  <2>2. \A i \in Jobs : proc'[run][i] # "none" => i \in Taken /\ (i \in Using \/ ended(i)')
    <3> SUFFICES ASSUME NEW i \in Jobs, proc'[run][i] # "none"
                 PROVE  i \in Taken /\ (i \in Using \/ ended(i)')
      OBVIOUS
    <3>1. CASE r = run /\ i = j
      BY <3>1 DEF Processes, Effect, ended, alive
    <3>2. CASE r # run \/ i # j
      BY <1>3, <2>1, <3>2 DEF Processes, Effect, ended
    <3> QED
      BY <3>1, <3>2
  <2>3. \A i \in job_pids : proc'[run][i] # "none"
    BY <1>4 DEF Processes, TypeOK
  <2>4. \A i \in Jobs : proc'[run][i] = "ok" => csv'[i] > 0
    <3> SUFFICES ASSUME NEW i \in Jobs, proc'[run][i] = "ok" PROVE csv'[i] > 0
      OBVIOUS
    <3>1. CASE r = run /\ i = j
      BY <3>1 DEF Effect
    <3>2. CASE r # run \/ i # j
      <4>1. csv[i] > 0 /\ csv[i] \in Nat
        BY <1>3, <3>2 DEF Processes, Effect, TypeOK
      <4> QED
        BY <4>1 DEF Effect
    <3> QED
      BY <3>1, <3>2
  <2>5. \A q \in Runs : q > run => \A i \in Jobs : proc'[q][i] = "none"
    <3>1. \A q \in Runs : q > run => q # r
      BY <1>3 DEF Runs
    <3> QED
      BY <3>1 DEF Processes, Effect
  <2> QED
    BY <2>1, <2>2, <2>3, <2>4, <2>5 DEF Processes
<1>9. \A q \in Runs, i \in Jobs : alive(q, i)' => alive(q, i)
  BY DEF Effect, alive
<1>10. Alone'
  <2> SUFFICES ASSUME NEW i \in Jobs \ overlapped, NEW q \in Runs
               PROVE  /\ alive(q, i)' => \A p \in Runs : alive(p, i)' => p = q
                      /\ proc'[q][i] \in {"checked", "simulating", "recording"} => csv'[i] = 0
                      /\ proc'[q][i] = "recording" => stats'[i] = "accepted"
    BY DEF Alone
  <2>1. alive(q, i)' => \A p \in Runs : alive(p, i)' => p = q
    BY <1>9 DEF Alone
  <2>2. CASE q = r /\ i = j
    BY <2>1, <2>2 DEF Alone, Effect, alive
  <2>3. CASE i # j
    BY <2>1, <2>3 DEF Alone, Effect
  <2>4. CASE q # r /\ i = j
    <3>1. ~alive(q, i) /\ proc'[q][i] = proc[q][i]
      BY <2>4 DEF Alone, Effect
    <3> QED
      BY <2>1, <3>1 DEF alive
  <2> QED
    BY <2>2, <2>3, <2>4
<1>11. Passed'
  <2>1. next' = next /\ dropped' = dropped /\ (InHand' <=> InHand) /\ run' = run
    BY DEF InHand, script
  <2>0. \A i \in Jobs : csv[i] > 0 => csv'[i] > 0
    <3>1. \A i \in Jobs : csv[i] \in Nat /\ (csv'[i] = csv[i] \/ csv'[i] = csv[i] + 1)
      BY DEF TypeOK, Effect
    <3> QED
      BY <3>1
  <2>2. \A i \in 1..(next - 1) : job_queue[i] \in Jobs
    BY QueueFacts DEF TypeOK
  <2> QED
    BY <1>4, <2>1, <2>0, <2>2 DEF Passed
<1>12. RowsSound'
  <2> SUFFICES ASSUME NEW i \in Jobs \ overlapped
               PROVE  csv'[i] <= 1 /\ (csv'[i] = 1 => stats'[i] = "accepted")
    BY DEF RowsSound
  <2>1. CASE i # j
    BY <2>1 DEF RowsSound, Effect
  <2>2. CASE i = j /\ proc[r][j] \in {"checked", "simulating", "recording"}
    <3>1. csv[j] = 0 /\ (proc[r][j] = "recording" => stats[j] = "accepted")
      BY <2>2 DEF Alone
    <3> QED
      BY <2>2, <3>1 DEF Effect
  <2>3. CASE i = j /\ proc[r][j] = "started"
    BY <2>3 DEF RowsSound, Effect
  <2> QED
    BY <2>1, <2>2, <2>3 DEF Effect, alive
<1> QED
  BY <1>5, <1>6, <1>7, <1>8, <1>10, <1>11, <1>12 DEF IInv, PoolConserved, Shares, Using

(* A step of the script leaves processes and files as they are, except for the launch. *)
LEMMA Untouched ==
  ASSUME IInv, UNCHANGED <<proc, csv, stats, run, overlapped>>
  PROVE  Alone' /\ RowsSound'
  BY DEF IInv, Alone, alive, RowsSound

LEMMA NextJobInv == IInv /\ NextJob => IInv'
<1> SUFFICES ASSUME IInv, NextJob PROVE IInv'
  OBVIOUS
<1>1. TypeOK /\ Shares /\ SeqTypes /\ Control /\ Processes /\ Alone /\ Passed /\ RowsSound
  BY PoolParts DEF IInv
<1>2. CASE next > Len(job_queue)
  <2>1. /\ pc = "next" /\ pc' = "join" /\ next' = next /\ unchecked' = job_pids
        /\ UNCHANGED <<running_jobs, job_pids, available_cpus, job_cpu, dropped, proc, csv, stats, run, overlapped>>
    BY <1>2 DEF NextJob, files
  <2>2. Using' = Using /\ Taken' = Taken
    BY <2>1 DEF Using, Taken
  <2>3. SeqTypes' /\ TypeOK' /\ Shares' /\ Alone' /\ RowsSound'
    BY <1>1, <2>1, <2>2, Untouched DEF SeqTypes, TypeOK, Shares
  <2>4. Control' /\ Passed'
    BY <1>1, <1>2, <2>1 DEF Control, Passed, InHand
  <2>5. Processes'
    BY <1>1, <2>1, <2>2 DEF Processes, ended
  <2> QED
    BY <2>3, <2>4, <2>5 DEF IInv, PoolConserved, Shares, Using
<1>3. CASE ~(next > Len(job_queue))
  <2>1. /\ pc = "next" /\ next' = next + 1 /\ next \in 1..Len(job_queue)
        /\ pc' = IF csv[job_queue[next]] > 0 THEN "next" ELSE "wait"
        /\ UNCHANGED <<unchecked, running_jobs, job_pids, available_cpus, job_cpu, dropped, proc, csv, stats, run, overlapped>>
    BY <1>1, <1>3, QueueFacts DEF NextJob, files, check_result_exists, TypeOK
  <2>2. Using' = Using /\ Taken \subseteq Taken' /\ job_queue[next] \notin Taken
    <3>1. \A i \in 1..(next - 1) : i \in 1..((next + 1) - 1) /\ i \in 1..Len(job_queue) /\ i # next
      BY <2>1
    <3>2. job_queue[next] \notin Taken
      BY <2>1, <3>1, QueueFacts DEF Taken
    <3> QED
      BY <2>1, <3>1, <3>2 DEF Using, Taken
  <2>3. job' = job_queue[next] /\ job_queue[next] \in Jobs /\ proc[run][job_queue[next]] = "none"
    BY <1>1, <2>1, <2>2, QueueFacts DEF job, Processes
  <2>4. SeqTypes' /\ TypeOK' /\ Shares' /\ Alone' /\ RowsSound'
    BY <1>1, <2>1, <2>2, QueueFacts, Untouched DEF SeqTypes, TypeOK, Shares
  <2>5. Control'
    BY <1>1, <2>1, <2>3 DEF Control, InHand
  <2>6. Passed'
    <3> SUFFICES ASSUME NEW i \in 1..next
                 PROVE  \/ csv[job_queue[i]] > 0 \/ job_queue[i] \in dropped
                        \/ proc[run][job_queue[i]] # "none"
                        \/ pc' = "wait" /\ i = next
      BY <2>1 DEF Passed, InHand
    <3>1. CASE i = next
      BY <3>1, <2>1
    <3>2. CASE i # next
      BY <1>1, <2>1, <3>2 DEF Passed, InHand
    <3> QED
      BY <3>1, <3>2
  <2>7. Processes'
    BY <1>1, <2>1, <2>2 DEF Processes, ended
  <2> QED
    BY <2>4, <2>5, <2>6, <2>7 DEF IInv, PoolConserved, Shares, Using
<1> QED
  BY <1>2, <1>3

(* Waiting, and the end of a loop, only move the script on. *)
LEMMA MoveInv == IInv /\ (Wait \/ ReapDone \/ Delay \/ JoinDone) => IInv'
<1> SUFFICES ASSUME IInv, Wait \/ ReapDone \/ Delay \/ JoinDone PROVE IInv'
  OBVIOUS
<1>1. TypeOK /\ Shares /\ SeqTypes /\ Control /\ Processes /\ Alone /\ Passed /\ RowsSound
  BY PoolParts DEF IInv
<1>2. /\ UNCHANGED <<next, running_jobs, job_pids, available_cpus, job_cpu, proc, csv, stats, run, overlapped>>
      /\ pc' \in {"next", "wait", "reap", "delay", "launch", "join", "done"}
      /\ pc' \in {"join", "done"} <=> pc \in {"join", "done"}
      /\ pc \in {"join", "done"} => unchecked' = unchecked /\ dropped' = dropped
      /\ unchecked' \in {unchecked, job_pids}
      /\ dropped' = dropped \/ (InHand /\ dropped' = dropped \cup {job})
      /\ InHand' => InHand
      /\ InHand => InHand' \/ job \in dropped'
  <2>1. CASE Wait
    BY <2>1 DEF Wait, files, InHand
  <2>2. CASE ReapDone
    BY <2>2 DEF ReapDone, files, InHand
  <2>3. CASE Delay
    BY <2>3 DEF Delay, files, InHand
  <2>4. CASE JoinDone
    BY <2>4 DEF JoinDone, files, InHand
  <2> QED
    BY <2>1, <2>2, <2>3, <2>4
<1>3. Using' = Using /\ Taken' = Taken /\ job' = job
  BY <1>2 DEF Using, Taken, job
<1>4. InHand => job \in Jobs /\ next - 1 \in 1..Len(job_queue)
  BY <1>1, QueueFacts DEF Control, TypeOK, job
<1>5. TypeOK'
  <2>1. dropped' \subseteq Jobs /\ unchecked' \subseteq job_pids'
    BY <1>1, <1>2, <1>4 DEF TypeOK
  <2> QED
    BY <1>1, <1>2, <2>1 DEF TypeOK
<1>6. SeqTypes' /\ Shares' /\ Alone' /\ RowsSound'
  BY <1>1, <1>2, <1>3, Untouched DEF SeqTypes, Shares, TypeOK
<1>7. Control'
  <2>1. InHand' => next' > 1 /\ proc'[run'][job'] = "none"
    BY <1>1, <1>2, <1>3 DEF Control
  <2>2. pc' \in {"delay", "launch"} => available_cpus' # <<>>
    BY <1>1, <1>2 DEF Control, Wait, ReapDone, Delay, JoinDone, Full
  <2>3. pc' \notin {"reap", "join"} => unchecked' = {}
    BY <1>1 DEF Control, Wait, ReapDone, Delay, JoinDone
  <2> QED
    BY <1>1, <1>2, <2>1, <2>2, <2>3 DEF Control
<1>8. Processes'
  BY <1>1, <1>2, <1>3 DEF Processes, ended
<1>9. Passed'
  BY <1>1, <1>2, <1>3 DEF Passed, job
<1> QED
  BY <1>5, <1>6, <1>7, <1>8, <1>9 DEF IInv, PoolConserved, Shares, Using

(* A job that has ended gives its CPU back; what is left of Using keeps its own. *)
LEMMA ReturnCpu ==
  ASSUME IInv, NEW j \in Using, available_cpus' = Append(available_cpus, job_cpu[j]),
         Using' = Using \ {j}, \A i \in Using' : job_cpu'[i] = job_cpu[i]
  PROVE  /\ available_cpus' \in Seq(Cpus) /\ IsInjective(available_cpus')
         /\ ToSet(available_cpus') = Cpus \ {job_cpu'[i] : i \in Using'}
         /\ \A i, k \in Using' : i # k => job_cpu'[i] # job_cpu'[k]
         /\ Cardinality(Using') = Cardinality(Using) - 1
         /\ Len(available_cpus') <= MAX_PARALLEL
<1>1. TypeOK /\ Shares /\ SeqTypes
  BY PoolParts DEF IInv
<1>2. Using \subseteq Jobs /\ job_cpu[j] \in Cpus /\ job_cpu[j] \notin ToSet(available_cpus)
  BY <1>1 DEF Using, TypeOK, Shares
<1>3. /\ available_cpus' \in Seq(Cpus) /\ IsInjective(available_cpus')
      /\ ToSet(available_cpus') = ToSet(available_cpus) \cup {job_cpu[j]}
  BY <1>1, <1>2, AppendFacts DEF Shares, SeqTypes
<1>4. ToSet(available_cpus') = Cpus \ {job_cpu'[i] : i \in Using'}
  BY <1>1, <1>2, <1>3 DEF Shares
<1>5. Cardinality(Using') = Cardinality(Using) - 1
  BY <1>1, ShareBounds, FS_RemoveElement, ZenonT(30) DEF TypeOK
<1> QED
  BY <1>1, <1>3, <1>4, <1>5, PoolBound, ZenonT(30) DEF Shares

LEMMA ReapInv == ASSUME IInv, NEW j \in Jobs, Reap(j) PROVE IInv'
<1>1. TypeOK /\ Shares /\ SeqTypes /\ Control /\ Processes /\ Alone /\ Passed /\ RowsSound
  BY PoolParts DEF IInv
<1>2. /\ pc = "reap" /\ pc' = pc /\ j \in unchecked /\ unchecked' = unchecked \ {j}
      /\ UNCHANGED <<next, dropped, proc, csv, stats, run, overlapped>>
      /\ Taken' = Taken /\ job' = job /\ Using = job_pids /\ Using' = job_pids'
      /\ job_pids' \subseteq job_pids
  BY DEF Reap, files, Taken, job, Using
<1>0. job_cpu' \in [Jobs -> Cpus] /\ \A i \in job_pids' : job_cpu'[i] = job_cpu[i]
  <2>1. 0 \in Cpus /\ job_cpu \in [Jobs -> Cpus] /\ job_pids \subseteq Jobs
    BY <1>1, PoolAssumption DEF Cpus, TypeOK
  <2>2. CASE ended(j)
    BY <2>1, <2>2 DEF Reap
  <2>3. CASE ~ended(j)
    BY <2>1, <2>3 DEF Reap
  <2> QED
    BY <2>2, <2>3
<1>3. /\ SeqTypes' /\ Shares' /\ running_jobs' \in 0..MAX_PARALLEL
      /\ Len(available_cpus') <= MAX_PARALLEL /\ ToSet(available_cpus') \subseteq Cpus
  <2>1. CASE ended(j)
    <3>1. /\ available_cpus' = Append(available_cpus, job_cpu[j])
          /\ job_pids' = job_pids \ {j} /\ running_jobs' = running_jobs - 1
          /\ j \in Using
      BY <1>1, <1>2, <2>1 DEF Reap, TypeOK
    <3>2. /\ available_cpus' \in Seq(Cpus) /\ IsInjective(available_cpus')
          /\ ToSet(available_cpus') = Cpus \ {job_cpu'[i] : i \in Using'}
          /\ \A i, k \in Using' : i # k => job_cpu'[i] # job_cpu'[k]
          /\ Cardinality(Using') = Cardinality(Using) - 1
          /\ Len(available_cpus') <= MAX_PARALLEL
      BY <1>2, <1>0, <3>1, ReturnCpu, ZenonT(30)
    <3>3. running_jobs' = Cardinality(Using') /\ running_jobs' \in 0..MAX_PARALLEL
      <4>1. running_jobs = Cardinality(Using) /\ running_jobs \in 0..MAX_PARALLEL
        BY <1>1, <1>2 DEF Shares, TypeOK
      <4>2. Using' \in SUBSET Jobs /\ job_cpu' \in [Jobs -> Cpus]
        BY <1>1, <1>2, <1>0 DEF TypeOK
      <4>3. Cardinality(Using') \in 0..MAX_PARALLEL
        BY <3>2, <4>2, UsingBound
      <4> QED
        BY <3>1, <3>2, <4>1, <4>3
    <3> QED
      BY <1>1, <1>2, <3>2, <3>3 DEF SeqTypes, Shares
  <2>2. CASE ~ended(j)
    BY <1>1, <1>2, <2>2 DEF Reap, SeqTypes, Shares, TypeOK
  <2> QED
    BY <2>1, <2>2
<1>4. TypeOK'
  <2>1. unchecked' \subseteq job_pids'
    BY <1>1, <1>2 DEF TypeOK, Reap
  <2> QED
    BY <1>1, <1>2, <1>0, <1>3, <2>1 DEF TypeOK
<1>5. Control' /\ Alone' /\ RowsSound'
  BY <1>1, <1>2, Untouched DEF Control, InHand
<1>6. Processes'
  <2>1. \A i \in job_pids : i \in job_pids' \/ ended(i)
    BY DEF Reap
  <2> QED
    BY <1>1, <1>2, <2>1 DEF Processes, ended
<1>7. Passed'
  BY <1>1, <1>2 DEF Passed, InHand
<1> QED
  BY <1>3, <1>4, <1>5, <1>6, <1>7 DEF IInv, PoolConserved, Shares, Using

LEMMA JoinInv == ASSUME IInv, NEW j \in Jobs, Join(j) PROVE IInv'
<1>1. TypeOK /\ Shares /\ SeqTypes /\ Control /\ Processes /\ Alone /\ Passed /\ RowsSound
  BY PoolParts DEF IInv
<1>2. /\ pc = "join" /\ pc' = pc /\ j \in unchecked /\ unchecked' = unchecked \ {j} /\ ended(j)
      /\ available_cpus' = Append(available_cpus, job_cpu[j])
      /\ UNCHANGED <<next, job_pids, running_jobs, job_cpu, dropped, proc, csv, stats, run, overlapped>>
      /\ Taken' = Taken /\ Using = unchecked /\ Using' = unchecked'
  BY DEF Join, files, Taken, Using
<1>3. /\ available_cpus' \in Seq(Cpus) /\ IsInjective(available_cpus')
      /\ ToSet(available_cpus') = Cpus \ {job_cpu'[i] : i \in Using'}
      /\ \A i, k \in Using' : i # k => job_cpu'[i] # job_cpu'[k]
      /\ Len(available_cpus') <= MAX_PARALLEL
  BY <1>2, ReturnCpu
<1>4. SeqTypes' /\ Shares'
  BY <1>1, <1>2, <1>3 DEF SeqTypes, Shares
<1>5. TypeOK'
  BY <1>1, <1>2, <1>3 DEF TypeOK
<1>6. Control' /\ Passed' /\ Alone' /\ RowsSound'
  BY <1>1, <1>2, Untouched DEF Control, Passed, InHand
<1>7. Processes'
  BY <1>1, <1>2 DEF Processes, ended
<1> QED
  BY <1>4, <1>5, <1>6, <1>7 DEF IInv, PoolConserved, Shares, Using

(* The job in hand gets the first CPU of a pool that is not empty. *)
LEMMA LaunchInv == IInv /\ Launch => IInv'
<1> SUFFICES ASSUME IInv, Launch PROVE IInv'
  OBVIOUS
<1>1. TypeOK /\ Shares /\ SeqTypes /\ Control /\ Processes /\ Alone /\ Passed /\ RowsSound
  BY PoolParts DEF IInv
<1> DEFINE cpu == Head(available_cpus)
<1>2. /\ pc = "launch" /\ pc' = "next" /\ running_jobs' = running_jobs + 1
      /\ job_cpu' = [job_cpu EXCEPT ![job] = cpu] /\ available_cpus' = Tail(available_cpus)
      /\ job_pids' = job_pids \cup {job} /\ proc' = [proc EXCEPT ![run][job] = "started"]
      /\ overlapped' = overlapped \cup {j \in {job} : \E r \in Runs : alive(r, j)}
      /\ UNCHANGED <<next, unchecked, dropped, csv, stats, run>>
      /\ Taken' = Taken /\ Using = job_pids /\ Using' = job_pids'
  BY DEF Launch, files, Taken, Using
<1>3. /\ next > 1 /\ next - 1 \in 1..Len(job_queue) /\ job = job_queue[next - 1]
      /\ job \in Jobs /\ job \in Taken /\ proc[run][job] = "none" /\ job \notin job_pids
  <2>1. next > 1 /\ proc[run][job] = "none" /\ next - 1 \in 1..Len(job_queue) /\ next - 1 \in 1..(next - 1)
    BY <1>1, <1>2, QueueFacts DEF Control, InHand, TypeOK
  <2> QED
    BY <1>1, <2>1, QueueFacts DEF Processes, job, Taken
<1>4. /\ available_cpus' \in Seq(Cpus) /\ IsInjective(available_cpus')
      /\ cpu \in Cpus /\ cpu \in ToSet(available_cpus)
      /\ ToSet(available_cpus') = ToSet(available_cpus) \ {cpu}
  BY <1>1, <1>2, TailFacts DEF Control, SeqTypes, Shares
<1> HIDE DEF cpu
<1>5. /\ job_cpu' \in [Jobs -> Cpus] /\ job_cpu'[job] = cpu
      /\ \A i \in job_pids : job_cpu'[i] = job_cpu[i] /\ job_cpu[i] # cpu
  BY <1>1, <1>2, <1>3, <1>4 DEF TypeOK, Shares
<1>6. /\ \A i, k \in Using' : i # k => job_cpu'[i] # job_cpu'[k]
      /\ ToSet(available_cpus') = Cpus \ {job_cpu'[i] : i \in Using'}
  BY <1>1, <1>2, <1>3, <1>4, <1>5 DEF Shares
<1>7. running_jobs' = Cardinality(Using') /\ running_jobs' \in 0..MAX_PARALLEL
  <2>1. IsFiniteSet(job_pids) /\ running_jobs = Cardinality(job_pids)
    BY <1>1, <1>2, ShareBounds DEF TypeOK, Shares
  <2>2. Cardinality(Using') = Cardinality(job_pids) + 1
    BY <1>2, <1>3, <2>1, FS_AddElement, ZenonT(30)
  <2>3. Using' \in SUBSET Jobs
    BY <1>1, <1>2, <1>3 DEF TypeOK
  <2>4. Cardinality(Using') \in 0..MAX_PARALLEL
    BY <1>5, <1>6, <2>3, UsingBound
  <2> QED
    BY <1>2, <2>1, <2>2, <2>4
<1>8. SeqTypes' /\ Shares'
  BY <1>1, <1>2, <1>4, <1>6, <1>7 DEF SeqTypes, Shares
<1>0. /\ run \in Runs /\ proc' \in [Runs -> [Jobs -> ProcStates]]
      /\ proc'[run][job] = "started"
      /\ \A r \in Runs, i \in Jobs : r # run \/ i # job => proc'[r][i] = proc[r][i]
  BY <1>1, <1>2, <1>3 DEF TypeOK, ProcStates
<1>9. TypeOK'
  <2>1. Len(available_cpus') <= MAX_PARALLEL /\ ToSet(available_cpus') \subseteq Cpus
    BY <1>4, <1>6, PoolBound
  <2>2. unchecked' \subseteq job_pids' /\ job_pids' \subseteq Jobs
    BY <1>1, <1>2, <1>3 DEF TypeOK
  <2> QED
    BY <1>1, <1>2, <1>3, <1>5, <1>7, <1>0, <2>1, <2>2 DEF TypeOK
<1>10. Control'
  BY <1>1, <1>2 DEF Control, InHand
<1>11. Processes'
  <2>1. \A i \in Jobs : proc'[run][i] # "none" => i \in Taken' /\ (i \in Using' \/ ended(i)')
    BY <1>1, <1>2, <1>3, <1>0 DEF Processes, ended
  <2>2. \A i \in job_pids' : proc'[run][i] # "none"
    BY <1>1, <1>2, <1>0 DEF Processes, TypeOK
  <2>3. \A r \in Runs : r > run => \A i \in Jobs : proc'[r][i] = "none"
    <3>1. \A r \in Runs : r > run => r # run
      BY <1>0 DEF Runs
    <3> QED
      BY <1>1, <1>0, <3>1 DEF Processes
  <2>4. \A i \in Jobs : proc'[run][i] = "ok" => csv[i] > 0
    BY <1>1, <1>0 DEF Processes
  <2> QED
    BY <1>2, <2>1, <2>2, <2>3, <2>4 DEF Processes
<1>12. Passed'
  <2>1. \A i \in Jobs : proc[run][i] # "none" => proc'[run][i] # "none"
    BY <1>3, <1>0
  <2>2. \A i \in 1..(next - 1) : job_queue[i] \in Jobs
    BY <1>1, QueueFacts DEF TypeOK
  <2> QED
    BY <1>1, <1>2, <1>3, <1>0, <2>1, <2>2 DEF Passed
<1>13. Alone'
  <2> SUFFICES ASSUME NEW i \in Jobs \ overlapped', NEW q \in Runs
               PROVE  /\ alive(q, i)' => \A p \in Runs : alive(p, i)' => p = q
                      /\ proc'[q][i] \in {"checked", "simulating", "recording"} => csv[i] = 0
                      /\ proc'[q][i] = "recording" => stats[i] = "accepted"
    BY <1>2 DEF Alone
  <2>1. CASE i = job
    <3>1. \A p \in Runs : ~alive(p, job)
      BY <1>2, <2>1
    <3>2. \A p \in Runs : alive(p, i)' => p = run
      BY <1>3, <1>0, <2>1, <3>1 DEF alive
    <3>3. proc'[q][i] \notin {"checked", "simulating", "recording"}
      BY <1>3, <1>0, <2>1, <3>1 DEF alive
    <3> QED
      BY <2>1, <3>2, <3>3
  <2>2. CASE i # job
    <3>1. \A p \in Runs : proc'[p][i] = proc[p][i]
      BY <1>0, <2>2
    <3> QED
      BY <1>1, <1>2, <3>1 DEF Alone, alive
  <2> QED
    BY <2>1, <2>2
<1>14. RowsSound'
  BY <1>1, <1>2 DEF RowsSound
<1> QED
  BY <1>8, <1>9, <1>10, <1>11, <1>12, <1>13, <1>14 DEF IInv, PoolConserved, Shares, Using

(* A kill leaves the files, and processes that keep what Alone says of them. *)
LEMMA RestartInv == IInv /\ Restart => IInv'
<1> SUFFICES ASSUME IInv, Restart PROVE IInv'
  OBVIOUS
<1>1. Start'
  BY DEF Restart, Start
<1>2. TypeOK /\ Processes /\ Alone /\ RowsSound
  BY PoolParts DEF IInv
<1>3. /\ run \in Runs /\ run' = run + 1 /\ run' \in Runs
      /\ UNCHANGED <<csv, stats, overlapped>>
  BY <1>2, PoolAssumption DEF Restart, TypeOK, Runs, files
<1>4. /\ proc' \in [Runs -> [Jobs -> ProcStates]]
      /\ \A r \in Runs, j \in Jobs : proc'[r][j] \in {proc[r][j], "none"}
  BY <1>2 DEF Restart, TypeOK, ProcStates
<1>5. \A r \in Runs : r >= run' => \A j \in Jobs : proc'[r][j] = "none"
  <2>1. \A r \in Runs : r >= run + 1 => r > run
    BY <1>3 DEF Runs
  <2> QED
    BY <1>2, <1>3, <1>4, <2>1 DEF Processes
<1>6. Alone'
  <2>1. \A r \in Runs, j \in Jobs :
           /\ alive(r, j)' => alive(r, j)
           /\ proc'[r][j] # "none" => proc'[r][j] = proc[r][j]
    BY <1>4 DEF alive
  <2> QED
    BY <1>2, <1>3, <2>1 DEF Alone
<1>7. RowsSound'
  BY <1>2, <1>3 DEF RowsSound
<1>8. Survives'
  BY <1>2, <1>3, <1>4, <1>5, <1>6, <1>7 DEF Survives, TypeOK
<1> QED
  BY <1>1, <1>8, StartInv, PTL

LEMMA NextInv == IInv /\ [Next]_vars => IInv'
<1> SUFFICES ASSUME IInv, [Next]_vars PROVE IInv'
  OBVIOUS
<1>1. CASE ScriptStep
  BY <1>1, NextJobInv, MoveInv, LaunchInv, ReapInv, JoinInv DEF ScriptStep
<1>2. CASE \E r \in Runs, j \in Jobs : JobStep(r, j)
  BY <1>2, JobStepInv
<1>3. CASE Restart
  BY <1>3, RestartInv
<1>4. CASE Ended \/ UNCHANGED vars
  <2>1. UNCHANGED <<pc, next, running_jobs, job_pids, unchecked, available_cpus, job_cpu, dropped,
                    proc, csv, stats, run, overlapped>>
    BY <1>4 DEF Ended, vars, script, files
  <2> QED
    BY <2>1, Untouched DEF IInv, SeqTypes, PoolConserved, TypeOK, Control, Processes, Passed,
       InHand, Using, Taken, job, ended
<1> QED
  BY <1>1, <1>2, <1>3, <1>4 DEF Next

LEMMA Invariance == Spec => []IInv
  BY InitInv, NextInv, PTL DEF Spec

-----------------------------------------------------------------------------
(***************************************************************************)
(* The pool of CPUs is conserved (run_jobs_in_parallel): whatever order    *)
(* jobs end in, two jobs of a run of the script never share a CPU, and     *)
(* every CPU is in the pool or in use by one of them.                      *)
(***************************************************************************)
THEOREM PoolCorrect == Spec => []PoolConserved
<1>1. IInv => PoolConserved
  BY DEF IInv
<1> QED
  BY <1>1, Invariance, PTL

(***************************************************************************)
(* A job that never had two processes at once has at most one row, and it  *)
(* stands for a stats.txt that is accepted (run_gem5_simulation and        *)
(* record_result_to_csv), however often the script is killed and whichever *)
(* of its background jobs live on.                                         *)
(***************************************************************************)
THEOREM RowsCorrect == Spec => []RowsSound
<1>1. IInv => RowsSound
  BY DEF IInv
<1> QED
  BY <1>1, Invariance, PTL

(***************************************************************************)
(* When the script ends, every job has its row, has failed or was given up *)
(* after the launch delay (the loops of run_jobs_in_parallel).             *)
(***************************************************************************)
THEOREM NoneForgottenCorrect == Spec => []NoneForgotten
<1>1. IInv => NoneForgotten
  <2> SUFFICES ASSUME IInv, pc = "done", NEW j \in Jobs
               PROVE  csv[j] > 0 \/ proc[run][j] = "failed" \/ j \in dropped
    BY DEF NoneForgotten, check_result_exists
  <2>1. PICK i \in 1..Len(job_queue) : j = job_queue[i]
    BY QueueFacts
  <2>2. i \in 1..(next - 1) /\ ~InHand /\ Using = {}
    BY QueueFacts DEF IInv, Control, PoolConserved, TypeOK, InHand, Using
  <2>3. csv[j] > 0 \/ j \in dropped \/ proc[run][j] # "none"
    BY <2>1, <2>2 DEF IInv, Passed
  <2> QED
    BY <2>2, <2>3 DEF IInv, Processes, ended
<1> QED
  BY <1>1, Invariance, PTL
=============================================================================
