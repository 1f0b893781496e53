------------------------------ MODULE JobPool ------------------------------
(***************************************************************************)
(* The experiment scheduler of src/runscripts/run_fig347_backend.sh: it    *)
(* launches gem5 runs in the background, at most MAX_PARALLEL at a time    *)
(* and only while memory is free, pins each to a CPU of its own, and       *)
(* records the host time of each in a CSV file, so that the script can be  *)
(* killed and started again.                                               *)
(*                                                                         *)
(* What survives a kill of the script is the CSV file, the stats.txt of    *)
(* every job, and the background jobs themselves: the script neither traps *)
(* a signal nor ends them.  The next run of the script knows nothing of    *)
(* them, and may start a second process for the same job.  A stats.txt is  *)
(* rejected (absent, cut short, too short a time, a workload error) or     *)
(* accepted.  Whether an accepted file is that of a complete run the       *)
(* script cannot tell: gem5 dumps its statistics when it is interrupted,   *)
(* too.                                                                    *)
(***************************************************************************)
EXTENDS Integers, Sequences, FiniteSets, SequencesExt

CONSTANTS job_queue,        \* the jobs, a sequence without repetitions
          MAX_PARALLEL,
          MaxRestarts       \* bound: how often the script is started again

ASSUME PoolAssumption ==
    /\ job_queue \in Seq(ToSet(job_queue)) /\ IsInjective(job_queue)
    /\ MAX_PARALLEL \in Nat \ {0}
    /\ MaxRestarts \in Nat

Jobs == ToSet(job_queue)
Cpus == 0..(MAX_PARALLEL - 1)
Runs == 0..MaxRestarts      \* the runs of the script, one after the other

VARIABLES
    pc,             \* where the script is
    next,           \* the position in job_queue
    running_jobs,
    job_pids,       \* the launched jobs that have not been waited for
    unchecked,      \* those the current loop over job_pids has still to visit
    available_cpus,
    job_cpu,
    dropped,        \* the jobs given up after the launch delay
    proc,           \* the process of each job, by the run that launched it
    csv,            \* how many rows of the CSV file each job has
    stats,          \* the stats.txt of each job
    run,            \* the current run of the script
    overlapped      \* history: the jobs launched while an earlier process was alive

script == <<pc, next, running_jobs, job_pids, unchecked, available_cpus, job_cpu, dropped>>
files == <<csv, stats>>
vars == <<script, proc, files, run, overlapped>>

job == job_queue[next - 1]    \* the loop variable: the job taken last

Start ==
    /\ pc = "next" /\ next = 1
    /\ running_jobs = 0
    /\ job_pids = {} /\ unchecked = {}
    /\ available_cpus = [i \in 1..MAX_PARALLEL |-> i - 1]
    /\ job_cpu = [j \in Jobs |-> 0]
    /\ dropped = {}

Init ==
    /\ Start
    /\ proc = [r \in Runs |-> [j \in Jobs |-> "none"]]
    /\ csv = [j \in Jobs |-> 0]
    /\ stats = [j \in Jobs |-> "rejected"]
    /\ run = 0
    /\ overlapped = {}

check_result_exists(j) == csv[j] > 0

(* What wait and ps tell the script of a job: that of its own process. *)
ended(j) == proc[run][j] \in {"ok", "failed"}

alive(r, j) == proc[r][j] \in {"started", "checked", "simulating", "recording"}

(***************************************************************************)
(* has_enough_memory, at some moment: the host is otherwise idle, so it is *)
(* false only while jobs run, those of earlier runs included.              *)
(***************************************************************************)
MemoryMayLack == \E r \in Runs, j \in Jobs : alive(r, j)

-----------------------------------------------------------------------------
(* The head of the loop over job_queue. *)
NextJob ==
    /\ pc = "next"
    /\ IF next > Len(job_queue)
       THEN /\ pc' = "join"
            /\ unchecked' = job_pids
            /\ UNCHANGED next
       ELSE /\ next' = next + 1
            /\ pc' = IF check_result_exists(job_queue[next]) THEN "next" ELSE "wait"
            /\ UNCHANGED unchecked
    /\ UNCHANGED <<running_jobs, job_pids, available_cpus, job_cpu, dropped, proc, files, run, overlapped>>

Full == running_jobs >= MAX_PARALLEL \/ available_cpus = <<>>

(* The condition of the wait loop: it sleeps and looks for completed jobs. *)
Wait ==
    /\ pc = "wait"
    /\ \/ /\ Full \/ MemoryMayLack
          /\ pc' = "reap"
          /\ unchecked' = job_pids
       \/ /\ ~Full
          /\ pc' = IF running_jobs > 0 THEN "delay" ELSE "launch"
          /\ UNCHANGED unchecked
    /\ UNCHANGED <<next, running_jobs, job_pids, available_cpus, job_cpu, dropped, proc, files, run, overlapped>>

(* Fault: the CPU of a failed job is not returned. *)
Reap_FailedKeepsCpu(j) ==
    /\ pc = "reap" /\ j \in unchecked
    /\ unchecked' = unchecked \ {j}
    /\ IF ended(j)
       THEN /\ available_cpus' = IF proc[run][j] = "ok" THEN Append(available_cpus, job_cpu[j])
                                 ELSE available_cpus
            /\ job_pids' = job_pids \ {j}
            /\ job_cpu' = [job_cpu EXCEPT ![j] = 0]
            /\ running_jobs' = running_jobs - 1
       ELSE UNCHANGED <<available_cpus, job_pids, job_cpu, running_jobs>>
    /\ UNCHANGED <<pc, next, dropped, proc, files, run, overlapped>>

(* One round of the loop over job_pids: a job that has ended returns its CPU. *)
Reap(j) ==
    /\ pc = "reap" /\ j \in unchecked
    /\ unchecked' = unchecked \ {j}
    /\ IF ended(j)
       THEN /\ available_cpus' = Append(available_cpus, job_cpu[j])
            /\ job_pids' = job_pids \ {j}
            /\ job_cpu' = [job_cpu EXCEPT ![j] = 0]
            /\ running_jobs' = running_jobs - 1
       ELSE UNCHANGED <<available_cpus, job_pids, job_cpu, running_jobs>>
    /\ UNCHANGED <<pc, next, dropped, proc, files, run, overlapped>>

ReapDone ==
    /\ pc = "reap" /\ unchecked = {}
    /\ pc' = "wait"
    /\ UNCHANGED <<next, running_jobs, job_pids, unchecked, available_cpus, job_cpu, dropped,
                   proc, files, run, overlapped>>

(* The launch delay, and the second look at the memory: continue leaves the job. *)
Delay ==
    /\ pc = "delay"
    /\ \/ /\ MemoryMayLack
          /\ pc' = "next"
          /\ dropped' = dropped \cup {job}
       \/ /\ pc' = "launch"
          /\ UNCHANGED dropped
    /\ UNCHANGED <<next, running_jobs, job_pids, unchecked, available_cpus, job_cpu,
                   proc, files, run, overlapped>>

(* Fault: the first CPU is used but stays in the pool. *)
Launch_KeepCpu ==
    /\ pc = "launch"
    /\ job_cpu' = [job_cpu EXCEPT ![job] = Head(available_cpus)]
    /\ job_pids' = job_pids \cup {job}
    /\ running_jobs' = running_jobs + 1
    /\ proc' = [proc EXCEPT ![run][job] = "started"]
    /\ overlapped' = overlapped \cup {j \in {job} : \E r \in Runs : alive(r, j)}
    /\ pc' = "next"
    /\ UNCHANGED <<next, unchecked, available_cpus, dropped, files, run>>

Launch ==
    /\ pc = "launch"
    /\ job_cpu' = [job_cpu EXCEPT ![job] = Head(available_cpus)]
    /\ available_cpus' = Tail(available_cpus)
    /\ job_pids' = job_pids \cup {job}
    /\ running_jobs' = running_jobs + 1
    /\ proc' = [proc EXCEPT ![run][job] = "started"]
    /\ overlapped' = overlapped \cup {j \in {job} : \E r \in Runs : alive(r, j)}
    /\ pc' = "next"
    /\ UNCHANGED <<next, unchecked, dropped, files, run>>

(* Fault: the script ends without waiting for its last jobs. *)
Join_NoWait(j) ==
    /\ pc = "join" /\ j \in unchecked
    /\ unchecked' = unchecked \ {j}
    /\ available_cpus' = Append(available_cpus, job_cpu[j])
    /\ UNCHANGED <<pc, next, running_jobs, job_pids, job_cpu, dropped, proc, files, run, overlapped>>

(* The last loop waits for every job that is left; the counters stay. *)
Join(j) ==
    /\ pc = "join" /\ j \in unchecked
    /\ ended(j)
    /\ unchecked' = unchecked \ {j}
    /\ available_cpus' = Append(available_cpus, job_cpu[j])
    /\ UNCHANGED <<pc, next, running_jobs, job_pids, job_cpu, dropped, proc, files, run, overlapped>>

JoinDone ==
    /\ pc = "join" /\ unchecked = {}
    /\ pc' = "done"
    /\ UNCHANGED <<next, running_jobs, job_pids, unchecked, available_cpus, job_cpu, dropped,
                   proc, files, run, overlapped>>

-----------------------------------------------------------------------------
(* Fault: only the script looks for the row, before it waits for a CPU. *)
run_gem5_simulation_NoCheck(r, j) ==
    /\ proc[r][j] = "started"
    /\ proc' = [proc EXCEPT ![r][j] = "checked"]
    /\ UNCHANGED <<script, files, run, overlapped>>

(* run_gem5_simulation in the background: nothing to do when the row is there. *)
run_gem5_simulation(r, j) ==
    /\ proc[r][j] = "started"
    /\ proc' = [proc EXCEPT ![r][j] = IF check_result_exists(j) THEN "ok" ELSE "checked"]
    /\ UNCHANGED <<script, files, run, overlapped>>

(***************************************************************************)
(* The time is extracted from a stats.txt that is accepted; else gem5 is   *)
(* started, which opens stats.txt anew.  Only a second process of the same *)
(* job could write the file between the two.                               *)
(***************************************************************************)
ExtractOrRun(r, j) ==
    /\ proc[r][j] = "checked"
    /\ \/ /\ stats[j] = "accepted"
          /\ proc' = [proc EXCEPT ![r][j] = "recording"]
          /\ UNCHANGED stats
       \/ /\ stats[j] = "rejected"
          /\ proc' = [proc EXCEPT ![r][j] = "simulating"]
          /\ stats' = [stats EXCEPT ![j] = "rejected"]
    /\ UNCHANGED <<script, csv, run, overlapped>>

(* The statistics gem5 writes may be there before it exits. *)
Gem5Dumps(r, j) ==
    /\ proc[r][j] = "simulating"
    /\ stats[j] = "rejected" /\ stats' = [stats EXCEPT ![j] = "accepted"]
    /\ UNCHANGED <<script, proc, csv, run, overlapped>>

(* gem5 fails, whatever its stats.txt is like, or ends with one that is rejected or accepted. *)
Gem5Exits(r, j) ==
    /\ proc[r][j] = "simulating"
    /\ \/ /\ proc' = [proc EXCEPT ![r][j] = "failed"]
          /\ \E s \in {"rejected", "accepted"} : stats' = [stats EXCEPT ![j] = s]
       \/ /\ proc' = [proc EXCEPT ![r][j] = "recording"]
          /\ stats' = [stats EXCEPT ![j] = "accepted"]
    /\ UNCHANGED <<script, csv, run, overlapped>>

(* The lock of the CSV file orders the rows; it does not look for one again. *)
record_result_to_csv(r, j) ==
    /\ proc[r][j] = "recording"
    /\ csv' = [csv EXCEPT ![j] = @ + 1]
    /\ proc' = [proc EXCEPT ![r][j] = "ok"]
    /\ UNCHANGED <<script, stats, run, overlapped>>

(***************************************************************************)
(* The script is killed, or has ended, and is started again.  Of the       *)
(* processes that are alive all may live on (the script alone was killed), *)
(* none (the host went down), or some.  Nobody asks how the others ended.  *)
(***************************************************************************)
Restart ==
    /\ run < MaxRestarts /\ run' = run + 1
    /\ pc' = "next" /\ next' = 1
    /\ running_jobs' = 0
    /\ job_pids' = {} /\ unchecked' = {}
    /\ available_cpus' = [i \in 1..MAX_PARALLEL |-> i - 1]
    /\ job_cpu' = [j \in Jobs |-> 0]
    /\ dropped' = {}
    /\ \E left \in SUBSET {p \in Runs \X Jobs : alive(p[1], p[2])} :
          proc' = [r \in Runs |-> [j \in Jobs |->
                     IF <<r, j>> \in left THEN proc[r][j] ELSE "none"]]
    /\ UNCHANGED <<files, overlapped>>

Ended == pc = "done" /\ UNCHANGED vars

ScriptStep ==
    \/ NextJob \/ Wait \/ ReapDone \/ Delay \/ Launch \/ JoinDone
    \/ \E j \in Jobs : Reap(j) \/ Join(j)

JobStep(r, j) ==
    \/ run_gem5_simulation(r, j) \/ ExtractOrRun(r, j)
    \/ Gem5Dumps(r, j) \/ Gem5Exits(r, j)
    \/ record_result_to_csv(r, j)

Next == ScriptStep \/ (\E r \in Runs, j \in Jobs : JobStep(r, j)) \/ Restart \/ Ended

Spec == Init /\ [][Next]_vars

(* The script and its jobs run, and every gem5 run ends. *)
FairSpec == Spec /\ WF_vars(ScriptStep) /\ \A r \in Runs, j \in Jobs : WF_vars(JobStep(r, j))

-----------------------------------------------------------------------------
ProcStates == {"none", "started", "checked", "simulating", "recording", "ok", "failed"}

(* Every variable keeps its type. *)
TypeOK ==
    /\ pc \in {"next", "wait", "reap", "delay", "launch", "join", "done"}
    /\ next \in 1..(Len(job_queue) + 1)
    /\ running_jobs \in 0..MAX_PARALLEL
    /\ job_pids \subseteq Jobs /\ unchecked \subseteq job_pids /\ dropped \subseteq Jobs
    /\ ToSet(available_cpus) \subseteq Cpus /\ Len(available_cpus) <= MAX_PARALLEL
    /\ job_cpu \in [Jobs -> Cpus]
    /\ proc \in [Runs -> [Jobs -> ProcStates]]
    /\ csv \in [Jobs -> Nat]
    /\ stats \in [Jobs -> {"rejected", "accepted"}]
    /\ run \in Runs
    /\ overlapped \subseteq Jobs

(***************************************************************************)
(* Every variable has its type, and the pool of CPUs is conserved: two     *)
(* jobs of a run of the script never share one, no CPU in use is in the    *)
(* pool, and none is lost, so that MAX_PARALLEL jobs can always run        *)
(* (run_jobs_in_parallel, available_cpus and job_cpu).                     *)
(***************************************************************************)
PoolConserved ==
    LET using == IF pc \in {"join", "done"} THEN unchecked ELSE job_pids
    IN  /\ TypeOK
        /\ \A i, j \in using : i # j => job_cpu[i] # job_cpu[j]
        /\ IsInjective(available_cpus)
        /\ ToSet(available_cpus) = Cpus \ {job_cpu[j] : j \in using}
        /\ pc \in {"next", "wait", "reap", "delay", "launch"} => running_jobs = Cardinality(using)

(***************************************************************************)
(* However often the script is killed and started again, and whichever of  *)
(* its jobs live on, a job that never had two processes at once has at     *)
(* most one row, and its row stands for a stats.txt that                   *)
(* get_execution_time accepts: no later process opens that file anew.  A   *)
(* process that was alive when the script looked for the row may record it *)
(* and end before the next one is launched, hence the second look in       *)
(* run_gem5_simulation.                                                    *)
(***************************************************************************)
RowsSound ==
    \A j \in Jobs \ overlapped : csv[j] <= 1 /\ (csv[j] = 1 => stats[j] = "accepted")

(***************************************************************************)
(* When the script ends, every job it has not given up has its row or has  *)
(* failed: none is still running and none was forgotten.                   *)
(***************************************************************************)
NoneForgotten ==
    pc = "done" => \A j \in Jobs : check_result_exists(j) \/ proc[run][j] = "failed" \/ j \in dropped

(* The script ends: it does not wait for a CPU, or for memory, for ever. *)
ScriptEnds == pc = "next" ~> pc = "done"
=============================================================================
