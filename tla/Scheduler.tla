-------------------------------- MODULE Scheduler --------------------------------
(***************************************************************************)
(* The scheduler (internal/scheduler/mod.go): it runs the jobs of the      *)
(* configuration, in one goroutine (serial) or in one each (parallel),     *)
(* submits a task to the collectors for every execution, waits for the     *)
(* result without any timeout and puts it into the cache.                  *)
(*                                                                         *)
(* Time is not modelled: a job may be overdue whenever it is looked at.    *)
(* The collectors are TaskService.tla, whose tasks are lost when their     *)
(* collector is replaced; a job may panic when it sends one to a collector  *)
(* that has stopped.  The panics of workers are in Collector.tla.           *)
(* Reload.tla composes these actions with everybody who reconfigures the    *)
(* scheduler.                                                              *)
(***************************************************************************)
EXTENDS Naturals, Sequences, Functions

CONSTANTS
    Job,                \* the jobs of all configurations
    JobsOf,             \* the valid jobs of each configuration, in order
    MaxVersion,         \* bound on the number of reloads
    MaxRuns,            \* bound on the executions of each job
    None

Version == 0 .. MaxVersion

ASSUME SchedulerAssumption ==
    /\ MaxVersion \in Nat /\ MaxRuns \in Nat
    /\ JobsOf \in [Version -> Seq(Job)]
    /\ \A v \in Version : IsInjective(JobsOf[v])

Task == Job \X (1 .. MaxRuns)       \* one for each execution of a job

VARIABLES
    cfg,                \* s.cfg and s.tasks, as a version number
    runPc,              \* where runSerial or runParallel is
    pos,                \* the job runOverdueJobs looks at
    nextCfg,            \* the configuration runParallel received
    groupDone,          \* the context of the jobs of runParallel is done
    jobPc,              \* where the goroutine, or the execution, of a job is
    jobCfg,             \* the configuration of a job that is executed, or 0
    runs,               \* how many times a job was executed
    taskState,          \* the tasks in the collectors
    output,             \* the Output channel of each task
    collectors,         \* Collectors.collectors: "up", or "nil" at start and in a reload
    replaced,           \* tasks whose collector was stopped
    cache,              \* the configuration of the result of each job
    ctxDone,            \* the context of the scheduler is done
    parallel,           \* conf.Args.ParallelScheduler
    jobPanicked         \* the execution of a job has panicked

runVars == <<cfg, runPc, pos, nextCfg, groupDone>>
jobVars == <<jobPc, jobCfg, runs>>
collectorVars == <<collectors, replaced>>
processVars == <<ctxDone, parallel, jobPanicked>>
vars == <<runVars, jobVars, taskState, output, collectorVars, cache, processVars>>

Init ==
    /\ cfg = 0
    /\ runPc = "start"
    /\ pos = 0
    /\ nextCfg = 0
    /\ groupDone = FALSE
    /\ jobPc = [j \in Job |-> "none"]
    /\ jobCfg = [j \in Job |-> 0]
    /\ runs = [j \in Job |-> 0]
    /\ taskState = [t \in Task |-> "new"]
    /\ output = [t \in Task |-> None]
    /\ collectors = "nil"
    /\ replaced = {}
    /\ cache = [j \in Job |-> None]
    /\ ctxDone = FALSE
    /\ parallel \in BOOLEAN
    /\ jobPanicked = FALSE

JobGoto(j, label) == jobPc' = [jobPc EXCEPT ![j] = label]

(* The context of the execution of a job. *)
JobDone == ctxDone \/ (parallel /\ groupDone)

TaskOf(j) == <<j, runs[j]>>

InHandleJob(j) == jobPc[j] \in {"adding", "waiting"}

(* A task of this number was made. *)
IsMade(t) == t[2] <= runs[t[1]]

(* Tasks nobody waits for, those yet to be made for a scheduler that stops    *)
(* included, and tasks that are lost with their collector.                   *)
Withdrawn ==
    replaced \cup
        {t \in Task :
           \/ ctxDone
           \/ IsMade(t) /\ (~ (InHandleJob(t[1]) /\ t = TaskOf(t[1])) \/ JobDone)}

(* The life of the tasks.  One that was made and is not with the collectors  *)
(* was refused: there was no collector.                                      *)
TaskLife ==
    [t \in Task |-> IF taskState[t] = "new" /\ IsMade(t) THEN "answered" ELSE taskState[t]]

Service == INSTANCE TaskService WITH
    state <- TaskLife, withdrawn <- Withdrawn, stopped <- FALSE

NoJobs == \A j \in Job : jobPc[j] = "none"

--------------------------------------------------------------------------------
(* handleJob.                                                                *)

(* A task is made and AddTask begins: without a collector it answers itself. *)
StartJob(j) ==
    /\ runs[j] < MaxRuns
    /\ runs' = [runs EXCEPT ![j] = @ + 1]
    /\ jobCfg' = [jobCfg EXCEPT ![j] = cfg]
    /\ LET t == <<j, runs[j] + 1>> IN
         IF collectors = "nil"
         THEN /\ output' = [output EXCEPT ![t] = "error"]
              /\ JobGoto(j, "waiting")
              /\ UNCHANGED taskState
         ELSE /\ taskState' = [taskState EXCEPT ![t] = "pending"]
              /\ JobGoto(j, "adding")
              /\ UNCHANGED output
    /\ UNCHANGED <<runVars, collectorVars, cache, processVars>>

(* The collector took the task. *)
AddReturns(j) ==
    /\ jobPc[j] = "adding"
    /\ JobGoto(j, "waiting")
    /\ UNCHANGED <<runVars, jobCfg, runs, taskState, output, collectorVars, cache,
                   processVars>>

AddGivesUp(j) ==
    /\ jobPc[j] = "adding"
    /\ JobDone
    /\ JobGoto(j, "waiting")
    /\ UNCHANGED <<runVars, jobCfg, runs, taskState, output, collectorVars, cache,
                   processVars>>

(* The collector has left run, because it was replaced or because of the     *)
(* context, and the select of addTask sends on the closed queue.  runSerial  *)
(* dies of the panic; the errgroup of runParallel cancels the other jobs and *)
(* keeps it for Wait.                                                        *)
AddPanics(j) ==
    /\ jobPc[j] = "adding" /\ taskState[TaskOf(j)] = "pending"
    /\ TaskOf(j) \in replaced \/ ctxDone
    /\ jobPanicked' = TRUE
    /\ JobGoto(j, "none")
    /\ IF parallel
       THEN groupDone' = TRUE /\ UNCHANGED runPc
       ELSE runPc' = "crashed" /\ UNCHANGED groupDone
    /\ jobCfg' = [jobCfg EXCEPT ![j] = 0]
    /\ output' = [output EXCEPT ![TaskOf(j)] = None]
    /\ UNCHANGED <<cfg, pos, nextCfg, runs, taskState, collectorVars, cache, ctxDone,
                   parallel>>

(* handleJob returns to the loop that called it, and closes Output. *)
JobReturns(j) ==
    /\ jobCfg' = [jobCfg EXCEPT ![j] = 0]
    /\ output' = [output EXCEPT ![TaskOf(j)] = None]
    /\ IF parallel
       THEN JobGoto(j, "sleep") /\ UNCHANGED runVars
       ELSE /\ JobGoto(j, "none")
            /\ pos' = pos + 1
            /\ UNCHANGED <<cfg, runPc, nextCfg, groupDone>>

(* A result goes into the cache, an error does not. *)
TakeResult(j) ==
    /\ jobPc[j] = "waiting"
    /\ output[TaskOf(j)] # None
    /\ IF output[TaskOf(j)] = "success"
       THEN cache' = [cache EXCEPT ![j] = jobCfg[j]]
       ELSE UNCHANGED cache
    /\ JobReturns(j)
    /\ UNCHANGED <<runs, taskState, collectorVars, processVars>>

(* Mutant: the select of handleJob has no case for the context. *)
GiveUp_Never(j) == FALSE /\ UNCHANGED vars

GiveUp(j) ==
    /\ jobPc[j] = "waiting"
    /\ JobDone
    /\ JobReturns(j)
    /\ UNCHANGED <<runs, taskState, collectorVars, cache, processVars>>

--------------------------------------------------------------------------------
(* runSerial.  A timer that was just reset never beats a context that is     *)
(* done.                                                                     *)

SerialStart ==
    /\ ~ parallel /\ runPc = "start"
    /\ runPc' = "select"
    /\ UNCHANGED <<cfg, pos, nextCfg, groupDone, jobVars, taskState, output,
                   collectorVars, cache, processVars>>

SerialTick ==
    /\ ~ parallel /\ runPc = "select" /\ ~ ctxDone
    /\ runPc' = "jobs"
    /\ pos' = 1
    /\ UNCHANGED <<cfg, nextCfg, groupDone, jobVars, taskState, output,
                   collectorVars, cache, processVars>>

AtJob == ~ parallel /\ runPc = "jobs" /\ NoJobs /\ pos <= Len(JobsOf[cfg])

SerialRunJob == AtJob /\ StartJob(JobsOf[cfg][pos])

(* The job is not overdue. *)
SerialSkipJob ==
    /\ AtJob
    /\ pos' = pos + 1
    /\ UNCHANGED <<cfg, runPc, nextCfg, groupDone, jobVars, taskState, output,
                   collectorVars, cache, processVars>>

SerialEndJobs ==
    /\ ~ parallel /\ runPc = "jobs" /\ pos > Len(JobsOf[cfg])
    /\ runPc' = "select"
    /\ pos' = 0
    /\ UNCHANGED <<cfg, nextCfg, groupDone, jobVars, taskState, output,
                   collectorVars, cache, processVars>>

(* Mutant: the configuration changes under runOverdueJobs. *)
SerialReconfigure_Async(v) ==
    /\ ~ parallel /\ runPc \in {"select", "jobs"}
    /\ cfg' = v
    /\ UNCHANGED <<runPc, pos, nextCfg, groupDone, jobVars, taskState, output,
                   collectorVars, cache, processVars>>

(* newCfgCh: updateConfig and rescheduleTask. *)
SerialReconfigure(v) ==
    /\ ~ parallel /\ runPc = "select"
    /\ cfg' = v
    /\ UNCHANGED <<runPc, pos, nextCfg, groupDone, jobVars, taskState, output,
                   collectorVars, cache, processVars>>

SerialStop ==
    /\ ~ parallel /\ runPc = "select" /\ ctxDone
    /\ runPc' = "exited"
    /\ UNCHANGED <<cfg, pos, nextCfg, groupDone, jobVars, taskState, output,
                   collectorVars, cache, processVars>>

--------------------------------------------------------------------------------
(* runParallel, and runJobInLoop.                                            *)

ParallelStart ==
    /\ parallel /\ runPc = "start"
    /\ jobPc' = [j \in Job |->
         IF j \in Range(JobsOf[cfg]) THEN "sleep" ELSE jobPc[j]]
    /\ groupDone' = FALSE
    /\ runPc' = "select"
    /\ UNCHANGED <<cfg, pos, nextCfg, jobCfg, runs, taskState, output,
                   collectorVars, cache, processVars>>

LoopRunJob(j) == parallel /\ jobPc[j] = "sleep" /\ ~ JobDone /\ StartJob(j)

LoopStop(j) ==
    /\ parallel /\ jobPc[j] = "sleep" /\ JobDone
    /\ JobGoto(j, "none")
    /\ UNCHANGED <<runVars, jobCfg, runs, taskState, output, collectorVars, cache,
                   processVars>>

(* newCfgCh: the jobs are told to stop. *)
ParallelReconfigure(v) ==
    /\ parallel /\ runPc = "select"
    /\ nextCfg' = v
    /\ groupDone' = TRUE
    /\ runPc' = "wait"
    /\ UNCHANGED <<cfg, pos, jobVars, taskState, output, collectorVars, cache,
                   processVars>>

(* Mutant: the new configuration does not wait for the old jobs. *)
ParallelWait_NoWait ==
    /\ runPc = "wait"
    /\ cfg' = nextCfg
    /\ runPc' = "start"
    /\ UNCHANGED <<pos, nextCfg, groupDone, jobVars, taskState, output,
                   collectorVars, cache, processVars>>

(* All of them have stopped: updateConfig. *)
ParallelWait ==
    /\ runPc = "wait" /\ NoJobs /\ ~ jobPanicked
    /\ cfg' = nextCfg
    /\ runPc' = "start"
    /\ UNCHANGED <<pos, nextCfg, groupDone, jobVars, taskState, output,
                   collectorVars, cache, processVars>>

ParallelStop ==
    /\ parallel /\ runPc = "select" /\ ctxDone
    /\ groupDone' = TRUE
    /\ runPc' = "stopping"
    /\ UNCHANGED <<cfg, pos, nextCfg, jobVars, taskState, output, collectorVars,
                   cache, processVars>>

ParallelExit ==
    /\ runPc = "stopping" /\ NoJobs /\ ~ jobPanicked
    /\ runPc' = "exited"
    /\ UNCHANGED <<cfg, pos, nextCfg, groupDone, jobVars, taskState, output,
                   collectorVars, cache, processVars>>

(* group.Wait raises the panic of a job again. *)
WaitPanics ==
    /\ runPc \in {"wait", "stopping"} /\ NoJobs /\ jobPanicked
    /\ runPc' = "crashed"
    /\ UNCHANGED <<cfg, pos, nextCfg, groupDone, jobVars, taskState, output,
                   collectorVars, cache, processVars>>

Reconfigure(v) == SerialReconfigure(v) \/ ParallelReconfigure(v)

Run ==
    \/ SerialStart \/ SerialTick \/ SerialRunJob \/ SerialSkipJob \/ SerialEndJobs
    \/ SerialStop
    \/ ParallelStart \/ ParallelWait \/ ParallelStop \/ ParallelExit \/ WaitPanics

JobStep(j) ==
    \/ LoopRunJob(j) \/ LoopStop(j)
    \/ AddReturns(j) \/ AddGivesUp(j) \/ AddPanics(j) \/ TakeResult(j) \/ GiveUp(j)

--------------------------------------------------------------------------------
(* The collectors.                                                           *)

Answer(t) ==
    /\ taskState[t] = "pending"
    /\ InHandleJob(t[1]) /\ t = TaskOf(t[1])
    /\ taskState' = [taskState EXCEPT ![t] = "answered"]
    /\ \E result \in {"success", "error"} : output' = [output EXCEPT ![t] = result]
    /\ UNCHANGED <<runVars, jobVars, collectorVars, cache, processVars>>

Drop(t) ==
    /\ taskState[t] = "pending"
    /\ t \in Withdrawn
    /\ taskState' = [taskState EXCEPT ![t] = "dropped"]
    /\ UNCHANGED <<runVars, jobVars, output, collectorVars, cache, processVars>>

StopCollectors ==
    /\ collectors = "up"
    /\ collectors' = "nil"
    /\ replaced' = replaced \cup {t \in Task : taskState[t] = "pending"}
    /\ UNCHANGED <<runVars, jobVars, taskState, output, cache, processVars>>

StartCollectors ==
    /\ collectors = "nil"
    /\ collectors' = "up"
    /\ UNCHANGED <<runVars, jobVars, taskState, output, replaced, cache, processVars>>

(* The handler of a reload clears the cache. *)
ClearCache ==
    /\ cache' = [j \in Job |-> None]
    /\ UNCHANGED <<runVars, jobVars, taskState, output, collectorVars, processVars>>

Stop ==
    /\ ~ ctxDone
    /\ ctxDone' = TRUE
    /\ UNCHANGED <<runVars, jobVars, taskState, output, collectorVars, cache,
                   parallel, jobPanicked>>

Environment ==
    \/ \E t \in Task : Answer(t) \/ Drop(t)
    \/ Stop

--------------------------------------------------------------------------------

TypeOK ==
    /\ cfg \in Version /\ nextCfg \in Version
    /\ runPc \in {"start", "select", "jobs", "wait", "stopping", "exited", "crashed"}
    /\ pos \in 0 .. Len(JobsOf[cfg]) + 1
    /\ groupDone \in BOOLEAN /\ ctxDone \in BOOLEAN
    /\ parallel \in BOOLEAN /\ jobPanicked \in BOOLEAN
    /\ jobPc \in [Job -> {"none", "sleep", "adding", "waiting"}]
    /\ jobCfg \in [Job -> Version]
    /\ runs \in [Job -> 0 .. MaxRuns]
    /\ taskState \in [Task -> {"new", "pending", "answered", "dropped"}]
    /\ output \in [Task -> {"success", "error", None}]
    /\ collectors \in {"up", "nil"}
    /\ replaced \in SUBSET Task
    /\ cache \in [Job -> Version \cup {None}]

(* The goroutine of a job, or its execution, belongs to the configuration of *)
(* the scheduler, and so does the result it will put into the cache: no job  *)
(* that a reload removed is still executed when the scheduler has the new    *)
(* configuration.                                                            *)
JobsAreCurrent ==
    \A j \in Job :
        /\ jobPc[j] # "none" => j \in Range(JobsOf[cfg])
        /\ InHandleJob(j) => jobCfg[j] = cfg
================================================================================
