------------------------------ MODULE ReloadProofs ------------------------------
(***************************************************************************)
(* Theorems about Reload.tla for any jobs and any number of reloads: jobs  *)
(* belong to the configuration of the scheduler, the cache lags behind by  *)
(* a bounded number of reloads, a finished reload has reached everybody,   *)
(* what a process at rest may die of, and that the scheduler uses the      *)
(* collectors as TaskService.tla allows.                                   *)
(***************************************************************************)
EXTENDS Reload, TLAPS

--------------------------------------------------------------------------------
(* The inductive invariant.                                                  *)

(* Where the scheduler is in each of its modes.  A new configuration comes   *)
(* only when no job of the old one is left.                                 *)
RunShape ==
    /\ runPc \in {"wait", "stopping"} => parallel
    /\ runPc = "jobs" => ~ parallel /\ pos >= 1
    /\ runPc \notin {"jobs", "crashed"} => pos = 0
    /\ runPc = "crashed" => jobPanicked
    /\ runPc = "start" => NoJobs
    /\ runPc = "wait" => nextCfg = cfg + 1

(* runSerial executes one job at a time, the one it looks at. *)
SerialShape ==
    ~ parallel =>
        \A j \in Job : jobPc[j] # "none" =>
            /\ jobPc[j] # "sleep" /\ runPc = "jobs"
            /\ pos <= Len(JobsOf[cfg]) /\ j = JobsOf[cfg][pos]

(* The configuration the scheduler received last. *)
Received == IF runPc = "wait" THEN nextCfg ELSE cfg

(* A receiver is one configuration behind until confHandler has sent to it. *)
Behind(places) == IF confPc \in places THEN 1 ELSE 0

Delivery ==
    ~ (confPc = "exited" /\ crashed) =>
        /\ confCfg = collNext + Behind({"collectors"})
        /\ confCfg = handlerNext + Behind({"collectors", "server"})
        /\ runPc # "crashed" =>
             confCfg = Received + Behind({"collectors", "server", "scheduler"})

CollectorsCurrent == CollReceives => collCfg = collNext

(* What a panic leaves behind. *)
CrashCause ==
    /\ runPc = "crashed" => crashed
    /\ crashed =>
         \/ jobPanicked \/ workerPanicked
         \/ hup \/ collPc = "wait" \/ confPc = "exited" \/ groupPc = "web"

ReloadInductive ==
    /\ SystemTypeOK
    /\ RunShape /\ SerialShape /\ JobsAreCurrent
    /\ Delivery /\ CollectorsCurrent /\ CacheLag /\ CrashCause

--------------------------------------------------------------------------------
(* Steps of the scheduler.                                                   *)

SchedulerInv == TypeOK /\ RunShape /\ SerialShape /\ JobsAreCurrent

LEMMA JobsOfTypes ==
    ASSUME NEW v \in Version
    PROVE  /\ Len(JobsOf[v]) \in Nat
           /\ \A n \in 1 .. Len(JobsOf[v]) :
                JobsOf[v][n] \in Job /\ JobsOf[v][n] \in Range(JobsOf[v])
           /\ Range(JobsOf[v]) \subseteq Job
  BY SchedulerAssumption DEF Range

(* A job begins an execution. *)
LEMMA StartJobKeeps ==
    ASSUME SchedulerInv, NEW j \in Job, StartJob(j), ~ InHandleJob(j),
           j \in Range(JobsOf[cfg]),
           ~ parallel => NoJobs /\ runPc = "jobs" /\ pos <= Len(JobsOf[cfg]) /\ j = JobsOf[cfg][pos],
           parallel => jobPc[j] = "sleep"
    PROVE  SchedulerInv'
  <1> USE DEF SchedulerInv
  <1>1. /\ UNCHANGED <<cfg, runPc, pos, nextCfg, groupDone, collectors, replaced, cache,
                       ctxDone, parallel, jobPanicked>>
        /\ jobCfg' = [jobCfg EXCEPT ![j] = cfg]
        /\ jobPc' = [jobPc EXCEPT ![j] = jobPc'[j]] /\ jobPc'[j] \in {"adding", "waiting"}
    BY DEF StartJob, runVars, collectorVars, processVars, JobGoto, TypeOK
  <1>2. TypeOK'
    <2>1. runs' \in [Job -> 0 .. MaxRuns]
      BY SchedulerAssumption DEF StartJob, TypeOK
    <2>2. /\ taskState' \in [Task -> {"new", "pending", "answered", "dropped"}]
          /\ output' \in [Task -> {"success", "error", None}]
      BY DEF StartJob, TypeOK
    <2>3. /\ jobPc' \in [Job -> {"none", "sleep", "adding", "waiting"}]
          /\ jobCfg' \in [Job -> Version]
      BY <1>1 DEF TypeOK
    <2> QED
      BY <1>1, <2>1, <2>2, <2>3 DEF TypeOK
  <1>3. \A k \in Job \ {j} : jobPc'[k] = jobPc[k] /\ jobCfg'[k] = jobCfg[k]
    BY <1>1 DEF TypeOK
  <1>4. RunShape' /\ SerialShape'
    BY <1>1, <1>3 DEF RunShape, SerialShape, NoJobs
  <1>5. JobsAreCurrent'
    BY <1>1, <1>3 DEF JobsAreCurrent, InHandleJob, TypeOK
  <1> QED
    BY <1>2, <1>4, <1>5

(* handleJob ends. *)
LEMMA JobReturnsKeeps ==
    ASSUME SchedulerInv, NEW j \in Job, jobPc[j] = "waiting", JobReturns(j),
           UNCHANGED <<runs, taskState, collectorVars, processVars>>,
           cache' \in [Job -> Version \cup {None}]
    PROVE  SchedulerInv'
  <1> USE DEF SchedulerInv, collectorVars, processVars
  <1>1. /\ jobCfg' \in [Job -> Version] /\ output' \in [Task -> {"success", "error", None}]
        /\ \A k \in Job \ {j} : jobCfg'[k] = jobCfg[k]
    <2>1. 0 \in Version
      BY SchedulerAssumption DEF Version
    <2>2. /\ jobCfg' = [jobCfg EXCEPT ![j] = 0] /\ output' = [output EXCEPT ![TaskOf(j)] = None]
          /\ jobCfg \in [Job -> Version] /\ output \in [Task -> {"success", "error", None}]
      BY DEF JobReturns, TypeOK
    <2> QED
      BY <2>1, <2>2
  <1>2. CASE parallel
    <2>1. /\ UNCHANGED <<cfg, runPc, pos, nextCfg, groupDone>>
          /\ jobPc' = [jobPc EXCEPT ![j] = "sleep"]
      BY <1>2 DEF JobReturns, JobGoto, runVars
    <2>2. TypeOK'
      BY <1>1, <2>1 DEF TypeOK
    <2>3. RunShape' /\ SerialShape'
      BY <1>2, <2>1 DEF RunShape, SerialShape, NoJobs, TypeOK
    <2>4. JobsAreCurrent'
      BY <1>1, <2>1 DEF JobsAreCurrent, InHandleJob, TypeOK
    <2> QED
      BY <2>2, <2>3, <2>4
  <1>3. CASE ~ parallel
    <2>1. /\ UNCHANGED <<cfg, runPc, nextCfg, groupDone>> /\ pos' = pos + 1
          /\ jobPc' = [jobPc EXCEPT ![j] = "none"]
      BY <1>3 DEF JobReturns, JobGoto
    <2>2. runPc = "jobs" /\ pos <= Len(JobsOf[cfg]) /\ j = JobsOf[cfg][pos] /\ pos \in Nat
      BY <1>3, JobsOfTypes DEF SerialShape, TypeOK
    <2>3. \A k \in Job : jobPc'[k] = "none"
      BY <1>3, <2>1, <2>2 DEF SerialShape, TypeOK
    <2>4. TypeOK'
      <3>1. pos' \in 0 .. Len(JobsOf[cfg]) + 1
        BY <2>1, <2>2, JobsOfTypes DEF TypeOK
      <3> QED
        BY <1>1, <2>1, <3>1 DEF TypeOK
    <2>5. RunShape' /\ SerialShape' /\ JobsAreCurrent'
      BY <1>3, <2>1, <2>2, <2>3 DEF RunShape, SerialShape, JobsAreCurrent, InHandleJob
    <2> QED
      BY <2>4, <2>5
  <1> QED
    BY <1>2, <1>3 DEF TypeOK

LEMMA JobStepKeeps ==
    ASSUME SchedulerInv, NEW j \in Job, JobStep(j)
    PROVE  SchedulerInv'
  <1>1. CASE LoopRunJob(j)
    <2>1. j \in Range(JobsOf[cfg])
      BY <1>1 DEF LoopRunJob, SchedulerInv, JobsAreCurrent
    <2> QED
      BY <1>1, <2>1, StartJobKeeps DEF LoopRunJob, InHandleJob
  <1>2. CASE LoopStop(j) \/ AddReturns(j) \/ AddGivesUp(j)
    <2>1. /\ UNCHANGED <<cfg, runPc, pos, nextCfg, groupDone, jobCfg, runs, taskState, output,
                         collectors, replaced, cache, ctxDone, parallel, jobPanicked>>
          /\ \/ parallel /\ jobPc' = [jobPc EXCEPT ![j] = "none"]
             \/ jobPc[j] = "adding" /\ jobPc' = [jobPc EXCEPT ![j] = "waiting"]
      BY <1>2 DEF LoopStop, AddReturns, AddGivesUp, JobGoto, runVars, collectorVars, processVars
    <2>2. TypeOK'
      BY <2>1 DEF SchedulerInv, TypeOK
    <2>3. RunShape' /\ SerialShape'
      BY <2>1 DEF SchedulerInv, RunShape, SerialShape, NoJobs, TypeOK
    <2>4. JobsAreCurrent'
      BY <2>1 DEF SchedulerInv, JobsAreCurrent, InHandleJob, TypeOK
    <2> QED
      BY <2>2, <2>3, <2>4 DEF SchedulerInv
  <1>3. CASE AddPanics(j)
    <2>1. /\ jobCfg' \in [Job -> Version] /\ output' \in [Task -> {"success", "error", None}]
          /\ \A k \in Job \ {j} : jobCfg'[k] = jobCfg[k]
      <3>1. 0 \in Version
        BY SchedulerAssumption DEF Version
      <3>2. /\ jobCfg' = [jobCfg EXCEPT ![j] = 0]
            /\ output' = [output EXCEPT ![TaskOf(j)] = None]
            /\ jobCfg \in [Job -> Version] /\ output \in [Task -> {"success", "error", None}]
        BY <1>3 DEF AddPanics, SchedulerInv, TypeOK
      <3> QED
        BY <3>1, <3>2
    <2>2. /\ UNCHANGED <<cfg, pos, nextCfg, runs, taskState, collectors, replaced, cache,
                         ctxDone, parallel>>
          /\ jobPc' = [jobPc EXCEPT ![j] = "none"] /\ jobPanicked' = TRUE
          /\ jobPc[j] = "adding" /\ groupDone' \in BOOLEAN
          /\ parallel => runPc' = runPc
          /\ ~ parallel => runPc' = "crashed"
      BY <1>3 DEF AddPanics, JobGoto, collectorVars, SchedulerInv, TypeOK
    <2>3. TypeOK'
      BY <2>2, <2>1 DEF SchedulerInv, TypeOK
    <2>4. ~ parallel => \A k \in Job : jobPc'[k] = "none"
      BY <2>2 DEF SchedulerInv, SerialShape, TypeOK
    <2>5. RunShape' /\ SerialShape'
      BY <2>2, <2>4 DEF SchedulerInv, RunShape, SerialShape, NoJobs, TypeOK
    <2>6. JobsAreCurrent'
      BY <2>2, <2>1 DEF SchedulerInv, JobsAreCurrent, InHandleJob, TypeOK
    <2> QED
      BY <2>3, <2>5, <2>6 DEF SchedulerInv
  <1>4. CASE TakeResult(j)
    <2>1. cache' \in [Job -> Version \cup {None}]
      BY <1>4 DEF TakeResult, SchedulerInv, TypeOK
    <2> QED
      BY <1>4, <2>1, JobReturnsKeeps DEF TakeResult
  <1>5. CASE GiveUp(j)
    BY <1>5, JobReturnsKeeps DEF GiveUp, SchedulerInv, TypeOK
  <1> QED
    BY <1>1, <1>2, <1>4, <1>5, <1>3 DEF JobStep

LEMMA RunKeeps ==
    ASSUME SchedulerInv, Run
    PROVE  SchedulerInv'
  <1> USE DEF SchedulerInv
  <1>1. CASE SerialRunJob
    <2>1. JobsOf[cfg][pos] \in Job /\ JobsOf[cfg][pos] \in Range(JobsOf[cfg])
      BY <1>1, JobsOfTypes DEF SerialRunJob, AtJob, RunShape, TypeOK
    <2> QED
      BY <1>1, <2>1, StartJobKeeps DEF SerialRunJob, AtJob, NoJobs, InHandleJob
  <1>2. CASE SerialStart \/ SerialTick \/ SerialSkipJob \/ SerialEndJobs \/ SerialStop
    <2>1. /\ UNCHANGED <<cfg, nextCfg, groupDone, jobPc, jobCfg, runs, taskState, output,
                         collectors, replaced, cache, ctxDone, parallel, jobPanicked>>
          /\ ~ parallel
      BY <1>2 DEF SerialStart, SerialTick, SerialSkipJob, SerialEndJobs, SerialStop, AtJob,
         jobVars, collectorVars, processVars
    <2>2. /\ runPc' \in {"select", "jobs", "exited"}
          /\ pos' \in 0 .. Len(JobsOf[cfg]) + 1
          /\ runPc' = "jobs" => pos' >= 1
          /\ runPc' # "jobs" => pos' = 0
      BY <1>2, JobsOfTypes DEF SerialStart, SerialTick, SerialSkipJob, SerialEndJobs,
         SerialStop, AtJob, TypeOK, RunShape
    <2>3. NoJobs
      BY <1>2, <2>1, JobsOfTypes DEF SerialStart, SerialTick, SerialSkipJob, SerialEndJobs,
         SerialStop, AtJob, TypeOK, SerialShape, NoJobs
    <2>4. TypeOK'
      BY <2>1, <2>2 DEF TypeOK
    <2> QED
      BY <2>1, <2>2, <2>3, <2>4 DEF RunShape, SerialShape, JobsAreCurrent, NoJobs, InHandleJob
  <1>3. CASE ParallelStart
    <2>1. UNCHANGED <<cfg, pos, nextCfg, jobCfg, runs, taskState, output, collectors, replaced,
                      cache, ctxDone, parallel, jobPanicked>> /\ parallel /\ runPc' = "select"
          /\ groupDone' = FALSE /\ runPc = "start"
      BY <1>3 DEF ParallelStart, collectorVars, processVars
    <2>2. \A k \in Job : jobPc'[k] = IF k \in Range(JobsOf[cfg]) THEN "sleep" ELSE "none"
      BY <1>3, <2>1 DEF ParallelStart, RunShape, NoJobs
    <2>3. TypeOK'
      BY <1>3, <2>1 DEF ParallelStart, TypeOK
    <2> QED
      BY <2>1, <2>2, <2>3 DEF RunShape, SerialShape, JobsAreCurrent, InHandleJob
  <1>4. CASE ParallelWait
    <2>1. /\ UNCHANGED <<pos, nextCfg, groupDone, jobPc, jobCfg, runs, taskState, output,
                         collectors, replaced, cache, ctxDone, parallel, jobPanicked>>
          /\ cfg' = nextCfg /\ runPc' = "start" /\ NoJobs /\ runPc = "wait"
      BY <1>4 DEF ParallelWait, jobVars, collectorVars, processVars
    <2>2. pos = 0 /\ parallel
      BY <2>1 DEF RunShape
    <2>3. TypeOK'
      BY <2>1, <2>2, JobsOfTypes DEF TypeOK
    <2> QED
      BY <2>1, <2>2, <2>3 DEF RunShape, SerialShape, JobsAreCurrent, NoJobs, InHandleJob
  <1>5. CASE ParallelStop \/ ParallelExit \/ WaitPanics
    <2>1. /\ UNCHANGED <<cfg, pos, nextCfg, jobPc, jobCfg, runs, taskState, output,
                         collectors, replaced, cache, ctxDone, parallel, jobPanicked>>
          /\ groupDone' \in BOOLEAN /\ parallel /\ runPc # "jobs"
          /\ \/ runPc' \in {"stopping", "exited"} /\ runPc # "crashed"
             \/ runPc' = "crashed" /\ jobPanicked
      BY <1>5 DEF ParallelStop, ParallelExit, WaitPanics, jobVars, collectorVars, processVars, TypeOK,
         RunShape
    <2>2. TypeOK'
      BY <2>1 DEF TypeOK
    <2> QED
      BY <2>1, <2>2 DEF RunShape, SerialShape, JobsAreCurrent, InHandleJob
  <1> QED
    BY <1>1, <1>2, <1>3, <1>4, <1>5 DEF Run

LEMMA ReconfigureKeeps ==
    ASSUME SchedulerInv, cfg + 1 \in Version, Reconfigure(cfg + 1)
    PROVE  SchedulerInv'
  <1> USE DEF SchedulerInv
  <1>1. /\ UNCHANGED <<pos, jobPc, jobCfg, runs, taskState, output, collectors, replaced,
                       cache, ctxDone, parallel, jobPanicked>> /\ runPc = "select" /\ pos = 0
    BY DEF Reconfigure, SerialReconfigure, ParallelReconfigure, jobVars, collectorVars,
       processVars, RunShape
  <1>2. CASE SerialReconfigure(cfg + 1)
    <2>1. /\ cfg' = cfg + 1 /\ UNCHANGED <<runPc, nextCfg, groupDone>> /\ ~ parallel
      BY <1>2 DEF SerialReconfigure
    <2>2. NoJobs
      BY <1>1, <2>1 DEF SerialShape, NoJobs
    <2>3. TypeOK'
      BY <1>1, <2>1, JobsOfTypes DEF TypeOK
    <2> QED
      BY <1>1, <2>1, <2>2, <2>3 DEF RunShape, SerialShape, JobsAreCurrent, NoJobs, InHandleJob
  <1>3. CASE ParallelReconfigure(cfg + 1)
    <2>1. /\ nextCfg' = cfg + 1 /\ runPc' = "wait" /\ groupDone' = TRUE /\ cfg' = cfg
          /\ parallel
      BY <1>3 DEF ParallelReconfigure
    <2>2. TypeOK'
      BY <1>1, <2>1 DEF TypeOK
    <2> QED
      BY <1>1, <2>1, <2>2 DEF RunShape, SerialShape, JobsAreCurrent, InHandleJob
  <1> QED
    BY <1>2, <1>3 DEF Reconfigure

(* The steps of everybody else do not touch the jobs. *)
LEMMA OthersKeep ==
    ASSUME SchedulerInv,
           UNCHANGED <<runVars, jobVars, parallel, jobPanicked>>,
           ctxDone' \in BOOLEAN, collectors' \in {"up", "nil"}, replaced' \in SUBSET Task,
           taskState' \in [Task -> {"new", "pending", "answered", "dropped"}],
           output' \in [Task -> {"success", "error", None}],
           cache' \in [Job -> Version \cup {None}]
    PROVE  SchedulerInv'
  <1>1. TypeOK'
    BY DEF SchedulerInv, TypeOK, runVars, jobVars
  <1> QED
    BY <1>1 DEF SchedulerInv, runVars, jobVars, RunShape, SerialShape, JobsAreCurrent,
       NoJobs, InHandleJob

LEMMA EnvironmentKeeps ==
    ASSUME SchedulerInv,
           Environment \/ StopCollectors \/ StartCollectors \/ ClearCache \/ UNCHANGED vars
    PROVE  SchedulerInv'
  <1> USE DEF SchedulerInv, TypeOK, collectorVars, processVars
  <1>1. ASSUME NEW t \in Task, Answer(t)
        PROVE  SchedulerInv'
    <2>1. /\ taskState' \in [Task -> {"new", "pending", "answered", "dropped"}]
          /\ output' \in [Task -> {"success", "error", None}]
      BY <1>1 DEF Answer
    <2> QED
      BY <1>1, <2>1, OthersKeep DEF Answer
  <1>2. ASSUME NEW t \in Task, Drop(t)
        PROVE  SchedulerInv'
    <2>1. taskState' \in [Task -> {"new", "pending", "answered", "dropped"}]
      BY <1>2 DEF Drop
    <2> QED
      BY <1>2, <2>1, OthersKeep DEF Drop
  <1>3. CASE Stop
    BY <1>3, OthersKeep DEF Stop
  <1>4. CASE StopCollectors \/ StartCollectors
    BY <1>4, OthersKeep DEF StopCollectors, StartCollectors
  <1>5. CASE ClearCache
    BY <1>5, OthersKeep DEF ClearCache
  <1>6. CASE UNCHANGED vars
    BY <1>6, OthersKeep DEF vars
  <1> QED
    BY <1>1, <1>2, <1>3, <1>4, <1>5, <1>6 DEF Environment

--------------------------------------------------------------------------------
(* Steps of the system.                                                      *)

LEMMA Versions ==
    ASSUME ReloadInductive
    PROVE  /\ MaxVersion \in Nat /\ Version = 0 .. MaxVersion
           /\ cfg \in Nat /\ nextCfg \in Nat /\ confCfg \in Nat /\ collNext \in Nat
           /\ handlerNext \in Nat /\ handlerCfg \in Int /\ collCfg \in Int
           /\ collNext <= confCfg /\ handlerNext <= confCfg
           /\ Received \in Nat /\ Received <= MaxVersion
           /\ TypeOK /\ SchedulerInv
  <1>1. MaxVersion \in Nat /\ Version = 0 .. MaxVersion
    BY SchedulerAssumption DEF Version
  <1>2. /\ TypeOK /\ cfg \in Version /\ nextCfg \in Version /\ confCfg \in Version
        /\ collNext \in 0 .. confCfg /\ handlerNext \in 0 .. confCfg
        /\ collCfg \in {collNext - 1, collNext}
        /\ handlerCfg \in {handlerNext - 1, handlerNext}
    BY DEF ReloadInductive, SystemTypeOK, TypeOK
  <1>3. SchedulerInv
    BY <1>2 DEF ReloadInductive, SchedulerInv
  <1> QED
    BY <1>1, <1>2, <1>3 DEF Received

(* What a job may put into the cache is not older than the cache may be. *)
LEMMA SchedulerLag ==
    ASSUME ReloadInductive, ~ crashed
    PROVE  cfg + Lag >= handlerCfg
  <1>1. handlerCfg <= handlerNext
    BY Versions DEF ReloadInductive, SystemTypeOK
  <1>2. /\ Behind({"collectors", "server", "scheduler"}) <= 1
        /\ Behind({"collectors", "server", "scheduler"}) \in Nat
    BY DEF Behind
  <1>3. Received + 1 >= handlerNext
    BY <1>2, Versions DEF ReloadInductive, Delivery, CrashCause
  <1>4. CASE parallel
    <2>1. Received <= cfg + 1 /\ Lag = 2
      BY <1>4, Versions DEF ReloadInductive, RunShape, Received, Lag
    <2> QED
      BY <1>1, <1>3, <2>1, Versions
  <1>5. CASE ~ parallel
    <2>1. Received = cfg /\ Lag = 1
      BY <1>5 DEF ReloadInductive, RunShape, Received, Lag
    <2> QED
      BY <1>1, <1>3, <2>1, Versions
  <1> QED
    BY <1>4, <1>5

(* A step of the scheduler, its jobs and the collectors of TaskService. *)
LEMMA SchedulerMoves ==
    ASSUME ReloadInductive,
           Run \/ (\E j \in Job : JobStep(j)) \/ Environment
    PROVE  /\ runPc' # "crashed" => Received' = Received
           /\ parallel' = parallel
           /\ \A k \in Job : cache'[k] # None => cache'[k] = cache[k] \/ cache'[k] = cfg
  <1> USE DEF ReloadInductive, Received, SystemTypeOK, TypeOK, processVars
  <1>1. CASE SerialRunJob \/ \E j \in Job : LoopRunJob(j)
    BY <1>1 DEF SerialRunJob, LoopRunJob, StartJob, runVars
  <1>2. CASE SerialStart \/ SerialTick \/ SerialSkipJob \/ SerialEndJobs \/ SerialStop
    BY <1>2 DEF SerialStart, SerialTick, SerialSkipJob, SerialEndJobs, SerialStop, AtJob,
       RunShape
  <1>3. CASE ParallelStart \/ ParallelWait \/ ParallelStop \/ ParallelExit \/ WaitPanics
    BY <1>3 DEF ParallelStart, ParallelWait, ParallelStop, ParallelExit, WaitPanics, RunShape
  <1>4. ASSUME NEW j \in Job, LoopStop(j) \/ AddReturns(j) \/ AddGivesUp(j) \/ AddPanics(j)
        PROVE  /\ runPc' # "crashed" => Received' = Received
               /\ parallel' = parallel /\ cache' = cache
    BY <1>4 DEF LoopStop, AddReturns, AddGivesUp, AddPanics, runVars
  <1>5. ASSUME NEW j \in Job, TakeResult(j) \/ GiveUp(j)
        PROVE  /\ Received' = Received /\ parallel' = parallel
               /\ \A k \in Job : cache'[k] # None => cache'[k] = cache[k] \/ cache'[k] = cfg
    <2>1. Received' = Received /\ parallel' = parallel
      BY <1>5 DEF TakeResult, GiveUp, JobReturns, runVars
    <2>2. jobCfg[j] = cfg
      BY <1>5 DEF TakeResult, GiveUp, JobsAreCurrent, InHandleJob
    <2> QED
      BY <1>5, <2>1, <2>2 DEF TakeResult, GiveUp
  <1>6. CASE Environment
    BY <1>6 DEF Environment, Answer, Drop, Stop, runVars
  <1> QED
    BY <1>1, <1>2, <1>3, <1>4, <1>5, <1>6 DEF Run, JobStep

LEMMA SchedulerStepKeeps ==
    ASSUME ReloadInductive, ~ crashed, SchedulerStep
    PROVE  ReloadInductive'
  <1>1. SchedulerInv'
    BY Versions, RunKeeps, JobStepKeeps, EnvironmentKeeps DEF SchedulerStep
  <1>2. /\ runPc' # "crashed" => Received' = Received
        /\ parallel' = parallel
        /\ \A k \in Job : cache'[k] # None => cache'[k] = cache[k] \/ cache'[k] = cfg
    BY SchedulerMoves DEF SchedulerStep
  <1>3. /\ UNCHANGED <<hup, confPc, confCfg, closed, collPc, collCfg, collNext, collThen,
                       workerPanicked, handlerPc, handlerCfg, handlerNext, groupPc, webPc>>
        /\ crashed' \in BOOLEAN /\ (crashed' <=> runPc' = "crashed")
    BY DEF SchedulerStep, SchedulerAlone, confVars, collVars, handlerVars, groupVars
  <1>4. CacheLag'
    <2>1. cfg + Lag >= handlerCfg
      BY SchedulerLag
    <2>2. Lag' = Lag
      BY <1>2 DEF Lag
    <2> QED
      BY <1>2, <1>3, <2>1, <2>2 DEF ReloadInductive, CacheLag
  <1>5. Delivery' /\ CollectorsCurrent' /\ CrashCause'
    BY <1>1, <1>2, <1>3 DEF ReloadInductive, Delivery, Behind, CollectorsCurrent, CollReceives,
       CrashCause, SchedulerInv, RunShape
  <1>6. SystemTypeOK'
    BY <1>1, <1>3 DEF ReloadInductive, SystemTypeOK, SchedulerInv
  <1> QED
    BY <1>1, <1>4, <1>5, <1>6 DEF ReloadInductive, SchedulerInv

LEMMA SchedulerClosedKeeps ==
    ASSUME ReloadInductive, SchedulerClosed
    PROVE  ReloadInductive'
  <1>1. /\ UNCHANGED <<cfg, pos, nextCfg, jobPc, jobCfg, runs, taskState, output, collectors,
                       replaced, cache, ctxDone, parallel, jobPanicked>>
        /\ UNCHANGED <<hup, confPc, confCfg, closed, collPc, collCfg, collNext, collThen,
                       workerPanicked, handlerPc, handlerCfg, handlerNext, groupPc, webPc,
                       crashed>>
        /\ parallel /\ runPc = "select" /\ runPc' = "exited" /\ groupDone' = TRUE
    BY DEF SchedulerClosed, jobVars, collectorVars, processVars, reloadVars, confVars,
       collVars, handlerVars, groupVars
  <1>2. SystemTypeOK'
    BY <1>1 DEF ReloadInductive, SystemTypeOK, TypeOK
  <1>3. RunShape' /\ SerialShape' /\ JobsAreCurrent'
    BY <1>1 DEF ReloadInductive, RunShape, SerialShape, JobsAreCurrent, NoJobs, InHandleJob
  <1>4. Delivery' /\ CollectorsCurrent' /\ CrashCause' /\ CacheLag'
    BY <1>1 DEF ReloadInductive, Delivery, Behind, Received, CollectorsCurrent, CollReceives,
       CrashCause, CacheLag, Lag
  <1> QED
    BY <1>2, <1>3, <1>4 DEF ReloadInductive

LEMMA SendSchedulerKeeps ==
    ASSUME ReloadInductive, SendScheduler
    PROVE  ReloadInductive'
  <1>1. /\ UNCHANGED <<hup, confCfg, closed, collPc, collCfg, collNext, collThen,
                       workerPanicked, handlerPc, handlerCfg, handlerNext, groupPc, webPc,
                       crashed, cache, parallel, jobPanicked>>
        /\ confPc = "scheduler" /\ confPc' = "idle" /\ runPc = "select"
        /\ runPc' \in {"select", "wait"}
    BY DEF SendScheduler, collVars, handlerVars, groupVars, Reconfigure, SerialReconfigure,
       ParallelReconfigure, processVars
  <1>2. confCfg = cfg + 1 /\ cfg + 1 \in Version
    BY <1>1, Versions DEF ReloadInductive, Delivery, Behind, Received, SystemTypeOK
  <1>3. SchedulerInv'
    BY <1>2, Versions, ReconfigureKeeps DEF SendScheduler
  <1>4. Received' = confCfg
    BY <1>1, <1>2 DEF SendScheduler, Reconfigure, SerialReconfigure, ParallelReconfigure,
       Received
  <1>5. Delivery'
    BY <1>1, <1>4, Versions DEF ReloadInductive, Delivery, Behind
  <1>6. CollectorsCurrent' /\ CrashCause' /\ CacheLag'
    BY <1>1 DEF ReloadInductive, CollectorsCurrent, CollReceives, CrashCause, CacheLag, Lag
  <1>7. SystemTypeOK'
    BY <1>1, <1>3 DEF ReloadInductive, SystemTypeOK, SchedulerInv
  <1> QED
    BY <1>3, <1>5, <1>6, <1>7 DEF ReloadInductive, SchedulerInv

(* The steps that leave the variables of the scheduler alone, or change only *)
(* its context, its collectors or its cache.                                *)
LEMMA SignalKeeps ==
    ASSUME ReloadInductive, ~ crashed,
           Hup \/ HupKills \/ Notify \/ LoadConf \/ LoadFails \/ SendPanics \/ ConfExit
    PROVE  ReloadInductive'
  <1>1. UNCHANGED <<vars, closed, collPc, collCfg, collNext, collThen, workerPanicked,
                    handlerPc, handlerCfg, handlerNext, groupPc, webPc>>
    BY DEF Hup, HupKills, Notify, LoadConf, LoadFails, SendPanics, ConfExit, collVars,
       handlerVars, groupVars
  <1>2. SchedulerInv' /\ Received' = Received
    BY <1>1, Versions, EnvironmentKeeps DEF vars, runVars, Received
  <1>3. CollectorsCurrent' /\ CacheLag'
    BY <1>1 DEF ReloadInductive, CollectorsCurrent, CollReceives, CacheLag, Lag, vars,
       processVars
  <1>4. Delivery'
    BY <1>1, <1>2, Versions DEF Hup, HupKills, Notify, LoadConf, LoadFails, SendPanics,
       ConfExit, ReloadInductive, Delivery, Behind, vars, runVars
  <1>5. CrashCause'
    BY <1>1 DEF Hup, HupKills, Notify, LoadConf, LoadFails, SendPanics, ConfExit,
       ReloadInductive, CrashCause, vars, runVars, processVars
  <1>6. SystemTypeOK'
    <2>1. hup' \in BOOLEAN /\ crashed' \in BOOLEAN
      BY DEF Hup, HupKills, Notify, LoadConf, LoadFails, SendPanics, ConfExit,
         ReloadInductive, SystemTypeOK
    <2>2. confPc' \in {"start", "idle", "collectors", "server", "scheduler", "exited"}
      BY DEF Hup, HupKills, Notify, LoadConf, LoadFails, SendPanics, ConfExit,
         ReloadInductive, SystemTypeOK
    <2>3. confCfg' \in Version /\ confCfg <= confCfg'
      BY Versions DEF Hup, HupKills, Notify, LoadConf, LoadFails, SendPanics, ConfExit,
         ReloadInductive, SystemTypeOK, Version
    <2> QED
      BY <1>1, <1>2, <2>1, <2>2, <2>3, Versions DEF ReloadInductive, SystemTypeOK, SchedulerInv
  <1> QED
    BY <1>2, <1>3, <1>4, <1>5, <1>6 DEF ReloadInductive, SchedulerInv

LEMMA SendKeeps ==
    ASSUME ReloadInductive, ~ crashed, SendCollectors \/ SendServer
    PROVE  ReloadInductive'
  <1>1. UNCHANGED <<vars, hup, confCfg, closed, collCfg, workerPanicked, handlerCfg, groupPc,
                    webPc, crashed, runPc, jobPanicked>>
    BY DEF SendCollectors, SendServer, collVars, handlerVars, groupVars, vars, runVars,
       processVars
  <1>2. SchedulerInv' /\ Received' = Received
    BY <1>1, Versions, EnvironmentKeeps DEF vars, runVars, Received
  <1>3. CASE SendCollectors
    <2>1. /\ confPc = "collectors" /\ confPc' = "server" /\ CollReceives /\ collPc' = "stop"
          /\ collThen' = "start" /\ collNext' = confCfg /\ UNCHANGED <<handlerPc, handlerNext>>
      BY <1>3 DEF SendCollectors, CollStopThen, handlerVars
    <2>2. confCfg = collNext + 1 /\ collCfg = collNext
      BY <2>1, Versions DEF ReloadInductive, Delivery, Behind, CollectorsCurrent
    <2>3. SystemTypeOK'
      BY <1>1, <1>2, <2>1, <2>2, Versions DEF ReloadInductive, SystemTypeOK, SchedulerInv
    <2>4. Delivery'
      BY <1>1, <1>2, <2>1, Versions DEF ReloadInductive, Delivery, Behind
    <2>5. CollectorsCurrent' /\ CacheLag' /\ CrashCause'
      BY <1>1, <2>1 DEF ReloadInductive, CollectorsCurrent, CollReceives, CacheLag, Lag, vars,
         processVars, CrashCause
    <2> QED
      BY <1>2, <2>3, <2>4, <2>5 DEF ReloadInductive, SchedulerInv
  <1>4. CASE SendServer
    <2>1. /\ confPc = "server" /\ confPc' = "scheduler" /\ handlerPc = "idle"
          /\ handlerPc' = "update" /\ handlerNext' = confCfg
          /\ UNCHANGED <<collPc, collNext, collThen>>
      BY <1>4 DEF SendServer, collVars
    <2>2. confCfg = handlerNext + 1 /\ handlerCfg = handlerNext
      BY <2>1, Versions DEF ReloadInductive, Delivery, Behind, SystemTypeOK
    <2>3. SystemTypeOK'
      BY <1>1, <1>2, <2>1, <2>2, Versions DEF ReloadInductive, SystemTypeOK, SchedulerInv
    <2>4. Delivery'
      BY <1>1, <1>2, <2>1, Versions DEF ReloadInductive, Delivery, Behind
    <2>5. CollectorsCurrent' /\ CacheLag' /\ CrashCause'
      BY <1>1, <2>1 DEF ReloadInductive, CollectorsCurrent, CollReceives, CacheLag, Lag, vars,
         processVars, CrashCause
    <2> QED
      BY <1>2, <2>3, <2>4, <2>5 DEF ReloadInductive, SchedulerInv
  <1> QED
    BY <1>3, <1>4

LEMMA CollKeeps ==
    ASSUME ReloadInductive, ~ crashed, CollStep \/ CollWaitPanics \/ CollHangs
    PROVE  ReloadInductive'
  <1>1. /\ UNCHANGED <<hup, confPc, confCfg, closed, collNext, handlerPc, handlerCfg,
                       handlerNext, groupPc, webPc, runVars, parallel, jobPanicked, cache>>
        /\ UNCHANGED vars \/ StopCollectors \/ StartCollectors
    BY DEF CollStep, CollPark, CollStop, CollStart, CollNoDatabases, CollDone, CollClosed,
       CollExit, CollPanics, CollWaitPanics, CollHangs, StopCollectors, StartCollectors, vars,
       processVars, confVars, collVars, handlerVars, groupVars
  <1>2. SchedulerInv' /\ Received' = Received /\ runPc' = runPc
    BY <1>1, Versions, EnvironmentKeeps DEF runVars, Received
  <1>3. /\ collPc' \in {"start", "select", "parked", "stop", "wait", "hung", "exited"}
        /\ collThen' \in {"start", "panic", "exited"} /\ workerPanicked' \in BOOLEAN
        /\ collCfg' \in {collCfg, collNext}
        /\ collPc' \in {"select", "parked"} =>
             collCfg' = collNext \/ (CollReceives /\ collCfg' = collCfg)
        /\ crashed' \in BOOLEAN /\ (crashed' => collPc' = "wait")
    <2> USE DEF CollReceives, ReloadInductive, SystemTypeOK, collVars
    <2>1. CASE CollPark
      BY <2>1 DEF CollPark, CollectorsCurrent
    <2>2. CASE CollStop \/ CollNoDatabases \/ CollExit \/ CollHangs
      BY <2>2 DEF CollStop, CollNoDatabases, CollExit, CollHangs
    <2>3. CASE CollStart
      BY <2>3 DEF CollStart
    <2>4. CASE CollDone \/ CollClosed
      BY <2>4 DEF CollDone, CollClosed, CollStopThen
    <2>5. CASE CollPanics \/ CollWaitPanics
      BY <2>5 DEF CollPanics, CollWaitPanics
    <2> QED
      BY <2>1, <2>2, <2>3, <2>4, <2>5 DEF CollStep
  <1>4. SystemTypeOK'
    BY <1>1, <1>2, <1>3, Versions DEF ReloadInductive, SystemTypeOK, SchedulerInv
  <1>5. Delivery' /\ CollectorsCurrent' /\ CacheLag' /\ CrashCause'
    BY <1>1, <1>2, <1>3 DEF ReloadInductive, Delivery, Behind, CollectorsCurrent,
       CollReceives, CacheLag, Lag, CrashCause
  <1> QED
    BY <1>2, <1>4, <1>5 DEF ReloadInductive, SchedulerInv

LEMMA HandlerKeeps ==
    ASSUME ReloadInductive, ~ crashed, HandlerStep
    PROVE  ReloadInductive'
  <1>1. /\ UNCHANGED <<hup, confPc, confCfg, closed, collPc, collCfg, collNext, collThen,
                       workerPanicked, handlerNext, groupPc, webPc, crashed, runVars, runPc,
                       parallel, jobPanicked>>
        /\ UNCHANGED vars \/ ClearCache
    BY DEF HandlerStep, HandlerSetConf, HandlerClear, ClearCache, vars, runVars, processVars,
       confVars, collVars, groupVars
  <1>2. SchedulerInv' /\ Received' = Received
    BY <1>1, Versions, EnvironmentKeeps DEF runVars, Received
  <1>3. Delivery' /\ CollectorsCurrent' /\ CrashCause'
    BY <1>1, <1>2 DEF ReloadInductive, Delivery, Behind, CollectorsCurrent, CollReceives,
       CrashCause
  <1>4. CacheLag'
    BY DEF HandlerStep, HandlerSetConf, HandlerClear, ClearCache, CacheLag
  <1>5. SystemTypeOK'
    <2>1. /\ handlerPc' \in {"idle", "update", "clear"}
          /\ handlerCfg' = IF handlerPc' = "update" THEN handlerNext - 1 ELSE handlerNext
      BY DEF HandlerStep, HandlerSetConf, HandlerClear, ReloadInductive, SystemTypeOK
    <2> QED
      BY <1>1, <1>2, <2>1 DEF ReloadInductive, SystemTypeOK, SchedulerInv
  <1> QED
    BY <1>2, <1>3, <1>4, <1>5 DEF ReloadInductive, SchedulerInv

LEMMA GroupKeeps ==
    ASSUME ReloadInductive, ~ crashed, GroupStep \/ WebStep \/ ListenFails
    PROVE  ReloadInductive'
  <1>1. /\ UNCHANGED <<hup, confPc, confCfg, collPc, collCfg, collNext, collThen,
                       workerPanicked, handlerPc, handlerCfg, handlerNext, runVars, runPc,
                       parallel, jobPanicked, cache>>
        /\ UNCHANGED vars \/ Stop
    BY DEF GroupStep, WebStep, Interrupt, CloseChannels, StopWeb, GroupReturns, WebRun,
       WebExit, ListenFails, Stop, vars, runVars, processVars, confVars, collVars, handlerVars
  <1>2. SchedulerInv' /\ Received' = Received
    BY <1>1, Versions, EnvironmentKeeps DEF runVars, Received, Environment
  <1>3. /\ closed' \in BOOLEAN /\ crashed' \in BOOLEAN
        /\ groupPc' \in {"run", "conf", "web", "wait", "exited"}
        /\ webPc' \in {"start", "serving", "closed", "exited"}
        /\ closed' <=> groupPc' \in {"web", "wait", "exited"}
        /\ crashed' => groupPc' = "web"
    <2> USE DEF groupVars, confVars, ReloadInductive, SystemTypeOK
    <2>1. CASE Interrupt \/ GroupReturns
      BY <2>1 DEF Interrupt, GroupReturns
    <2>2. CASE CloseChannels
      BY <2>2 DEF CloseChannels
    <2>3. CASE StopWeb
      BY <2>3 DEF StopWeb
    <2>4. CASE WebStep \/ ListenFails
      BY <2>4 DEF WebStep, WebRun, WebExit, ListenFails
    <2> QED
      BY <2>1, <2>2, <2>3, <2>4 DEF GroupStep
  <1>4. SystemTypeOK'
    BY <1>1, <1>2, <1>3 DEF ReloadInductive, SystemTypeOK, SchedulerInv
  <1>5. Delivery' /\ CollectorsCurrent' /\ CacheLag' /\ CrashCause'
    BY <1>1, <1>2, <1>3 DEF ReloadInductive, Delivery, Behind, CollectorsCurrent,
       CollReceives, CacheLag, Lag, CrashCause
  <1> QED
    BY <1>2, <1>4, <1>5 DEF ReloadInductive, SchedulerInv

--------------------------------------------------------------------------------
(* The theorems. *)

LEMMA ReloadInit == SystemInit => ReloadInductive
  <1> SUFFICES ASSUME SystemInit
               PROVE  ReloadInductive
    OBVIOUS
  <1>1. 0 \in Version /\ Len(JobsOf[0]) \in Nat
    BY SchedulerAssumption, JobsOfTypes DEF Version
  <1>2. SystemTypeOK
    <2> USE DEF SystemInit, Init
    <2>1. /\ cfg \in Version /\ nextCfg \in Version /\ runPc = "start"
          /\ pos \in 0 .. Len(JobsOf[cfg]) + 1
      BY <1>1
    <2>2. /\ groupDone \in BOOLEAN /\ ctxDone \in BOOLEAN
          /\ parallel \in BOOLEAN /\ jobPanicked \in BOOLEAN
      OBVIOUS
    <2>3. /\ jobPc \in [Job -> {"none", "sleep", "adding", "waiting"}]
          /\ jobCfg \in [Job -> Version] /\ runs \in [Job -> 0 .. MaxRuns]
      BY <1>1, SchedulerAssumption
    <2>4. /\ taskState \in [Task -> {"new", "pending", "answered", "dropped"}]
          /\ output \in [Task -> {"success", "error", None}]
      OBVIOUS
    <2>5. /\ collectors \in {"up", "nil"} /\ replaced \in SUBSET Task
          /\ cache \in [Job -> Version \cup {None}]
      OBVIOUS
    <2>6. TypeOK
      BY <2>1, <2>2, <2>3, <2>4, <2>5 DEF TypeOK
    <2>7. /\ hup \in BOOLEAN /\ closed \in BOOLEAN /\ crashed \in BOOLEAN
          /\ workerPanicked \in BOOLEAN
      OBVIOUS
    <2>8. closed <=> groupPc \in {"web", "wait", "exited"}
      OBVIOUS
    <2>9. /\ collNext \in 0 .. confCfg /\ handlerNext \in 0 .. confCfg
          /\ collCfg \in {collNext - 1, collNext} /\ confCfg \in Version
      BY <1>1
    <2> QED
      BY <2>6, <2>7, <2>8, <2>9 DEF SystemTypeOK
  <1>3. RunShape /\ SerialShape /\ JobsAreCurrent
    BY DEF SystemInit, Init, RunShape, SerialShape, JobsAreCurrent, NoJobs, InHandleJob
  <1>4. Delivery /\ CollectorsCurrent /\ CacheLag /\ CrashCause
    BY DEF SystemInit, Init, Delivery, Behind, Received, CollectorsCurrent, CollReceives,
       CacheLag, CrashCause
  <1> QED
    BY <1>2, <1>3, <1>4 DEF ReloadInductive

LEMMA ReloadNext == ReloadInductive /\ [SystemNext]_systemVars => ReloadInductive'
  <1>1. ASSUME ReloadInductive, SystemNext
        PROVE  ReloadInductive'
    BY <1>1, SchedulerStepKeeps, SchedulerClosedKeeps, SendSchedulerKeeps, SignalKeeps,
       SendKeeps, CollKeeps, HandlerKeeps, GroupKeeps DEF SystemNext, ConfStep
  <1>2. ASSUME ReloadInductive, UNCHANGED systemVars
        PROVE  ReloadInductive'
    <2>1. /\ UNCHANGED <<hup, confPc, confCfg, closed, collPc, collCfg, collNext, collThen,
                         workerPanicked, handlerPc, handlerCfg, handlerNext, groupPc, webPc,
                         crashed>>
          /\ UNCHANGED vars
      BY <1>2 DEF systemVars, reloadVars, confVars, collVars, handlerVars, groupVars
    <2>2. /\ SchedulerInv' /\ Received' = Received /\ cache' = cache /\ Lag' = Lag
          /\ runPc' = runPc /\ jobPanicked' = jobPanicked
      BY <1>2, <2>1, Versions, EnvironmentKeeps DEF vars, runVars, processVars, Received, Lag
    <2> QED
      BY <1>2, <2>1, <2>2 DEF ReloadInductive, SchedulerInv, SystemTypeOK, Delivery, Behind,
         CollectorsCurrent, CollReceives, CacheLag, CrashCause
  <1> QED
    BY <1>1, <1>2

LEMMA ReloadAlways == SystemSpec => []ReloadInductive
  BY ReloadInit, ReloadNext, PTL DEF SystemSpec

(* The types, and how far each receiver may be behind confHandler. *)
THEOREM ReloadTypes == SystemSpec => []SystemTypeOK
  <1>1. ReloadInductive => SystemTypeOK
    BY DEF ReloadInductive
  <1> QED
    BY <1>1, ReloadAlways, PTL

(* No job of an old configuration is executed after the scheduler got a new  *)
(* one, in either mode.                                                     *)
THEOREM ReloadJobs == SystemSpec => []JobsAreCurrent
  <1>1. ReloadInductive => JobsAreCurrent
    BY DEF ReloadInductive
  <1> QED
    BY <1>1, ReloadAlways, PTL

(* The results of jobs in the cache are at most one reload older than the    *)
(* configuration of the handler, two when jobs run in parallel.             *)
THEOREM ReloadLag == SystemSpec => []CacheLag
  <1>1. ReloadInductive => CacheLag
    BY DEF ReloadInductive
  <1> QED
    BY <1>1, ReloadAlways, PTL

(* When a reload is over everybody uses the configuration loaded last. *)
THEOREM ReloadReaches == SystemSpec => []ReloadReachesAll
  <1>1. ReloadInductive => ReloadReachesAll
    <2> SUFFICES ASSUME ReloadInductive, Settled
                 PROVE  collCfg = confCfg /\ handlerCfg = confCfg /\ cfg = confCfg
      BY DEF ReloadReachesAll
    <2>1. confCfg = collNext /\ confCfg = handlerNext /\ confCfg = cfg
      BY Versions DEF ReloadInductive, Settled, Delivery, Behind, Received
    <2> QED
      BY <2>1 DEF ReloadInductive, Settled, CollectorsCurrent, SystemTypeOK
  <1> QED
    BY <1>1, ReloadAlways, PTL

(* From AtRest on, while no SIGHUP comes. *)
Rested ==
    /\ ~ hup /\ (crashed => jobPanicked \/ workerPanicked)
    /\ webPc # "start" /\ confPc \in {"idle", "exited"}
    /\ \/ collPc \in {"parked", "hung", "exited"}
       \/ collPc \in {"stop", "wait"} /\ collThen = "exited"
    /\ groupPc # "run" => ctxDone

LEMMA RestedNext ==
    ASSUME ReloadInductive, Rested, ~ hup', [SystemNext]_systemVars
    PROVE  Rested'
  <1> USE DEF Rested
  <1>1. closed => ctxDone
    BY DEF ReloadInductive, SystemTypeOK
  <1>2. SystemNext => ~ crashed
    BY DEF SystemNext
  <1>3. CASE UNCHANGED systemVars
    BY <1>3 DEF systemVars, vars, processVars, reloadVars, confVars, collVars, groupVars
  <1>4. CASE Hup \/ HupKills \/ ConfStep \/ SendScheduler
    <2>1. ConfExit
      BY <1>4 DEF Hup, HupKills, ConfStep, Notify, LoadConf, LoadFails, SendCollectors,
         SendServer, SendPanics, SendScheduler
    <2> QED
      BY <2>1 DEF ConfExit, vars, processVars, confVars, collVars, groupVars
  <1>5. CASE CollStep \/ CollWaitPanics \/ CollHangs
    <2>1. CASE CollDone \/ CollStop \/ CollExit
      BY <2>1 DEF CollDone, CollStop, CollExit, CollStopThen, StopCollectors, vars,
         processVars, confVars, groupVars
    <2>2. CASE CollClosed
      BY <1>1, <2>2 DEF CollClosed, CollReceives
    <2>3. CASE CollWaitPanics \/ CollHangs
      BY <2>3 DEF CollWaitPanics, CollHangs, vars, processVars, confVars, groupVars
    <2> QED
      BY <1>5, <2>1, <2>2, <2>3 DEF CollStep, CollPark, CollStart, CollNoDatabases, CollBegins,
         CollPanics
  <1>6. CASE HandlerStep
    BY <1>6 DEF HandlerStep, HandlerSetConf, HandlerClear, ClearCache, vars, processVars,
       confVars, collVars, groupVars
  <1>7. CASE SchedulerClosed
    BY <1>7 DEF SchedulerClosed, processVars, reloadVars, confVars, collVars, groupVars
  <1>8. CASE SchedulerStep /\ ~ crashed
    <2>1. ctxDone => ctxDone'
      <3>1. CASE Environment
        BY <3>1 DEF Environment, Answer, Drop, Stop, processVars
      <3>2. CASE Run
        BY <3>2 DEF Run, SerialStart, SerialTick, SerialRunJob, SerialSkipJob,
           SerialEndJobs, SerialStop, ParallelStart, ParallelWait, ParallelStop, ParallelExit,
           WaitPanics, StartJob, processVars
      <3>3. CASE \E j \in Job : JobStep(j)
        BY <3>3 DEF JobStep, LoopRunJob, LoopStop, AddReturns, AddGivesUp, AddPanics,
           TakeResult, GiveUp, StartJob, processVars
      <3> QED
        BY <1>8, <3>1, <3>2, <3>3 DEF SchedulerStep
    <2>2. ~ crashed => (crashed' => jobPanicked')
      <3>1. ~ crashed => ReloadInductive'
        BY <1>8, SchedulerStepKeeps
      <3>2. crashed' <=> runPc' = "crashed"
        BY <1>8 DEF SchedulerStep, SchedulerAlone
      <3> QED
        BY <3>1, <3>2 DEF ReloadInductive, RunShape
    <2>3. UNCHANGED <<confVars, collVars, groupVars>>
      BY <1>8 DEF SchedulerStep, SchedulerAlone
    <2> QED
      BY <1>8, <2>1, <2>2, <2>3 DEF confVars, collVars, groupVars
  <1>9. CASE GroupStep \/ ListenFails \/ WebStep
    BY <1>9 DEF GroupStep, Interrupt, CloseChannels, StopWeb, GroupReturns, ListenFails,
       WebStep, WebRun, WebExit, Stop, vars, processVars, confVars, collVars, groupVars
  <1> QED
    BY <1>3, <1>4, <1>5, <1>6, <1>7, <1>8, <1>9 DEF SystemNext

(* A process at rest that gets no SIGHUP any more dies of nothing but the    *)
(* panic of a task: the order of the interrupts closes no channel before its *)
(* receiver left (cli/main.go:108-111).                                      *)
THEOREM ReloadCleanStop == SystemSpec => RestedStopIsClean
  <1>1. ReloadInductive /\ AtRest /\ ~ hup => Rested
    BY DEF ReloadInductive, AtRest, Rested, CrashCause, SystemTypeOK
  <1>2. ReloadInductive /\ Rested /\ ~ hup' /\ [SystemNext]_systemVars => Rested'
    BY RestedNext
  <1>3. Rested => (crashed => jobPanicked \/ workerPanicked)
    BY DEF Rested
  <1> QED
    BY <1>1, <1>2, <1>3, ReloadAlways, PTL DEF SystemSpec, RestedStopIsClean

--------------------------------------------------------------------------------
(* The scheduler uses the collectors as their service allows.                *)

TaskNumbers == \A t \in Task : ~ IsMade(t) => taskState[t] = "new"

LEMMA TaskParts == \A t \in Task : t[1] \in Job /\ t[2] \in 1 .. MaxRuns /\ t = <<t[1], t[2]>>
  BY DEF Task

LEMMA UseInit == SystemInit => Service!Init
  <1> SUFFICES ASSUME SystemInit
               PROVE  Service!Init
    OBVIOUS
  <1>1. \A t \in Task : ~ IsMade(t)
    BY TaskParts DEF SystemInit, Init, IsMade
  <1>2. TaskLife = [t \in Task |-> "new"]
    BY <1>1 DEF SystemInit, Init, TaskLife
  <1>3. Withdrawn = {}
    BY <1>1 DEF SystemInit, Init, Withdrawn
  <1> QED
    BY <1>2, <1>3 DEF Service!Init, TaskLife

(* Who is withdrawn stays withdrawn. *)
LEMMA WithdrawnGrows ==
    ASSUME Withdrawn \subseteq Withdrawn', Withdrawn' \subseteq Task, TaskLife' = TaskLife
    PROVE  Service!Next
  <1>1. Withdrawn' = Withdrawn \cup Withdrawn' /\ Withdrawn' \in SUBSET Task
    OBVIOUS
  <1>2. Service!Withdraw
    BY <1>1 DEF Service!Withdraw, TaskLife
  <1> QED
    BY <1>2 DEF Service!Next

(* A step that makes no task and gives up some, or none. *)
LEMMA UseOfTasks ==
    ASSUME TypeOK, TypeOK', runs' = runs, taskState' = taskState,
           replaced \subseteq replaced', ctxDone => ctxDone',
           \A j \in Job : ~ InHandleJob(j) \/ JobDone => (~ InHandleJob(j) \/ JobDone)'
    PROVE  Service!Next
  <1>1. TaskLife' = TaskLife
    BY DEF TaskLife, IsMade
  <1>2. Withdrawn \subseteq Withdrawn'
    BY TaskParts DEF Withdrawn, IsMade, TaskOf
  <1>3. Withdrawn' \subseteq Task
    BY DEF Withdrawn, TypeOK
  <1> QED
    BY <1>1, <1>2, <1>3, WithdrawnGrows

(* StartJob makes the task of the next number, and the one before is of the  *)
(* past.                                                                     *)
LEMMA UseOfStart ==
    ASSUME TypeOK, TaskNumbers, NEW j \in Job, StartJob(j), ~ InHandleJob(j),
           ctxDone \/ ~ JobDone
    PROVE  Service!Next /\ TaskNumbers'
  <1>1. runs[j] \in Nat /\ <<j, runs[j] + 1>> \in Task
    BY SchedulerAssumption DEF TypeOK, StartJob, Task
  <1>2. PICK n \in Nat, t \in Task : n = runs[j] + 1 /\ t = <<j, n>>
    BY <1>1
  <1>3. /\ runs[j] \in Nat /\ n = runs[j] + 1 /\ t = <<j, n>> /\ t[1] = j /\ t[2] = n
        /\ runs' = [runs EXCEPT ![j] = n]
        /\ UNCHANGED <<runVars, collectorVars, cache, processVars>>
    BY <1>1, <1>2 DEF StartJob
  <1>4. /\ ~ IsMade(t) /\ IsMade(t)'
        /\ \A u \in Task \ {t} : IsMade(u)' <=> IsMade(u)
    <2>1. ~ IsMade(t) /\ IsMade(t)'
      BY <1>3 DEF TypeOK, IsMade
    <2>2. ASSUME NEW u \in Task, u # t
          PROVE  IsMade(u)' <=> IsMade(u)
      <3>1. u[1] \in Job /\ u[2] \in Nat /\ u = <<u[1], u[2]>>
        BY SchedulerAssumption, TaskParts
      <3>2. CASE u[1] = j
        <4>1. u[2] # n
          BY <1>3, <2>2, <3>1, <3>2
        <4> QED
          BY <1>3, <3>1, <3>2, <4>1 DEF TypeOK, IsMade
      <3>3. CASE u[1] # j
        BY <1>3, <3>1, <3>3 DEF TypeOK, IsMade
      <3> QED
        BY <3>2, <3>3
    <2> QED
      BY <2>1, <2>2
  <1>5. /\ \A u \in Task : u[1] # j => (TaskOf(u[1])' = TaskOf(u[1]))
        /\ TaskOf(j)' = t /\ InHandleJob(j)'
        /\ \A i \in Job \ {j} : InHandleJob(i)' <=> InHandleJob(i)
    BY <1>3, TaskParts DEF TypeOK, TaskOf, StartJob, JobGoto, InHandleJob
  <1>6. JobDone' = JobDone /\ ctxDone' = ctxDone /\ replaced' = replaced
    BY <1>3 DEF runVars, processVars, collectorVars, JobDone
  <1>7. Withdrawn' = Withdrawn
    <2> SUFFICES ASSUME NEW u \in Task
                 PROVE  u \in Withdrawn' <=> u \in Withdrawn
      BY <1>6 DEF Withdrawn, TypeOK
    <2>1. CASE ctxDone \/ u \in replaced
      BY <1>6, <2>1 DEF Withdrawn
    <2>2. CASE ~ ctxDone /\ u \notin replaced /\ u = t
      BY <1>3, <1>4, <1>5, <1>6, <2>2 DEF Withdrawn
    <2>3. CASE ~ ctxDone /\ u \notin replaced /\ u # t /\ u[1] = j
      BY <1>4, <1>5, <1>6, <2>3 DEF Withdrawn
    <2>4. CASE ~ ctxDone /\ u \notin replaced /\ u[1] # j
      BY <1>3, <1>4, <1>5, <1>6, <2>4, TaskParts DEF Withdrawn
    <2> QED
      BY <2>1, <2>2, <2>3, <2>4
  <1>8. taskState[t] = "new"
    BY <1>3, <1>4 DEF TaskNumbers
  <1>9. CASE taskState' = taskState
    <2>1. TaskLife' = [TaskLife EXCEPT ![t] = "answered"] /\ TaskLife[t] = "new"
      <3>1. \A u \in Task : TaskLife'[u] = IF u = t THEN "answered" ELSE TaskLife[u]
        BY <1>3, <1>4, <1>8, <1>9 DEF TaskLife
      <3> QED
        BY <1>3, <1>4, <1>8, <3>1 DEF TaskLife
    <2>2. Service!Refuse(t)
      BY <1>7, <2>1 DEF Service!Refuse, TaskLife
    <2>3. TaskNumbers'
      BY <1>4, <1>9 DEF TaskNumbers
    <2> QED
      BY <1>3, <2>2, <2>3 DEF Service!Next
  <1>10. CASE taskState' = [taskState EXCEPT ![t] = "pending"]
    <2>1. TaskLife' = [TaskLife EXCEPT ![t] = "pending"] /\ TaskLife[t] = "new"
      BY <1>3, <1>4, <1>8, <1>10 DEF TaskLife, TypeOK
    <2>2. Service!Submit(t)
      BY <1>7, <2>1 DEF Service!Submit, TaskLife
    <2>3. TaskNumbers'
      BY <1>3, <1>4, <1>10 DEF TaskNumbers, TypeOK
    <2> QED
      BY <1>3, <2>2, <2>3 DEF Service!Next
  <1> QED
    BY <1>3, <1>9, <1>10 DEF StartJob

LEMMA UseOfAnswer ==
    ASSUME TypeOK, TaskNumbers, NEW t \in Task, Answer(t) \/ Drop(t)
    PROVE  Service!Next /\ TaskNumbers'
  <1>1. UNCHANGED <<runVars, jobVars, collectorVars, processVars>>
    BY DEF Answer, Drop
  <1>2. Withdrawn' = Withdrawn /\ \A u \in Task : IsMade(u)' <=> IsMade(u)
    BY <1>1 DEF runVars, jobVars, collectorVars, processVars, Withdrawn, IsMade,
       InHandleJob, TaskOf, JobDone
  <1>3. taskState[t] = "pending" /\ IsMade(t)
    BY DEF Answer, Drop, TaskNumbers
  <1>4. CASE Answer(t)
    <2>1. taskState' = [taskState EXCEPT ![t] = "answered"]
      BY <1>4 DEF Answer
    <2>2. TaskLife' = [TaskLife EXCEPT ![t] = "answered"] /\ TaskLife[t] = "pending"
      BY <1>2, <1>3, <2>1 DEF TaskLife, TypeOK
    <2>3. Service!Answer(t) /\ TaskNumbers'
      BY <1>2, <1>3, <2>1, <2>2 DEF Service!Answer, TaskLife, TaskNumbers, TypeOK
    <2> QED
      BY <2>3 DEF Service!Next
  <1>5. CASE Drop(t)
    <2>1. taskState' = [taskState EXCEPT ![t] = "dropped"] /\ t \in Withdrawn
      BY <1>5 DEF Drop
    <2>2. TaskLife' = [TaskLife EXCEPT ![t] = "dropped"] /\ TaskLife[t] = "pending"
      BY <1>2, <1>3, <2>1 DEF TaskLife, TypeOK
    <2>3. Service!Drop(t) /\ TaskNumbers'
      BY <1>2, <1>3, <2>1, <2>2 DEF Service!Drop, TaskLife, TaskNumbers, TypeOK
    <2> QED
      BY <2>3 DEF Service!Next
  <1> QED
    BY <1>4, <1>5

(* All other steps leave the tasks of the collectors and their numbers. *)
LEMMA UseOfOthers ==
    ASSUME TypeOK, TypeOK', TaskNumbers, RunShape,
           \/ UNCHANGED vars
           \/ SerialStart \/ SerialTick \/ SerialSkipJob \/ SerialEndJobs \/ SerialStop
           \/ ParallelStart \/ ParallelWait \/ ParallelStop \/ ParallelExit \/ WaitPanics
           \/ SchedulerClosed \/ Reconfigure(confCfg) \/ Stop
           \/ StopCollectors \/ StartCollectors \/ ClearCache
           \/ \E j \in Job : LoopStop(j) \/ AddReturns(j) \/ AddGivesUp(j)
                             \/ AddPanics(j) \/ TakeResult(j) \/ GiveUp(j)
    PROVE  Service!Next /\ TaskNumbers'
  <1>1. runs' = runs /\ taskState' = taskState /\ replaced \subseteq replaced'
        /\ (ctxDone => ctxDone')
    BY DEF SerialStart, SerialTick, SerialSkipJob, SerialEndJobs, SerialStop, ParallelStart,
       ParallelWait, ParallelStop, ParallelExit, WaitPanics, SchedulerClosed, Reconfigure,
       SerialReconfigure, ParallelReconfigure, Stop, StopCollectors, StartCollectors,
       ClearCache, LoopStop, AddReturns, AddGivesUp, AddPanics, TakeResult, GiveUp, vars, runVars,
       jobVars, collectorVars, processVars
  <1>2. ASSUME NEW j \in Job, ~ InHandleJob(j) \/ JobDone
        PROVE  (~ InHandleJob(j) \/ JobDone)'
    <2>1. CASE \/ UNCHANGED vars
               \/ SerialStart \/ SerialTick \/ SerialSkipJob \/ SerialEndJobs \/ SerialStop
               \/ ParallelWait \/ ParallelExit \/ WaitPanics
               \/ SerialReconfigure(confCfg)
               \/ StopCollectors \/ StartCollectors \/ ClearCache
      BY <1>2, <2>1 DEF SerialStart, SerialTick, SerialSkipJob, SerialEndJobs, SerialStop,
         ParallelWait, ParallelExit, WaitPanics, SerialReconfigure, StopCollectors,
         StartCollectors, ClearCache, vars, runVars, jobVars, processVars, InHandleJob, JobDone
    <2>2. CASE ParallelStop \/ SchedulerClosed \/ ParallelReconfigure(confCfg) \/ Stop
      BY <1>2, <2>2 DEF ParallelStop, SchedulerClosed, ParallelReconfigure, Stop, jobVars,
         runVars, processVars, InHandleJob, JobDone
    <2>3. CASE ParallelStart
      BY <2>3 DEF ParallelStart, RunShape, NoJobs, InHandleJob
    <2>4. ASSUME NEW i \in Job,
                 LoopStop(i) \/ AddReturns(i) \/ AddGivesUp(i) \/ TakeResult(i) \/ GiveUp(i)
          PROVE  (~ InHandleJob(j) \/ JobDone)'
      <3>1. JobDone' = JobDone
        BY <2>4 DEF LoopStop, AddReturns, AddGivesUp, TakeResult, GiveUp, JobReturns,
           runVars, processVars, JobDone
      <3>2. ~ InHandleJob(j) => ~ InHandleJob(j)'
        BY <2>4 DEF LoopStop, AddReturns, AddGivesUp, TakeResult, GiveUp, JobReturns,
           JobGoto, InHandleJob, TypeOK
      <3> QED
        BY <1>2, <3>1, <3>2
    <2>5. ASSUME NEW i \in Job, AddPanics(i)
          PROVE  (~ InHandleJob(j) \/ JobDone)'
      BY <1>2, <2>5 DEF AddPanics, JobGoto, JobDone, InHandleJob, TypeOK
    <2> QED
      BY <2>1, <2>2, <2>3, <2>4, <2>5 DEF Reconfigure
  <1>3. TaskNumbers'
    BY <1>1 DEF TaskNumbers, IsMade
  <1> QED
    BY <1>1, <1>2, <1>3, UseOfTasks

LEMMA UseNext ==
    ReloadInductive /\ TaskNumbers /\ [SystemNext]_systemVars =>
        TaskNumbers' /\ [Service!Next]_(Service!serviceVars)
  <1> SUFFICES ASSUME ReloadInductive, TaskNumbers, [SystemNext]_systemVars
               PROVE  Service!Next /\ TaskNumbers'
    OBVIOUS
  <1>1. TypeOK /\ TypeOK' /\ RunShape
    BY ReloadNext DEF ReloadInductive, SystemTypeOK
  <1>2. CASE SerialRunJob
    <2>1. JobsOf[cfg][pos] \in Job
      BY <1>1, <1>2, JobsOfTypes DEF TypeOK, SerialRunJob, AtJob, RunShape
    <2>2. ~ InHandleJob(JobsOf[cfg][pos]) /\ (ctxDone \/ ~ JobDone)
      BY <1>2, <2>1 DEF SerialRunJob, AtJob, NoJobs, InHandleJob, JobDone
    <2> QED
      BY <1>1, <1>2, <2>1, <2>2, UseOfStart DEF SerialRunJob
  <1>3. ASSUME NEW j \in Job, LoopRunJob(j)
        PROVE  Service!Next /\ TaskNumbers'
    BY <1>1, <1>3, UseOfStart DEF LoopRunJob, InHandleJob
  <1>4. ASSUME NEW t \in Task, Answer(t) \/ Drop(t)
        PROVE  Service!Next /\ TaskNumbers'
    BY <1>1, <1>4, UseOfAnswer
  <1>5. CASE UNCHANGED systemVars
    BY <1>1, <1>5, UseOfOthers DEF systemVars
  <1>6. CASE SchedulerStep
    BY <1>1, <1>2, <1>3, <1>4, <1>6, UseOfOthers DEF SchedulerStep, Run, JobStep, Environment
  <1>7. CASE \/ Hup \/ HupKills \/ ConfStep \/ SendScheduler \/ HandlerStep
             \/ CollStep \/ CollWaitPanics \/ CollHangs
             \/ SchedulerClosed \/ GroupStep \/ ListenFails \/ WebStep
    <2>1. \/ UNCHANGED vars \/ SchedulerClosed \/ Reconfigure(confCfg) \/ Stop
          \/ StopCollectors \/ StartCollectors \/ ClearCache
      BY <1>7 DEF Hup, HupKills, ConfStep, Notify, LoadConf, LoadFails, SendCollectors,
         SendServer, SendPanics, ConfExit, SendScheduler, CollStep, CollPark, CollStop,
         CollStart, CollNoDatabases, CollDone, CollClosed, CollExit, CollPanics,
         CollWaitPanics, CollHangs, HandlerStep, HandlerSetConf,
         HandlerClear, GroupStep, Interrupt, CloseChannels, StopWeb, GroupReturns,
         ListenFails, WebStep, WebRun, WebExit
    <2> QED
      BY <1>1, <2>1, UseOfOthers
  <1> QED
    BY <1>5, <1>6, <1>7 DEF SystemNext

(* Each execution of a job submits a task of its own, once, or is refused;   *)
(* a task is lost only when its job gave up or its collector was replaced,   *)
(* and no job waits again for a task it gave up.                             *)
THEOREM SchedulerUsesService == SystemSpec => Service!Spec
  <1>1. SystemInit => TaskNumbers
    BY DEF SystemInit, Init, TaskNumbers
  <1> QED
    BY <1>1, UseInit, UseNext, ReloadAlways, PTL DEF SystemSpec, Service!Spec
================================================================================
