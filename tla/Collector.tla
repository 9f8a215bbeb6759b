------------------------------- MODULE Collector -------------------------------
(***************************************************************************)
(* One database collector (internal/collectors/collector.go): clients put *)
(* tasks into tasksQueue, the goroutine run distributes them between the   *)
(* standard and the background work queue and spawns workers up to the     *)
(* limits of two errgroups, a worker starts a goroutine that queries the   *)
(* database and sends its result to the Output channel of the task.        *)
(*                                                                         *)
(* A task here owns one slot of the Output channel of its request and has  *)
(* its own context and cancel channel; requests of several tasks, which    *)
(* share them, are in QueryHandler.tla.  The time a timer or a deadline    *)
(* needs is not modelled: either may expire at any moment.                 *)
(***************************************************************************)
EXTENDS Naturals, Sequences, FiniteSets, Functions

CONSTANTS
    Task,           \* the tasks clients submit to this collector
    Scheduled,      \* those the scheduler created (Task.IsScheduledJob)
    Patient,        \* those whose context is not done before an answer: a bound
    StdWorker,      \* the slots of stdWorkersGroup: dbcfg.MaxWorkers of them
    BgWorker,       \* the slots of bgWorkersGroup: dbcfg.BackgroundWorkers
    QueueSize,      \* tasksQueueSize, the capacity of both work queues
    None            \* no task, or no result

(* A TaskResult: no one here looks whether it has an error or the output of *)
(* the query, or of the template for errors.                                *)
Result == {"result"}

ASSUME CollectorAssumption ==
    /\ Scheduled \subseteq Task
    /\ Patient \subseteq Task
    /\ StdWorker \cap BgWorker = {}
    /\ QueueSize \in Nat \ {0}
    /\ None \notin Task \cup Result

Worker == StdWorker \cup BgWorker

Pool == {"std", "bg"}

WorkersOf(p) == IF p = "bg" THEN BgWorker ELSE StdWorker

PoolOf(w) == IF w \in BgWorker THEN "bg" ELSE "std"

(* The queue run sends a task to. *)
QueueFor(t) == IF t \in Scheduled /\ BgWorker # {} THEN "bg" ELSE "std"

--------------------------------------------------------------------------------

VARIABLES
    tasksQueue,     \* channel of capacity one between addTask and run
    queueState,     \* tasksQueue is "nil" until run makes it, then "open"
    workQueue,      \* stdWorkQueue and bgWorkQueue
    runPc,          \* where run is
    runTask,        \* the task run is distributing
    wpc,            \* where the goroutine in each worker slot is
    wtask,          \* the task each worker handles
    query,          \* the queryDatabase goroutine of each task, with resCh
    output,         \* the slot of each task in its Output channel
    client,         \* where the goroutine that submitted the task is
    received,       \* the result a client took from Output
    expired,        \* tasks whose client context is done
    ctxDone,        \* the context of the collector is done
    panicked        \* pools one of whose workers panicked

queueVars == <<tasksQueue, queueState, workQueue>>
runVars == <<runPc, runTask>>
workerVars == <<wpc, wtask, panicked>>
clientVars == <<client, received, expired>>
vars == <<queueVars, runVars, workerVars, clientVars, query, output, ctxDone>>

RunPc == {"init", "select", "send", "spawn", "waitBg", "waitStd",
          "exited", "crashed"}
WorkerPc == {"free", "select", "check", "wait", "reply", "stopping"}
ClientPc == {"idle", "adding", "waiting", "unwinding", "done", "panicked"}

Init ==
    /\ tasksQueue = <<>>
    /\ queueState = "nil"
    /\ workQueue = [p \in Pool |-> <<>>]
    /\ runPc = "init"
    /\ runTask = None
    /\ wpc = [w \in Worker |-> "free"]
    /\ wtask = [w \in Worker |-> None]
    /\ query = [t \in Task |-> "none"]
    /\ output = [t \in Task |-> <<>>]
    /\ client = [t \in Task |-> "idle"]
    /\ received = [t \in Task |-> None]
    /\ expired = {}
    /\ ctxDone = FALSE
    /\ panicked = {}

--------------------------------------------------------------------------------
(* The client of a task.  ServeHTTP closes Output before cancelCh, handleJob *)
(* of the scheduler cancels the task before it closes Output.                *)

OutputClosed(t) ==
    \/ client[t] = "done"
    \/ client[t] = "unwinding" /\ t \notin Scheduled

Cancelled(t) ==
    \/ client[t] \in {"done", "panicked"}
    \/ client[t] = "unwinding" /\ t \in Scheduled

(* addTask of a collector that does not run yet answers with InternalError. *)
AddTaskInactive(t) ==
    /\ client[t] = "idle"
    /\ queueState = "nil"
    /\ output' = [output EXCEPT ![t] = Append(@, "result")]
    /\ client' = [client EXCEPT ![t] = "waiting"]
    /\ UNCHANGED <<queueVars, runVars, workerVars, query, received, expired, ctxDone>>

(* addTask found the queue and enters its select. *)
AddTask(t) ==
    /\ client[t] = "idle"
    /\ queueState # "nil"
    /\ client' = [client EXCEPT ![t] = "adding"]
    /\ UNCHANGED <<queueVars, runVars, workerVars, query, output, received,
                   expired, ctxDone>>

AddTaskSend(t) ==
    /\ client[t] = "adding"
    /\ queueState = "open"
    /\ Len(tasksQueue) < 1
    /\ tasksQueue' = Append(tasksQueue, t)
    /\ client' = [client EXCEPT ![t] = "waiting"]
    /\ UNCHANGED <<queueState, workQueue, runVars, workerVars, query, output,
                   received, expired, ctxDone>>

(* The select sends on a channel that run closed when it returned. *)
AddTaskPanic(t) ==
    /\ client[t] = "adding"
    /\ queueState = "closed"
    /\ client' = [client EXCEPT ![t] = "panicked"]
    /\ UNCHANGED <<queueVars, runVars, workerVars, query, output, received,
                   expired, ctxDone>>

(* Mutant: a send that does not wait (select with default). *)
AddTaskGivesUp_NoWait(t) ==
    /\ client[t] = "adding"
    /\ client' = [client EXCEPT ![t] = "waiting"]
    /\ UNCHANGED <<queueVars, runVars, workerVars, query, output, received,
                   expired, ctxDone>>

AddTaskGivesUp(t) ==
    /\ client[t] = "adding"
    /\ t \in expired \/ Cancelled(t)
    /\ client' = [client EXCEPT ![t] = "waiting"]
    /\ UNCHANGED <<queueVars, runVars, workerVars, query, output, received,
                   expired, ctxDone>>

(* The client takes the result and runs the first of its deferred calls. *)
TakeResult(t) ==
    /\ client[t] = "waiting"
    /\ output[t] # <<>>
    /\ received' = [received EXCEPT ![t] = Head(output[t])]
    /\ output' = [output EXCEPT ![t] = Tail(@)]
    /\ client' = [client EXCEPT ![t] = "unwinding"]
    /\ UNCHANGED <<queueVars, runVars, workerVars, query, expired, ctxDone>>

(* The context of the client is done before a result came. *)
GiveUp(t) ==
    /\ client[t] = "waiting"
    /\ t \in expired
    /\ client' = [client EXCEPT ![t] = "unwinding"]
    /\ UNCHANGED <<queueVars, runVars, workerVars, query, output, received,
                   expired, ctxDone>>

(* The second deferred call: Output and the cancel channel are both closed. *)
Unwind(t) ==
    /\ client[t] = "unwinding"
    /\ client' = [client EXCEPT ![t] = "done"]
    /\ UNCHANGED <<queueVars, runVars, workerVars, query, output, received,
                   expired, ctxDone>>

(* A request times out or its connection is closed. *)
Expire(t) ==
    /\ t \notin Scheduled \cup Patient \cup expired
    /\ client[t] \in {"adding", "waiting"}
    /\ expired' = expired \cup {t}
    /\ UNCHANGED <<queueVars, runVars, workerVars, query, output, client,
                   received, ctxDone>>

(* Jobs have no deadline: only the end of the scheduler ends their context. *)
StopJobs ==
    /\ ~ (Scheduled \subseteq expired)
    /\ expired' = expired \cup Scheduled
    /\ UNCHANGED <<queueVars, runVars, workerVars, query, output, client,
                   received, ctxDone>>

(* Collectors.Run cancels the context: the configuration changes, or the   *)
(* process ends.                                                           *)
StopCollector ==
    /\ ~ ctxDone
    /\ ctxDone' = TRUE
    /\ UNCHANGED <<queueVars, runVars, workerVars, query, output, clientVars>>

--------------------------------------------------------------------------------
(* The goroutine run.                                                        *)

RunStart ==
    /\ runPc = "init"
    /\ queueState' = "open"
    /\ runPc' = "select"
    /\ UNCHANGED <<tasksQueue, workQueue, runTask, workerVars, query, output,
                   clientVars, ctxDone>>

RunReceive ==
    /\ runPc = "select"
    /\ tasksQueue # <<>>
    /\ runTask' = Head(tasksQueue)
    /\ tasksQueue' = Tail(tasksQueue)
    /\ runPc' = "send"
    /\ UNCHANGED <<queueState, workQueue, workerVars, query, output, clientVars,
                   ctxDone>>

(* Mutant: all tasks go to the standard workers. *)
RunSend_OnePool ==
    /\ runPc = "send"
    /\ Len(workQueue["std"]) < QueueSize
    /\ workQueue' = [workQueue EXCEPT !["std"] = Append(@, runTask)]
    /\ runPc' = "spawn"
    /\ UNCHANGED <<tasksQueue, queueState, runTask, workerVars, query, output,
                   clientVars, ctxDone>>

(* The send blocks while the queue is full, and watches no context. *)
RunSend ==
    /\ runPc = "send"
    /\ LET p == QueueFor(runTask) IN
         /\ Len(workQueue[p]) < QueueSize
         /\ workQueue' = [workQueue EXCEPT ![p] = Append(@, runTask)]
    /\ runPc' = "spawn"
    /\ UNCHANGED <<tasksQueue, queueState, runTask, workerVars, query, output,
                   clientVars, ctxDone>>

(* spawnWorker, spawnBgWorker: TryGo starts a worker when a slot is free. *)
RunSpawn ==
    /\ runPc = "spawn"
    /\ LET p == QueueFor(runTask)
           free == {w \in WorkersOf(p) : wpc[w] = "free"}
       IN  IF workQueue[p] = <<>> \/ free = {}
           THEN UNCHANGED wpc
           ELSE \E w \in free : wpc' = [wpc EXCEPT ![w] = "select"]
    /\ runPc' = "select"
    /\ runTask' = None
    /\ UNCHANGED <<queueVars, wtask, panicked, query, output, clientVars, ctxDone>>

(* Mutant: run stops when the queues are drained. *)
RunStop_Drained ==
    /\ runPc = "select"
    /\ ctxDone
    /\ \A p \in Pool : workQueue[p] = <<>>
    /\ runPc' = "waitBg"
    /\ UNCHANGED <<queueVars, runTask, workerVars, query, output, clientVars,
                   ctxDone>>

RunStop ==
    /\ runPc = "select"
    /\ ctxDone
    /\ runPc' = "waitBg"
    /\ UNCHANGED <<queueVars, runTask, workerVars, query, output, clientVars,
                   ctxDone>>

AllFree(p) == \A w \in WorkersOf(p) : wpc[w] = "free"

(* Wait returns when every worker of the pool has returned, and raises the *)
(* panic of a worker again; the deferred close runs in both cases.         *)
RunWaitBg ==
    /\ runPc = "waitBg"
    /\ AllFree("bg")
    /\ IF "bg" \in panicked
       THEN runPc' = "crashed" /\ queueState' = "closed"
       ELSE runPc' = "waitStd" /\ UNCHANGED queueState
    /\ UNCHANGED <<tasksQueue, workQueue, runTask, workerVars, query, output,
                   clientVars, ctxDone>>

(* Mutant: run does not wait for the standard workers. *)
RunWaitStd_NoWait ==
    /\ runPc = "waitStd"
    /\ runPc' = "exited"
    /\ queueState' = "closed"
    /\ UNCHANGED <<tasksQueue, workQueue, runTask, workerVars, query, output,
                   clientVars, ctxDone>>

RunWaitStd ==
    /\ runPc = "waitStd"
    /\ AllFree("std")
    /\ runPc' = IF "std" \in panicked THEN "crashed" ELSE "exited"
    /\ queueState' = "closed"
    /\ UNCHANGED <<tasksQueue, workQueue, runTask, workerVars, query, output,
                   clientVars, ctxDone>>

Run ==
    \/ RunStart \/ RunReceive \/ RunSend \/ RunSpawn
    \/ RunStop \/ RunWaitBg \/ RunWaitStd

--------------------------------------------------------------------------------
(* The goroutine of a worker slot: worker and handleTask.                    *)

WorkerGoto(w, pc, t) ==
    /\ wpc' = [wpc EXCEPT ![w] = pc]
    /\ wtask' = [wtask EXCEPT ![w] = t]

(* Mutant: the task stays in the queue. *)
WorkerTake_Peek(w) ==
    /\ wpc[w] = "select"
    /\ workQueue[PoolOf(w)] # <<>>
    /\ WorkerGoto(w, "check", Head(workQueue[PoolOf(w)]))
    /\ UNCHANGED <<queueVars, runVars, panicked, query, output, clientVars,
                   ctxDone>>

WorkerTake(w) ==
    /\ wpc[w] = "select"
    /\ workQueue[PoolOf(w)] # <<>>
    /\ WorkerGoto(w, "check", Head(workQueue[PoolOf(w)]))
    /\ workQueue' = [workQueue EXCEPT ![PoolOf(w)] = Tail(@)]
    /\ UNCHANGED <<tasksQueue, queueState, runVars, panicked, query, output,
                   clientVars, ctxDone>>

WorkerStop(w) ==
    /\ wpc[w] = "select"
    /\ ctxDone
    /\ WorkerGoto(w, "stopping", None)
    /\ UNCHANGED <<queueVars, runVars, panicked, query, output, clientVars,
                   ctxDone>>

(* shutdownTimer fires; a task that arrives now may be ready as well. *)
WorkerTimeout(w) ==
    /\ wpc[w] = "select"
    /\ WorkerGoto(w, "stopping", None)
    /\ UNCHANGED <<queueVars, runVars, panicked, query, output, clientVars,
                   ctxDone>>

(* The goroutine returns and errgroup frees its slot. *)
WorkerExit(w) ==
    /\ wpc[w] = "stopping"
    /\ WorkerGoto(w, "free", None)
    /\ UNCHANGED <<queueVars, runVars, panicked, query, output, clientVars,
                   ctxDone>>

(* handleTask skips a task nobody waits for, and starts queryDatabase. *)
CheckTask(w) ==
    LET t == wtask[w] IN
    /\ wpc[w] = "check"
    /\ IF Cancelled(t) \/ ctxDone
       THEN WorkerGoto(w, "select", None) /\ UNCHANGED query
       ELSE WorkerGoto(w, "wait", t) /\ query' = [query EXCEPT ![t] = "running"]
    /\ UNCHANGED <<queueVars, runVars, panicked, output, clientVars, ctxDone>>

(* Mutant: a worker leaves a query for no reason. *)
AbandonTask_Anytime(w) ==
    /\ wpc[w] = "wait"
    /\ WorkerGoto(w, "select", None)
    /\ UNCHANGED <<queueVars, runVars, panicked, query, output, clientVars,
                   ctxDone>>

(* The worker moves on; the query goroutine of the task may still run. *)
AbandonTask(w) ==
    /\ wpc[w] = "wait"
    /\ Cancelled(wtask[w]) \/ ctxDone
    /\ WorkerGoto(w, "select", None)
    /\ UNCHANGED <<queueVars, runVars, panicked, query, output, clientVars,
                   ctxDone>>

(* Mutant: the worker reads the channel before there is a result. *)
ReceiveResult_Early(w) ==
    /\ wpc[w] = "wait"
    /\ WorkerGoto(w, "reply", wtask[w])
    /\ UNCHANGED <<queueVars, runVars, panicked, query, output, clientVars,
                   ctxDone>>

ReceiveResult(w) ==
    /\ wpc[w] = "wait"
    /\ query[wtask[w]] \in Result
    /\ WorkerGoto(w, "reply", wtask[w])
    /\ UNCHANGED <<queueVars, runVars, panicked, query, output, clientVars,
                   ctxDone>>

(* Mutant: the worker stays with the task it has answered. *)
SendResult_Again(w) ==
    LET t == wtask[w] IN
    /\ wpc[w] = "reply"
    /\ ~ OutputClosed(t)
    /\ output[t] = <<>>
    /\ output' = [output EXCEPT ![t] = Append(@, query[t])]
    /\ WorkerGoto(w, "wait", t)
    /\ UNCHANGED <<queueVars, runVars, panicked, query, clientVars, ctxDone>>

(* The send to Output blocks when its slot is taken and watches nothing. *)
SendResult(w) ==
    LET t == wtask[w] IN
    /\ wpc[w] = "reply"
    /\ ~ OutputClosed(t)
    /\ output[t] = <<>>
    /\ output' = [output EXCEPT ![t] = Append(@, query[t])]
    /\ WorkerGoto(w, "select", None)
    /\ UNCHANGED <<queueVars, runVars, panicked, query, clientVars, ctxDone>>

SendPanics(w) ==
    /\ wpc[w] = "reply"
    /\ OutputClosed(wtask[w])
    /\ panicked' = panicked \cup {PoolOf(w)}
    /\ WorkerGoto(w, "stopping", None)
    /\ UNCHANGED <<queueVars, runVars, query, output, clientVars, ctxDone>>

WorkerStep(w) ==
    \/ WorkerTake(w) \/ WorkerStop(w) \/ WorkerExit(w) \/ CheckTask(w)
    \/ AbandonTask(w) \/ ReceiveResult(w) \/ SendResult(w) \/ SendPanics(w)

(* Mutant: a failed query ends without a result. *)
QueryDatabase_NoErrorResult(t) ==
    /\ query[t] = "running"
    /\ \E fails \in BOOLEAN :
         query' = [query EXCEPT ![t] = IF fails THEN "none" ELSE "result"]
    /\ UNCHANGED <<queueVars, runVars, workerVars, output, clientVars, ctxDone>>

(* Every path of queryDatabase sends one result into resCh: a query, its    *)
(* conversion or the template for its error may fail.                       *)
QueryDatabase(t) ==
    /\ query[t] = "running"
    /\ query' = [query EXCEPT ![t] = "result"]
    /\ UNCHANGED <<queueVars, runVars, workerVars, output, clientVars, ctxDone>>

--------------------------------------------------------------------------------

ClientStep(t) ==
    \/ AddTaskInactive(t) \/ AddTask(t) \/ AddTaskSend(t) \/ AddTaskPanic(t)
    \/ AddTaskGivesUp(t) \/ TakeResult(t) \/ GiveUp(t) \/ Unwind(t)
    \/ Expire(t)

Next ==
    \/ Run
    \/ \E w \in Worker : WorkerStep(w) \/ WorkerTimeout(w)
    \/ \E t \in Task : ClientStep(t) \/ QueryDatabase(t)
    \/ StopJobs
    \/ StopCollector

Spec == Init /\ [][Next]_vars

(***************************************************************************)
(* The Go scheduler runs every goroutine that can take a step, a query     *)
(* ends in the database, though no deadline interrupts its statement, and  *)
(* a client runs its deferred calls.  No client has to come, no deadline   *)
(* has to pass and no timer of an idle worker has to fire.                 *)
(***************************************************************************)
Fairness ==
    /\ WF_vars(Run)
    /\ \A w \in Worker : WF_vars(WorkerStep(w))
    /\ \A t \in Task :
         /\ WF_vars(QueryDatabase(t))
         /\ WF_vars(\/ AddTaskSend(t) \/ AddTaskPanic(t) \/ AddTaskGivesUp(t)
                    \/ TakeResult(t) \/ GiveUp(t) \/ Unwind(t))

FairSpec == Spec /\ Fairness

--------------------------------------------------------------------------------
(* Correctness.                                                              *)

TypeOK ==
    /\ tasksQueue \in Seq(Task)
    /\ queueState \in {"nil", "open", "closed"}
    /\ workQueue \in [Pool -> Seq(Task)]
    /\ runPc \in RunPc
    /\ runTask \in Task \cup {None}
    /\ wpc \in [Worker -> WorkerPc]
    /\ wtask \in [Worker -> Task \cup {None}]
    /\ query \in [Task -> {"none", "running"} \cup Result]
    /\ output \in [Task -> Seq(Result)]
    /\ client \in [Task -> ClientPc]
    /\ received \in [Task -> Result \cup {None}]
    /\ expired \in SUBSET Task
    /\ ctxDone \in BOOLEAN
    /\ panicked \in SUBSET Pool

Busy(w) == wpc[w] \in {"check", "wait", "reply"}

(* The places a task passes on its way through the collector. *)
InTasksQueue(t) == t \in Range(tasksQueue)
WithRun(t) == runPc = "send" /\ runTask = t
InWorkQueue(p, t) == t \in Range(workQueue[p])
WithWorker(w, t) == Busy(w) /\ wtask[w] = t

InCollector(t) ==
    \/ client[t] = "adding"
    \/ InTasksQueue(t)
    \/ WithRun(t)
    \/ \E p \in Pool : InWorkQueue(p, t)
    \/ \E w \in Worker : WithWorker(w, t)

Answered(t) == output[t] # <<>> \/ received[t] # None

(* A task that went through the three channels is in one place only: no    *)
(* hand-over between addTask, run and the workers copies it.               *)
OnePlace ==
    /\ IsInjective(tasksQueue)
    /\ \A p \in Pool : IsInjective(workQueue[p])
    /\ \A w1, w2 \in Worker : Busy(w1) /\ WithWorker(w2, wtask[w1]) => w1 = w2
    /\ \A t \in Task :
         /\ client[t] \in {"idle", "adding"} =>
              /\ ~ InTasksQueue(t) /\ ~ WithRun(t)
              /\ \A p \in Pool : ~ InWorkQueue(p, t)
              /\ \A w \in Worker : ~ WithWorker(w, t)
         /\ InTasksQueue(t) =>
              /\ ~ WithRun(t)
              /\ \A p \in Pool : ~ InWorkQueue(p, t)
              /\ \A w \in Worker : ~ WithWorker(w, t)
         /\ WithRun(t) =>
              /\ \A p \in Pool : ~ InWorkQueue(p, t)
              /\ \A w \in Worker : ~ WithWorker(w, t)
         /\ \A p \in Pool : InWorkQueue(p, t) =>
              /\ \A q \in Pool \ {p} : ~ InWorkQueue(q, t)
              /\ \A w \in Worker : ~ WithWorker(w, t)

(* The send of a result never blocks: a task is answered at most once, so   *)
(* the slot it has in Output is free (collector.go, task.Output <- r, which *)
(* watches neither the context nor the cancel channel).                     *)
ReplyHasRoom ==
    \A w \in Worker :
        wpc[w] = "reply" => output[wtask[w]] = <<>> /\ received[wtask[w]] = None

(* Jobs of the scheduler never occupy a standard worker while the database *)
(* has background workers, and requests never occupy a background worker.  *)
PoolIsolation ==
    \A w \in Worker : Busy(w) => QueueFor(wtask[w]) = PoolOf(w)

(* A query somebody waits for is watched by exactly the worker that started *)
(* it: no worker leaves its query behind without a reason.                  *)
QueryIsWatched ==
    \A t \in Task :
        query[t] = "running" /\ ~ Cancelled(t) /\ ~ ctxDone =>
            \E w \in Worker : wpc[w] = "wait" /\ wtask[w] = t

(* When run has returned, no worker of the old configuration is left and    *)
(* none can start: Collectors.Run relies on it before it builds new ones.   *)
ExitIsQuiet ==
    runPc \in {"exited", "crashed"} => ctxDone /\
        (runPc = "exited" => \A w \in Worker : wpc[w] = "free")

(* What makes the above inductive. *)

(* run and the workers hold a task exactly while they need one. *)
HoldsTask ==
    /\ runPc \in {"send", "spawn"} => runTask \in Task
    /\ \A w \in Worker :
         /\ Busy(w) => wtask[w] \in Task
         /\ wpc[w] = "reply" => query[wtask[w]] \in Result

(* Nothing is in Output before the task has left the collector. *)
Unanswered ==
    \A t \in Task : client[t] = "idle" \/ InCollector(t) => ~ Answered(t)

QueuesAreRouted ==
    \A p \in Pool : \A t \in Task : InWorkQueue(p, t) => QueueFor(t) = p

(* run waits for the background workers first, then for the standard ones, *)
(* and closes its queue when it is done.                                    *)
StopOrder ==
    /\ runPc \in {"waitBg", "waitStd", "exited", "crashed"} => ctxDone
    /\ runPc \in {"waitStd", "exited"} => AllFree("bg")
    /\ runPc = "exited" => AllFree("std")
    /\ queueState = "closed" => ctxDone

(* A client leaves with a result, or because its context is done; the panic *)
(* in addTask takes a collector that was stopped.                           *)
LeavesForAReason ==
    \A t \in Task :
        Cancelled(t) \/ OutputClosed(t) =>
            received[t] # None \/ t \in expired \/ ctxDone

(* The collector invariant: each conjunct needs the others. *)
Inductive ==
    /\ TypeOK
    /\ HoldsTask
    /\ OnePlace
    /\ Unanswered
    /\ QueuesAreRouted
    /\ PoolIsolation
    /\ StopOrder
    /\ QueryIsWatched
    /\ LeavesForAReason

--------------------------------------------------------------------------------
(* Progress, and the two states in which there is none.                      *)

(* Tasks are queued for a pool without a worker, and run is not about to    *)
(* spawn one.                                                               *)
PoolAsleep(p) ==
    /\ workQueue[p] # <<>>
    /\ AllFree(p)
    /\ ~ (runPc = "spawn" /\ QueueFor(runTask) = p)

(* run blocks on a full work queue that no worker empties: no step ends     *)
(* this (theorem CollectorStuckForGood).                                    *)
DispatcherStuck ==
    /\ runPc = "send"
    /\ Len(workQueue[QueueFor(runTask)]) = QueueSize
    /\ AllFree(QueueFor(runTask))

RunReturned == runPc \in {"exited", "crashed"}

(* A task stays in a collector that is not stopped for two reasons only: the *)
(* pool the task is for, and no other, stays asleep, or run stays stuck in a *)
(* send, for whatever pool.                                                  *)
TasksAreServed ==
    \A t \in Task :
        <>[]InCollector(t) =>
            <>[]ctxDone \/ <>[]PoolAsleep(QueueFor(t)) \/ <>[]DispatcherStuck

(* A stopped collector ends, and stays so, unless run is stuck for ever.     *)
StopEnds == <>[]ctxDone => <>[](RunReturned \/ DispatcherStuck)

--------------------------------------------------------------------------------
(* The collector implements the service its clients rely on.                 *)

StateOf(t) ==
    CASE client[t] = "idle" -> "new"
      [] client[t] # "idle" /\ Answered(t) -> "answered"
      [] client[t] # "idle" /\ ~ Answered(t) /\ InCollector(t) -> "pending"
      [] OTHER -> "dropped"

Service == INSTANCE TaskService WITH
    state <- [t \in Task |-> StateOf(t)],
    withdrawn <- expired,
    stopped <- ctxDone

(* Every step is one the service allows, or none: a task gets one answer,   *)
(* and is lost only after its client left or the collector was stopped.     *)
ImplementsService == Service!Spec

--------------------------------------------------------------------------------
(* What the documentation says and the code does not do.                     *)

(* Changelog:4, "fix panic on cancelled requests". *)
NoSendOnClosedOutput ==
    \A w \in Worker : wpc[w] = "reply" => ~ OutputClosed(wtask[w])
================================================================================
