---------------------------- MODULE CollectorProofs ----------------------------
(***************************************************************************)
(* Proofs about Collector.tla for every set of tasks, every number of      *)
(* worker slots and every capacity of the work queues.                     *)
(***************************************************************************)
EXTENDS Collector, SequenceTheorems, TLAPS

--------------------------------------------------------------------------------
(* The queues: what the two ends of a channel do to the set of its elements. *)

(* Sending adds one element, and keeps a queue free of duplicates when the *)
(* element is new.                                                         *)
LEMMA SendLemma ==
    ASSUME NEW S, NEW s \in Seq(S), NEW x \in S
    PROVE  /\ Append(s, x) \in Seq(S)
           /\ Range(Append(s, x)) = Range(s) \cup {x}
           /\ IsInjective(s) /\ x \notin Range(s) => IsInjective(Append(s, x))
  <1>1. /\ Append(s, x) \in Seq(S)
        /\ Len(Append(s, x)) = Len(s) + 1
        /\ \A i \in 1 .. Len(s) : Append(s, x)[i] = s[i]
        /\ Append(s, x)[Len(s) + 1] = x
    BY AppendProperties
  <1>2. DOMAIN Append(s, x) = 1 .. Len(s) + 1 /\ DOMAIN s = 1 .. Len(s)
        /\ Len(s) \in Nat
    BY <1>1, LenProperties
  <1>3. Range(Append(s, x)) = Range(s) \cup {x}
    BY <1>1, <1>2 DEF Range
  <1>4. ASSUME IsInjective(s), x \notin Range(s)
        PROVE  IsInjective(Append(s, x))
    BY <1>1, <1>2, <1>4 DEF IsInjective, Range
  <1> QED
    BY <1>1, <1>3, <1>4

(* Receiving takes the first element, and it was there once. *)
LEMMA ReceiveLemma ==
    ASSUME NEW S, NEW s \in Seq(S), s # <<>>
    PROVE  /\ Head(s) \in S /\ Head(s) \in Range(s) /\ Tail(s) \in Seq(S)
           /\ Range(s) = {Head(s)} \cup Range(Tail(s))
           /\ IsInjective(s) => /\ IsInjective(Tail(s))
                                /\ Head(s) \notin Range(Tail(s))
  <1>1. /\ Head(s) \in S /\ Tail(s) \in Seq(S) /\ Head(s) = s[1]
        /\ Len(Tail(s)) = Len(s) - 1 /\ Len(s) \in Nat \ {0}
        /\ \A i \in 1 .. Len(Tail(s)) : Tail(s)[i] = s[i + 1]
    BY HeadTailProperties, EmptySeq, LenProperties
  <1>2. DOMAIN s = 1 .. Len(s) /\ DOMAIN Tail(s) = 1 .. Len(s) - 1
    BY <1>1, LenProperties
  <1>3. Head(s) \in Range(s)
    BY <1>1, <1>2 DEF Range
  <1>4. Range(s) = {Head(s)} \cup Range(Tail(s))
    <2>1. Range(Tail(s)) \subseteq Range(s)
      BY <1>1, <1>2 DEF Range
    <2>2. ASSUME NEW i \in 1 .. Len(s)
          PROVE  s[i] = Head(s) \/ s[i] \in Range(Tail(s))
      <3>1. CASE i = 1
        BY <3>1, <1>1
      <3>2. CASE i # 1
        <4>1. i - 1 \in 1 .. Len(Tail(s)) /\ s[i] = Tail(s)[i - 1]
          BY <3>2, <1>1
        <4> QED
          BY <4>1, <1>1, <1>2 DEF Range
      <3> QED
        BY <3>1, <3>2
    <2> QED
      BY <2>1, <2>2, <1>2, <1>3 DEF Range
  <1>5. ASSUME IsInjective(s)
        PROVE  IsInjective(Tail(s)) /\ Head(s) \notin Range(Tail(s))
    BY <1>1, <1>2, <1>5 DEF IsInjective, Range
  <1> QED
    BY <1>1, <1>3, <1>4, <1>5

--------------------------------------------------------------------------------
(* Types.                                                                    *)

(* Slots and queues fit together. *)
LEMMA PoolLemma ==
    /\ \A w \in Worker : PoolOf(w) \in Pool /\ w \in WorkersOf(PoolOf(w))
    /\ \A p \in Pool : WorkersOf(p) \subseteq Worker
    /\ \A t : QueueFor(t) \in Pool
    /\ \A p \in Pool : \A w \in WorkersOf(p) : PoolOf(w) = p
  BY CollectorAssumption DEF Worker, Pool, PoolOf, WorkersOf, QueueFor


LEMMA RunStep ==
    ASSUME Inductive, RunStart \/ RunStop \/ RunWaitBg \/ RunWaitStd
    PROVE  Inductive'
  <1> USE DEF RunStart, RunStop, RunWaitBg, RunWaitStd, Inductive,
              queueVars, workerVars, clientVars
  <1>1. TypeOK'
    BY DEF TypeOK, RunPc
  <1>2. HoldsTask'
    BY DEF HoldsTask, Busy
  <1>3. OnePlace'
    BY DEF OnePlace, Busy, WithWorker, WithRun, InTasksQueue, InWorkQueue
  <1>4. Unanswered'
    BY DEF Unanswered, InCollector, Answered, Busy, WithWorker, WithRun,
           InTasksQueue, InWorkQueue
  <1>5. QueuesAreRouted' /\ PoolIsolation'
    BY DEF QueuesAreRouted, InWorkQueue, PoolIsolation, Busy
  <1>6. StopOrder'
    BY DEF StopOrder, AllFree
  <1>7. QueryIsWatched'
    BY DEF QueryIsWatched, Cancelled
  <1>8. LeavesForAReason'
    BY DEF LeavesForAReason, Cancelled, OutputClosed
  <1> QED
    BY <1>1, <1>2, <1>3, <1>4, <1>5, <1>6, <1>7, <1>8

LEMMA RunReceiveStep ==
    ASSUME Inductive, RunReceive
    PROVE  Inductive'
  <1> USE DEF Inductive
  <1>1. /\ tasksQueue \in Seq(Task) /\ tasksQueue # <<>>
        /\ runPc = "select" /\ runPc' = "send" /\ runTask' = Head(tasksQueue)
        /\ tasksQueue' = Tail(tasksQueue)
        /\ UNCHANGED <<workQueue, wpc, wtask, query, output, client, received,
                       expired, ctxDone, panicked, queueState>>
    BY DEF RunReceive, TypeOK, workerVars, clientVars
  <1>2. /\ runTask' \in Task /\ InTasksQueue(runTask')
        /\ tasksQueue' \in Seq(Task) /\ IsInjective(tasksQueue')
        /\ Range(tasksQueue') \subseteq Range(tasksQueue)
        /\ runTask' \notin Range(tasksQueue')
    BY <1>1, ReceiveLemma DEF OnePlace, InTasksQueue
  <1>3. TypeOK'
    BY <1>1, <1>2 DEF TypeOK, RunPc
  <1>4. HoldsTask'
    BY <1>1, <1>2 DEF HoldsTask, Busy
  <1>5. OnePlace'
    BY <1>1, <1>2 DEF OnePlace, Busy, WithWorker, WithRun, InTasksQueue, InWorkQueue
  <1>6. Unanswered'
    BY <1>1, <1>2
       DEF Unanswered, InCollector, Answered, Busy, WithWorker, WithRun,
           InTasksQueue, InWorkQueue
  <1>7. QueuesAreRouted' /\ PoolIsolation'
    BY <1>1 DEF QueuesAreRouted, InWorkQueue, PoolIsolation, Busy
  <1>8. StopOrder'
    BY <1>1 DEF StopOrder, AllFree
  <1>9. QueryIsWatched'
    BY <1>1 DEF QueryIsWatched, Cancelled
  <1>10. LeavesForAReason'
    BY <1>1 DEF LeavesForAReason, Cancelled, OutputClosed
  <1> QED
    BY <1>3, <1>4, <1>5, <1>6, <1>7, <1>8, <1>9, <1>10

LEMMA RunSendStep ==
    ASSUME Inductive, RunSend
    PROVE  Inductive'
  <1> USE DEF Inductive
  <1> DEFINE p == QueueFor(runTask)
  <1>1. /\ runPc = "send" /\ runPc' = "spawn" /\ runTask \in Task /\ p \in Pool
        /\ workQueue' = [workQueue EXCEPT ![p] = Append(@, runTask)]
        /\ UNCHANGED <<tasksQueue, runTask, wpc, wtask, query, output, client,
                       received, expired, ctxDone, panicked, queueState>>
    BY PoolLemma DEF RunSend, HoldsTask, workerVars, clientVars
  <1>2. /\ workQueue[p] \in Seq(Task) /\ IsInjective(workQueue[p])
        /\ ~ InWorkQueue(p, runTask)
    BY <1>1 DEF TypeOK, OnePlace, WithRun
  <1>3. /\ workQueue'[p] \in Seq(Task) /\ IsInjective(workQueue'[p])
        /\ Range(workQueue'[p]) = Range(workQueue[p]) \cup {runTask}
        /\ \A q \in Pool \ {p} : workQueue'[q] = workQueue[q]
        /\ workQueue' \in [Pool -> Seq(Task)]
    BY <1>1, <1>2, SendLemma DEF TypeOK, InWorkQueue
  <1> HIDE DEF p
  <1>4. TypeOK'
    BY <1>1, <1>3 DEF TypeOK, RunPc
  <1>5. HoldsTask'
    BY <1>1 DEF HoldsTask, Busy
  <1>6. OnePlace'
    BY <1>1, <1>3 DEF OnePlace, Busy, WithWorker, WithRun, InTasksQueue, InWorkQueue
  <1>7. Unanswered'
    BY <1>1, <1>3
       DEF Unanswered, InCollector, Answered, Busy, WithWorker, WithRun,
           InTasksQueue, InWorkQueue
  <1>8. QueuesAreRouted' /\ PoolIsolation'
    BY <1>1, <1>3 DEF QueuesAreRouted, InWorkQueue, PoolIsolation, Busy, p
  <1>9. StopOrder'
    BY <1>1 DEF StopOrder, AllFree
  <1>10. QueryIsWatched'
    BY <1>1 DEF QueryIsWatched, Cancelled
  <1>11. LeavesForAReason'
    BY <1>1 DEF LeavesForAReason, Cancelled, OutputClosed
  <1> QED
    BY <1>4, <1>5, <1>6, <1>7, <1>8, <1>9, <1>10, <1>11

LEMMA RunSpawnStep ==
    ASSUME Inductive, RunSpawn
    PROVE  Inductive'
  <1> USE DEF Inductive
  <1>1. /\ runPc = "spawn" /\ runPc' = "select" /\ runTask' = None
        /\ UNCHANGED <<tasksQueue, queueState, workQueue, wtask, query, output,
                       client, received, expired, ctxDone, panicked>>
    BY DEF RunSpawn, queueVars, clientVars
  <1>2. \/ wpc' = wpc
        \/ \E w \in Worker : /\ wpc[w] = "free"
                             /\ wpc' = [wpc EXCEPT ![w] = "select"]
    BY PoolLemma DEF RunSpawn
  <1>3. /\ wpc' \in [Worker -> WorkerPc]
        /\ \A w \in Worker :
             \/ wpc'[w] = wpc[w]
             \/ wpc[w] = "free" /\ wpc'[w] = "select"
    BY <1>2 DEF TypeOK, WorkerPc
  <1>4. TypeOK'
    BY <1>1, <1>3 DEF TypeOK, RunPc
  <1>5. \A w \in Worker : Busy(w)' <=> Busy(w)
    BY <1>3 DEF Busy
  <1>6. HoldsTask'
    BY <1>1, <1>3, <1>5 DEF HoldsTask
  <1>7. OnePlace'
    BY <1>1, <1>5 DEF OnePlace, WithWorker, WithRun, InTasksQueue, InWorkQueue
  <1>8. Unanswered'
    BY <1>1, <1>5
       DEF Unanswered, InCollector, Answered, WithWorker, WithRun,
           InTasksQueue, InWorkQueue
  <1>9. QueuesAreRouted' /\ PoolIsolation'
    BY <1>1, <1>5 DEF QueuesAreRouted, InWorkQueue, PoolIsolation
  <1>10. StopOrder'
    BY <1>1 DEF StopOrder
  <1>11. QueryIsWatched'
    BY <1>1, <1>3 DEF QueryIsWatched, Cancelled
  <1>12. LeavesForAReason'
    BY <1>1 DEF LeavesForAReason, Cancelled, OutputClosed
  <1> QED
    BY <1>4, <1>6, <1>7, <1>8, <1>9, <1>10, <1>11, <1>12

(* A worker takes the first task of its queue. *)
LEMMA WorkerTakeStep ==
    ASSUME Inductive, NEW w \in Worker, WorkerTake(w)
    PROVE  Inductive'
  <1> USE DEF Inductive
  <1> DEFINE p == PoolOf(w)
             t == Head(workQueue[p])
  <1>1. /\ wpc[w] = "select" /\ p \in Pool /\ w \in WorkersOf(p)
        /\ wpc' = [wpc EXCEPT ![w] = "check"]
        /\ wtask' = [wtask EXCEPT ![w] = t]
        /\ workQueue' = [workQueue EXCEPT ![p] = Tail(@)]
        /\ UNCHANGED <<tasksQueue, queueState, runPc, runTask, query, output,
                       client, received, expired, ctxDone, panicked>>
        /\ workQueue[p] # <<>>
    BY PoolLemma DEF WorkerTake, WorkerGoto, runVars, clientVars
  <1>2. workQueue[p] \in Seq(Task) /\ IsInjective(workQueue[p])
    BY <1>1 DEF TypeOK, OnePlace
  <1>3. /\ t \in Task /\ InWorkQueue(p, t)
        /\ workQueue' \in [Pool -> Seq(Task)]
        /\ IsInjective(workQueue'[p])
        /\ Range(workQueue'[p]) \subseteq Range(workQueue[p])
        /\ t \notin Range(workQueue'[p])
        /\ \A q \in Pool \ {p} : workQueue'[q] = workQueue[q]
    BY <1>1, <1>2, ReceiveLemma DEF TypeOK, InWorkQueue
  <1> HIDE DEF p, t
  <1>4. /\ wpc'[w] = "check" /\ wtask'[w] = t
        /\ \A v \in Worker \ {w} : wpc'[v] = wpc[v] /\ wtask'[v] = wtask[v]
        /\ wpc' \in [Worker -> WorkerPc] /\ wtask' \in [Worker -> Task \cup {None}]
    BY <1>1, <1>3 DEF TypeOK, WorkerPc
  <1>5. TypeOK'
    BY <1>1, <1>3, <1>4 DEF TypeOK
  <1>6. HoldsTask'
    BY <1>1, <1>3, <1>4 DEF HoldsTask, Busy
  <1>7. OnePlace'
    BY <1>1, <1>3, <1>4
       DEF OnePlace, Busy, WithWorker, WithRun, InTasksQueue, InWorkQueue
  <1>8. Unanswered'
    BY <1>1, <1>3, <1>4
       DEF Unanswered, InCollector, Answered, Busy, WithWorker, WithRun,
           InTasksQueue, InWorkQueue
  <1>9. QueuesAreRouted' /\ PoolIsolation'
    BY <1>1, <1>3, <1>4 DEF QueuesAreRouted, InWorkQueue, PoolIsolation, Busy, p
  <1>10. StopOrder'
    BY <1>1, <1>4, PoolLemma DEF StopOrder, AllFree, Pool
  <1>11. QueryIsWatched'
    BY <1>1, <1>4 DEF QueryIsWatched, Cancelled
  <1>12. LeavesForAReason'
    BY <1>1 DEF LeavesForAReason, Cancelled, OutputClosed
  <1> QED
    BY <1>5, <1>6, <1>7, <1>8, <1>9, <1>10, <1>11, <1>12

(* A worker puts its task down: it stops, returns, or goes back to its     *)
(* select without a result.                                                *)
LEMMA WorkerLeaveStep ==
    ASSUME Inductive, NEW w \in Worker,
           \/ WorkerStop(w) \/ WorkerTimeout(w) \/ WorkerExit(w)
           \/ AbandonTask(w) \/ SendPanics(w)
           \/ CheckTask(w) /\ (Cancelled(wtask[w]) \/ ctxDone)
    PROVE  Inductive'
  <1> USE DEF Inductive
  <1>1. /\ wpc[w] # "free"
        /\ wpc[w] = "wait" => Cancelled(wtask[w]) \/ ctxDone
        /\ \E pc \in {"select", "stopping", "free"} : WorkerGoto(w, pc, None)
        /\ UNCHANGED <<tasksQueue, queueState, workQueue, runPc, runTask, query,
                       output, client, received, expired, ctxDone>>
        /\ panicked' \in SUBSET Pool
    BY PoolLemma
       DEF WorkerStop, WorkerTimeout, WorkerExit, AbandonTask, SendPanics,
           CheckTask, queueVars, runVars, clientVars, TypeOK
  <1>2. /\ wpc'[w] \in {"select", "stopping", "free"} /\ wtask'[w] = None
        /\ \A v \in Worker \ {w} : wpc'[v] = wpc[v] /\ wtask'[v] = wtask[v]
        /\ wpc' \in [Worker -> WorkerPc] /\ wtask' \in [Worker -> Task \cup {None}]
    BY <1>1 DEF TypeOK, WorkerPc, WorkerGoto
  <1>3. TypeOK'
    BY <1>1, <1>2 DEF TypeOK
  <1>4. HoldsTask'
    BY <1>1, <1>2 DEF HoldsTask, Busy
  <1>5. OnePlace'
    BY <1>1, <1>2
       DEF OnePlace, Busy, WithWorker, WithRun, InTasksQueue, InWorkQueue
  <1>6. Unanswered'
    BY <1>1, <1>2
       DEF Unanswered, InCollector, Answered, Busy, WithWorker, WithRun,
           InTasksQueue, InWorkQueue
  <1>7. QueuesAreRouted' /\ PoolIsolation'
    BY <1>1, <1>2 DEF QueuesAreRouted, InWorkQueue, PoolIsolation, Busy
  <1>8. StopOrder'
    BY <1>1, <1>2, PoolLemma DEF StopOrder, AllFree, Pool
  <1>9. QueryIsWatched'
    BY <1>1, <1>2 DEF QueryIsWatched, Cancelled
  <1>10. LeavesForAReason'
    BY <1>1 DEF LeavesForAReason, Cancelled, OutputClosed
  <1> QED
    BY <1>3, <1>4, <1>5, <1>6, <1>7, <1>8, <1>9, <1>10

(* A worker goes on with its task: the query starts, or its result is there. *)
LEMMA WorkerGoOnStep ==
    ASSUME Inductive, NEW w \in Worker,
           \/ CheckTask(w) /\ ~ (Cancelled(wtask[w]) \/ ctxDone)
           \/ ReceiveResult(w)
    PROVE  Inductive'
  <1> USE DEF Inductive
  <1> DEFINE t == wtask[w]
  <1>1. /\ Busy(w) /\ t \in Task
        /\ UNCHANGED <<tasksQueue, queueState, workQueue, runPc, runTask, wtask,
                       output, client, received, expired, ctxDone, panicked>>
        /\ \/ /\ wpc' = [wpc EXCEPT ![w] = "wait"]
              /\ query' = [query EXCEPT ![t] = "running"]
           \/ /\ wpc' = [wpc EXCEPT ![w] = "reply"]
              /\ query' = query /\ query[t] \in Result
    BY DEF CheckTask, ReceiveResult, WorkerGoto, HoldsTask, Busy, TypeOK,
           queueVars, runVars, clientVars
  <1>2. /\ wpc'[w] \in {"wait", "reply"}
        /\ wpc'[w] = "reply" => query'[t] \in Result
        /\ \A v \in Worker \ {w} : wpc'[v] = wpc[v]
        /\ \A u \in Task \ {t} : query'[u] = query[u]
        /\ query'[t] = "running" => wpc'[w] = "wait"
        /\ wpc' \in [Worker -> WorkerPc]
        /\ query' \in [Task -> {"none", "running"} \cup Result]
    BY <1>1 DEF TypeOK, WorkerPc, Result
  <1> HIDE DEF t
  <1>3. \A v \in Worker : Busy(v)' <=> Busy(v)
    BY <1>1, <1>2 DEF Busy
  <1>4. \A v \in Worker : Busy(v) /\ wtask[v] = t => v = w
    BY <1>1 DEF OnePlace, WithWorker, t
  <1>5. TypeOK'
    BY <1>1, <1>2 DEF TypeOK
  <1>6. HoldsTask'
    BY <1>1, <1>2, <1>3, <1>4 DEF HoldsTask, Busy, t
  <1>7. OnePlace'
    BY <1>1, <1>3 DEF OnePlace, WithWorker, WithRun, InTasksQueue, InWorkQueue
  <1>8. Unanswered'
    BY <1>1, <1>3
       DEF Unanswered, InCollector, Answered, WithWorker, WithRun,
           InTasksQueue, InWorkQueue
  <1>9. QueuesAreRouted' /\ PoolIsolation'
    BY <1>1, <1>3 DEF QueuesAreRouted, InWorkQueue, PoolIsolation
  <1>10. StopOrder'
    BY <1>1, <1>2, PoolLemma DEF StopOrder, AllFree, Pool, Busy
  <1>11. QueryIsWatched'
    BY <1>1, <1>2, <1>4 DEF QueryIsWatched, Cancelled, Busy, t
  <1>12. LeavesForAReason'
    BY <1>1 DEF LeavesForAReason, Cancelled, OutputClosed
  <1> QED
    BY <1>5, <1>6, <1>7, <1>8, <1>9, <1>10, <1>11, <1>12

(* A worker sends its result: the task has left the collector. *)
LEMMA SendResultStep ==
    ASSUME Inductive, NEW w \in Worker, SendResult(w)
    PROVE  Inductive'
  <1> USE DEF Inductive
  <1>0. wpc[w] = "reply" /\ wtask[w] \in Task /\ Busy(w)
    BY DEF SendResult, HoldsTask, Busy
  <1> PICK t \in Task : t = wtask[w]
    BY <1>0
  <1>1. /\ Busy(w) /\ query[t] \in Result
        /\ output' = [output EXCEPT ![t] = Append(@, query[t])]
        /\ wpc' = [wpc EXCEPT ![w] = "select"]
        /\ wtask' = [wtask EXCEPT ![w] = None]
        /\ UNCHANGED <<tasksQueue, queueState, workQueue, runPc, runTask, query,
                       client, received, expired, ctxDone, panicked>>
    BY <1>0 DEF SendResult, WorkerGoto, HoldsTask, queueVars, runVars, clientVars
  <1>2. /\ wpc'[w] = "select" /\ wtask'[w] = None
        /\ \A v \in Worker \ {w} : wpc'[v] = wpc[v] /\ wtask'[v] = wtask[v]
        /\ \A u \in Task \ {t} : output'[u] = output[u]
        /\ wpc' \in [Worker -> WorkerPc] /\ wtask' \in [Worker -> Task \cup {None}]
        /\ output' \in [Task -> Seq(Result)]
    BY <1>1, SendLemma DEF TypeOK, WorkerPc
  <1>3. TypeOK'
    BY <1>1, <1>2 DEF TypeOK
  <1>4. HoldsTask'
    BY <1>1, <1>2 DEF HoldsTask, Busy
  <1>5. OnePlace'
    BY <1>1, <1>2
       DEF OnePlace, Busy, WithWorker, WithRun, InTasksQueue, InWorkQueue
  <1>6. /\ ~ InCollector(t)' /\ client'[t] # "idle"
    BY <1>1, <1>2
       DEF OnePlace, InCollector, Busy, WithWorker, WithRun, InTasksQueue,
           InWorkQueue
  <1>7. Unanswered'
    BY <1>1, <1>2, <1>6
       DEF Unanswered, InCollector, Answered, Busy, WithWorker, WithRun,
           InTasksQueue, InWorkQueue
  <1>8. QueuesAreRouted' /\ PoolIsolation'
    BY <1>1, <1>2 DEF QueuesAreRouted, InWorkQueue, PoolIsolation, Busy
  <1>9. StopOrder'
    BY <1>0, <1>1, <1>2, PoolLemma DEF StopOrder, AllFree, Pool
  <1>10. QueryIsWatched'
    BY <1>0, <1>1, <1>2 DEF QueryIsWatched, Cancelled
  <1>11. LeavesForAReason'
    BY <1>1 DEF LeavesForAReason, Cancelled, OutputClosed
  <1> QED
    BY <1>3, <1>4, <1>5, <1>7, <1>8, <1>9, <1>10, <1>11

(* A client moves without touching the collector. *)
LEMMA ClientMoveStep ==
    ASSUME Inductive, NEW t \in Task,
           \/ AddTaskInactive(t) \/ AddTask(t) \/ AddTaskPanic(t)
           \/ AddTaskGivesUp(t) \/ TakeResult(t) \/ GiveUp(t) \/ Unwind(t)
           \/ Expire(t)
    PROVE  Inductive'
  <1> USE DEF Inductive
  <1>1. /\ UNCHANGED <<tasksQueue, queueState, workQueue, runPc, runTask, wpc,
                       wtask, query, ctxDone, panicked>>
        /\ \A u \in Task \ {t} : /\ client'[u] = client[u] /\ output'[u] = output[u]
                                 /\ received'[u] = received[u]
        /\ Cancelled(t) => Cancelled(t)'
    BY DEF AddTaskInactive, AddTask, AddTaskPanic, AddTaskGivesUp, TakeResult,
           GiveUp, Unwind, Expire, queueVars, runVars, workerVars, TypeOK,
           Cancelled
  <1>2. /\ client'[t] # "idle"
        /\ client'[t] = "adding" =>
              /\ client[t] \in {"idle", "adding"}
              /\ output'[t] = output[t] /\ received'[t] = received[t]
        /\ \/ client[t] = "idle" /\ client'[t] = "waiting"
           \/ client[t] = "waiting" /\ output[t] # <<>>
           \/ output'[t] = output[t] /\ received'[t] = received[t]
    BY DEF AddTaskInactive, AddTask, AddTaskPanic, AddTaskGivesUp, TakeResult,
           GiveUp, Unwind, Expire, TypeOK
  <1>3. TypeOK'
    <2>1. CASE AddTaskInactive(t)
      BY <2>1, SendLemma
         DEF AddTaskInactive, queueVars, runVars, workerVars, Result, TypeOK, ClientPc
    <2>2. CASE TakeResult(t)
      BY <2>2, ReceiveLemma
         DEF TakeResult, queueVars, runVars, workerVars, TypeOK, ClientPc
    <2>3. CASE ~ AddTaskInactive(t) /\ ~ TakeResult(t)
      BY <2>3 DEF AddTask, AddTaskPanic, AddTaskGivesUp, GiveUp, Unwind, Expire,
                  queueVars, runVars, workerVars, TypeOK, ClientPc
    <2> QED
      BY <2>1, <2>2, <2>3
  <1>4. HoldsTask'
    BY <1>1 DEF HoldsTask, Busy
  <1>5. OnePlace'
    BY <1>1, <1>2
       DEF OnePlace, Busy, WithWorker, WithRun, InTasksQueue, InWorkQueue
  <1>6. Unanswered'
    BY <1>1, <1>2
       DEF Unanswered, OnePlace, InCollector, Answered, Busy, WithWorker, WithRun,
           InTasksQueue, InWorkQueue
  <1>7. QueuesAreRouted' /\ PoolIsolation'
    BY <1>1 DEF QueuesAreRouted, InWorkQueue, PoolIsolation, Busy
  <1>8. StopOrder'
    BY <1>1 DEF StopOrder, AllFree
  <1>9. QueryIsWatched'
    BY <1>1 DEF QueryIsWatched, Cancelled
  <1>10. LeavesForAReason'
    <2>1. CASE TakeResult(t)
      <3>1. received'[t] # None
        BY <2>1, ReceiveLemma, CollectorAssumption DEF TakeResult, TypeOK
      <3> QED
        BY <1>1, <2>1, <3>1
           DEF LeavesForAReason, Cancelled, OutputClosed, TakeResult
    <2>2. CASE AddTaskPanic(t)
      BY <1>1, <2>2 DEF LeavesForAReason, Cancelled, OutputClosed, AddTaskPanic,
                        StopOrder
    <2>3. CASE GiveUp(t) \/ Unwind(t) \/ Expire(t)
      BY <1>1, <2>3 DEF LeavesForAReason, Cancelled, OutputClosed, GiveUp,
                        Unwind, Expire
    <2>4. CASE AddTaskInactive(t) \/ AddTask(t) \/ AddTaskGivesUp(t)
      BY <1>1, <2>4 DEF LeavesForAReason, Cancelled, OutputClosed, TypeOK,
                        AddTaskInactive, AddTask, AddTaskGivesUp
    <2> QED
      BY <2>1, <2>2, <2>3, <2>4
  <1> QED
    BY <1>3, <1>4, <1>5, <1>6, <1>7, <1>8, <1>9, <1>10

(* A client sends its task to run. *)
LEMMA AddTaskSendStep ==
    ASSUME Inductive, NEW t \in Task, AddTaskSend(t)
    PROVE  Inductive'
  <1> USE DEF Inductive
  <1>1. /\ client[t] = "adding" /\ client' = [client EXCEPT ![t] = "waiting"]
        /\ tasksQueue' = Append(tasksQueue, t)
        /\ UNCHANGED <<queueState, workQueue, runPc, runTask, wpc, wtask, query,
                       output, received, expired, ctxDone, panicked>>
    BY DEF AddTaskSend, runVars, workerVars
  <1>2. /\ tasksQueue' \in Seq(Task) /\ IsInjective(tasksQueue')
        /\ Range(tasksQueue') = Range(tasksQueue) \cup {t}
    BY <1>1, SendLemma DEF TypeOK, OnePlace, InTasksQueue
  <1>3. /\ client'[t] = "waiting"
        /\ \A u \in Task \ {t} : client'[u] = client[u]
        /\ client' \in [Task -> ClientPc]
    BY <1>1 DEF TypeOK, ClientPc
  <1>4. TypeOK'
    BY <1>1, <1>2, <1>3 DEF TypeOK
  <1>5. HoldsTask'
    BY <1>1 DEF HoldsTask, Busy
  <1>6. OnePlace'
    BY <1>1, <1>2, <1>3
       DEF OnePlace, Busy, WithWorker, WithRun, InTasksQueue, InWorkQueue
  <1>7. Unanswered'
    BY <1>1, <1>2, <1>3
       DEF Unanswered, InCollector, Answered, Busy, WithWorker, WithRun,
           InTasksQueue, InWorkQueue
  <1>8. QueuesAreRouted' /\ PoolIsolation'
    BY <1>1 DEF QueuesAreRouted, InWorkQueue, PoolIsolation, Busy
  <1>9. StopOrder'
    BY <1>1 DEF StopOrder, AllFree
  <1>10. QueryIsWatched'
    BY <1>1, <1>3 DEF QueryIsWatched, Cancelled
  <1>11. LeavesForAReason'
    BY <1>1, <1>3 DEF LeavesForAReason, Cancelled, OutputClosed
  <1> QED
    BY <1>4, <1>5, <1>6, <1>7, <1>8, <1>9, <1>10, <1>11

(* A query ends, or one of the contexts does. *)
LEMMA EnvironmentStep ==
    ASSUME Inductive,
           StopJobs \/ StopCollector \/ \E t \in Task : QueryDatabase(t)
    PROVE  Inductive'
  <1> USE DEF Inductive
  <1>1. UNCHANGED <<tasksQueue, queueState, workQueue, runPc, runTask, wpc, wtask,
                    output, client, received, panicked>>
    BY DEF StopJobs, StopCollector, QueryDatabase, queueVars, runVars,
           workerVars, clientVars
  <1>2. /\ expired' \in SUBSET Task
        /\ ctxDone => ctxDone'
        /\ \/ query' = query
           \/ \E t \in Task : /\ query[t] = "running"
                              /\ \E r \in Result : query' = [query EXCEPT ![t] = r]
    BY CollectorAssumption
       DEF StopJobs, StopCollector, QueryDatabase, Result, TypeOK,
           queueVars, runVars, workerVars, clientVars
  <1>3. /\ query' \in [Task -> {"none", "running"} \cup Result]
        /\ \A t \in Task : /\ query[t] \in Result => query'[t] \in Result
                           /\ query'[t] = "running" => query[t] = "running"
    BY <1>2 DEF TypeOK, Result
  <1>4. TypeOK'
    BY <1>1, <1>2, <1>3
       DEF TypeOK, StopJobs, StopCollector, QueryDatabase, clientVars
  <1>5. HoldsTask'
    BY <1>1, <1>3 DEF HoldsTask, Busy
  <1>6. OnePlace'
    BY <1>1 DEF OnePlace, Busy, WithWorker, WithRun, InTasksQueue, InWorkQueue
  <1>7. Unanswered'
    BY <1>1
       DEF Unanswered, InCollector, Answered, Busy, WithWorker, WithRun,
           InTasksQueue, InWorkQueue
  <1>8. QueuesAreRouted' /\ PoolIsolation'
    BY <1>1 DEF QueuesAreRouted, InWorkQueue, PoolIsolation, Busy
  <1>9. StopOrder'
    BY <1>1, <1>2 DEF StopOrder, AllFree
  <1>10. QueryIsWatched'
    BY <1>1, <1>2, <1>3 DEF QueryIsWatched, Cancelled
  <1>11. LeavesForAReason'
    BY <1>1, <1>2 DEF LeavesForAReason, Cancelled, OutputClosed, StopJobs,
                      StopCollector, QueryDatabase, clientVars
  <1> QED
    BY <1>4, <1>5, <1>6, <1>7, <1>8, <1>9, <1>10, <1>11

--------------------------------------------------------------------------------
(* The invariant and what follows from it.                                   *)

LEMMA InitInductive == Init => Inductive
  <1> SUFFICES ASSUME Init
               PROVE  Inductive
    OBVIOUS
  <1> USE DEF Init
  <1>1. TypeOK
    BY EmptySeq DEF TypeOK, Pool, RunPc, WorkerPc, ClientPc
  <1>2. \A w \in Worker : ~ Busy(w)
    BY DEF Busy
  <1>3. /\ Range(tasksQueue) = {} /\ IsInjective(tasksQueue)
        /\ \A p \in Pool : Range(workQueue[p]) = {} /\ IsInjective(workQueue[p])
    BY DEF Range, IsInjective
  <1>4. HoldsTask /\ StopOrder
    BY <1>2 DEF HoldsTask, StopOrder, Busy
  <1>5. OnePlace
    BY <1>2, <1>3 DEF OnePlace, WithWorker, WithRun, InTasksQueue, InWorkQueue
  <1>6. Unanswered /\ QueryIsWatched /\ LeavesForAReason
    BY DEF Unanswered, Answered, QueryIsWatched, LeavesForAReason, Cancelled,
           OutputClosed
  <1>7. QueuesAreRouted /\ PoolIsolation
    BY <1>2, <1>3 DEF QueuesAreRouted, PoolIsolation, InWorkQueue
  <1> QED
    BY <1>1, <1>4, <1>5, <1>6, <1>7 DEF Inductive

LEMMA StutterStep ==
    ASSUME Inductive, UNCHANGED vars
    PROVE  Inductive'
  BY DEF vars, queueVars, runVars, workerVars, clientVars, Inductive, TypeOK,
         HoldsTask, OnePlace, Unanswered, QueuesAreRouted, PoolIsolation,
         StopOrder, QueryIsWatched, LeavesForAReason, Busy, InCollector, InTasksQueue, WithRun,
         InWorkQueue, WithWorker, Answered, Cancelled, OutputClosed, AllFree

LEMMA NextInductive == Inductive /\ [Next]_vars => Inductive'
  <1> SUFFICES ASSUME Inductive, [Next]_vars
               PROVE  Inductive'
    OBVIOUS
  <1>1. CASE Run
    BY <1>1, RunStep, RunReceiveStep, RunSendStep, RunSpawnStep DEF Run
  <1>2. ASSUME NEW w \in Worker, WorkerStep(w) \/ WorkerTimeout(w)
        PROVE  Inductive'
    BY <1>2, WorkerTakeStep, WorkerLeaveStep, WorkerGoOnStep, SendResultStep
       DEF WorkerStep
  <1>3. ASSUME NEW t \in Task, ClientStep(t)
        PROVE  Inductive'
    BY <1>3, ClientMoveStep, AddTaskSendStep DEF ClientStep
  <1>4. ASSUME \/ StopJobs \/ StopCollector
               \/ \E t \in Task : QueryDatabase(t)
        PROVE  Inductive'
    BY <1>4, EnvironmentStep
  <1>5. CASE UNCHANGED vars
    BY <1>5, StutterStep
  <1> QED
    BY <1>1, <1>2, <1>3, <1>4, <1>5 DEF Next

LEMMA CollectorInductive == Spec => []Inductive
  BY InitInductive, NextInductive, PTL DEF Spec

(* Every variable of the collector keeps its type.  The parts of it that    *)
(* are not trivial: what a worker sends is a result of its own query, and   *)
(* what run and the workers hold is a task.                                 *)
THEOREM CollectorTypeOK == Spec => []TypeOK
  <1>1. Inductive => TypeOK
    BY DEF Inductive
  <1> QED
    BY <1>1, CollectorInductive, PTL

(* However many workers compete for the queues, none of the hand-overs      *)
(* between addTask, run and worker duplicates a task.                       *)
THEOREM CollectorOnePlace == Spec => []OnePlace
  <1>1. Inductive => OnePlace
    BY DEF Inductive
  <1> QED
    BY <1>1, CollectorInductive, PTL

(* A worker that sends a result (task.Output <- r) finds the slot of the     *)
(* task free: no task is answered twice, by workers or by addTask.          *)
THEOREM CollectorReplyHasRoom == Spec => []ReplyHasRoom
  <1>1. Inductive => ReplyHasRoom
    <2> SUFFICES ASSUME Inductive, NEW w \in Worker, wpc[w] = "reply"
                 PROVE  output[wtask[w]] = <<>> /\ received[wtask[w]] = None
      BY DEF ReplyHasRoom
    <2>1. WithWorker(w, wtask[w]) /\ wtask[w] \in Task
      BY DEF Inductive, HoldsTask, WithWorker, Busy
    <2> QED
      BY <2>1 DEF Inductive, Unanswered, InCollector, Answered
  <1> QED
    BY <1>1, CollectorInductive, PTL

(* Jobs never occupy a standard worker of a database with background        *)
(* workers, whatever the sizes of the two pools.                            *)
THEOREM CollectorPoolIsolation == Spec => []PoolIsolation
  <1>1. Inductive => PoolIsolation
    BY DEF Inductive
  <1> QED
    BY <1>1, CollectorInductive, PTL

(* A worker leaves its query only when the query has ended, its client has  *)
(* gone or the collector stops.                                             *)
THEOREM CollectorQueryIsWatched == Spec => []QueryIsWatched
  <1>1. Inductive => QueryIsWatched
    BY DEF Inductive
  <1> QED
    BY <1>1, CollectorInductive, PTL

(* When run has returned, its context was done and no worker is left. *)
THEOREM CollectorExitIsQuiet == Spec => []ExitIsQuiet
  <1>1. Inductive => ExitIsQuiet
    BY PoolLemma DEF Inductive, StopOrder, ExitIsQuiet, AllFree, Pool
  <1> QED
    BY <1>1, CollectorInductive, PTL

(* A run that blocks on a full queue without a worker stays so, whatever    *)
(* else happens: only run spawns workers (collector.go:122,125), so that    *)
(* neither a stop of the collector nor a reload that waits for it ends.     *)
THEOREM CollectorStuckForGood == Spec => [](DispatcherStuck => []DispatcherStuck)
  <1>1. ASSUME Inductive, DispatcherStuck, [Next]_vars
        PROVE  DispatcherStuck'
    <2> DEFINE q == QueueFor(runTask)
    <2>1. /\ runPc = "send" /\ runTask \in Task /\ q \in Pool
          /\ Len(workQueue[q]) = QueueSize
          /\ \A w \in WorkersOf(q) : w \in Worker /\ PoolOf(w) = q /\ wpc[w] = "free"
      BY <1>1, PoolLemma DEF DispatcherStuck, AllFree, Inductive, HoldsTask
    <2> SUFFICES /\ runPc' = runPc /\ runTask' = runTask
                 /\ workQueue'[q] = workQueue[q]
                 /\ \A w \in WorkersOf(q) : wpc'[w] = "free"
      BY <2>1 DEF DispatcherStuck, AllFree
    <2>2. CASE Run
      BY <1>1, <2>1, <2>2, CollectorAssumption
         DEF Run, RunStart, RunReceive, RunSend, RunSpawn, RunStop, RunWaitBg, RunWaitStd
    <2>3. ASSUME NEW w \in Worker, WorkerStep(w) \/ WorkerTimeout(w)
          PROVE  /\ UNCHANGED <<runPc, runTask>>
                 /\ workQueue'[q] = workQueue[q]
                 /\ \A v \in WorkersOf(q) : wpc'[v] = "free"
      <3>1. w \notin WorkersOf(q)
        BY <2>1, <2>3
           DEF WorkerStep, WorkerTimeout, WorkerTake, WorkerStop, WorkerExit, CheckTask,
               AbandonTask, ReceiveResult, SendResult, SendPanics
      <3>2. PoolOf(w) # q
        BY <3>1, PoolLemma
      <3>3. wpc \in [Worker -> WorkerPc] /\ workQueue \in [Pool -> Seq(Task)]
        BY <1>1 DEF Inductive, TypeOK
      <3> QED
        BY <2>1, <2>3, <3>1, <3>2, <3>3
           DEF WorkerStep, WorkerTimeout, WorkerTake, WorkerStop, WorkerExit, CheckTask,
               AbandonTask, ReceiveResult, SendResult, SendPanics, WorkerGoto, queueVars,
               runVars
    <2>4. CASE \E t \in Task : ClientStep(t) \/ QueryDatabase(t)
      BY <2>1, <2>4
         DEF ClientStep, AddTaskInactive, AddTask, AddTaskSend, AddTaskPanic,
             AddTaskGivesUp, TakeResult, GiveUp, Unwind, Expire, QueryDatabase,
             queueVars, runVars, workerVars
    <2>5. CASE StopJobs \/ StopCollector \/ UNCHANGED vars
      BY <2>1, <2>5 DEF StopJobs, StopCollector, vars, queueVars, runVars, workerVars
    <2> QED
      BY <1>1, <2>2, <2>3, <2>4, <2>5 DEF Next
  <1> QED
    BY <1>1, CollectorInductive, PTL DEF Spec

--------------------------------------------------------------------------------
(* The collector implements TaskService.                                     *)

LEMMA RefinesInit == Init => Service!Init
  <1> SUFFICES ASSUME Init
               PROVE  Service!Init
    OBVIOUS
  <1>1. \A t \in Task : StateOf(t) = "new"
    BY DEF StateOf, Init
  <1> QED
    BY <1>1 DEF Init, Service!Init

(* A step that moves no task in or out of the collector is a stutter. *)
LEMMA SameStates ==
    ASSUME UNCHANGED <<client, output, received, expired, ctxDone>>,
           \A t \in Task : InCollector(t)' <=> InCollector(t)
    PROVE  UNCHANGED Service!serviceVars
  <1>1. \A t \in Task : StateOf(t)' = StateOf(t)
    BY DEF StateOf, Answered
  <1> QED
    BY <1>1 DEF Service!serviceVars

(* run and the workers pass tasks on. *)
LEMMA PassOnRefines ==
    ASSUME Inductive,
           \/ RunStart \/ RunStop \/ RunWaitBg \/ RunWaitStd
           \/ RunReceive \/ RunSend \/ RunSpawn
           \/ \E w \in Worker : WorkerTake(w) \/ ReceiveResult(w)
           \/ \E t \in Task : QueryDatabase(t)
    PROVE  UNCHANGED Service!serviceVars
  <1> USE DEF Inductive
  <1>1. UNCHANGED <<client, output, received, expired, ctxDone>>
    BY DEF RunStart, RunStop, RunWaitBg, RunWaitStd, RunReceive, RunSend,
           RunSpawn, WorkerTake, ReceiveResult, QueryDatabase, clientVars
  <1> USE DEF InCollector, InTasksQueue, InWorkQueue, WithRun, WithWorker, Busy
  <1>2. CASE RunStart \/ RunStop \/ RunWaitBg \/ RunWaitStd
    <2>1. \A t \in Task : InCollector(t)' <=> InCollector(t)
      BY <1>1, <1>2 DEF RunStart, RunStop, RunWaitBg, RunWaitStd, queueVars,
                        workerVars
    <2> QED
      BY <1>1, <2>1, SameStates
  <1>3. CASE RunReceive
    <2>1. Range(tasksQueue) = {runTask'} \cup Range(tasksQueue')
      BY <1>3, ReceiveLemma DEF RunReceive, TypeOK
    <2>2. \A t \in Task : InCollector(t)' <=> InCollector(t)
      BY <1>1, <1>3, <2>1 DEF RunReceive, workerVars
    <2> QED
      BY <1>1, <2>2, SameStates
  <1>4. CASE RunSend
    <2>1. /\ workQueue[QueueFor(runTask)] \in Seq(Task) /\ runTask \in Task
          /\ QueueFor(runTask) \in Pool
      BY <1>4, PoolLemma DEF RunSend, TypeOK, HoldsTask
    <2>2. /\ Range(workQueue'[QueueFor(runTask)]) =
               Range(workQueue[QueueFor(runTask)]) \cup {runTask}
          /\ \A p \in Pool \ {QueueFor(runTask)} : workQueue'[p] = workQueue[p]
      BY <1>4, <2>1, SendLemma DEF RunSend, TypeOK
    <2>3. \A t \in Task : InCollector(t)' <=> InCollector(t)
      BY <1>1, <1>4, <2>1, <2>2 DEF RunSend, workerVars
    <2> QED
      BY <1>1, <2>3, SameStates
  <1>5. CASE RunSpawn
    <2>1. \A w \in Worker : Busy(w)' <=> Busy(w)
      BY <1>5, PoolLemma DEF RunSpawn, TypeOK
    <2>2. \A t \in Task : InCollector(t)' <=> InCollector(t)
      BY <1>1, <1>5, <2>1 DEF RunSpawn, queueVars
    <2> QED
      BY <1>1, <2>2, SameStates
  <1>6. ASSUME NEW w \in Worker, WorkerTake(w)
        PROVE  UNCHANGED Service!serviceVars
    <2> DEFINE p == PoolOf(w)
    <2>1. workQueue[p] \in Seq(Task) /\ workQueue[p] # <<>> /\ p \in Pool
      BY <1>6, PoolLemma DEF WorkerTake, TypeOK
    <2>2. /\ wpc'[w] = "check" /\ wpc[w] = "select"
          /\ \A v \in Worker \ {w} : wpc'[v] = wpc[v] /\ wtask'[v] = wtask[v]
          /\ Range(workQueue[p]) = {wtask'[w]} \cup Range(workQueue'[p])
          /\ \A q \in Pool \ {p} : workQueue'[q] = workQueue[q]
      BY <1>6, <2>1, ReceiveLemma DEF WorkerTake, WorkerGoto, TypeOK
    <2> HIDE DEF p
    <2>3. \A t \in Task : InCollector(t)' <=> InCollector(t)
      BY <1>1, <1>6, <2>1, <2>2 DEF WorkerTake, runVars
    <2> QED
      BY <1>1, <2>3, SameStates
  <1>7. ASSUME NEW w \in Worker, ReceiveResult(w)
        PROVE  UNCHANGED Service!serviceVars
    <2>1. \A v \in Worker : (Busy(v)' <=> Busy(v)) /\ wtask'[v] = wtask[v]
      BY <1>7 DEF ReceiveResult, WorkerGoto, TypeOK
    <2>2. \A t \in Task : InCollector(t)' <=> InCollector(t)
      BY <1>1, <1>7, <2>1 DEF ReceiveResult, queueVars, runVars
    <2> QED
      BY <1>1, <2>2, SameStates
  <1>8. ASSUME NEW t \in Task, QueryDatabase(t)
        PROVE  UNCHANGED Service!serviceVars
    <2>1. \A u \in Task : InCollector(u)' <=> InCollector(u)
      BY <1>1, <1>8 DEF QueryDatabase, queueVars, runVars, workerVars
    <2> QED
      BY <1>1, <2>1, SameStates
  <1> QED
    BY <1>2, <1>3, <1>4, <1>5, <1>6, <1>7, <1>8

(* The state of one task changes. *)
LEMMA OneState ==
    ASSUME NEW t \in Task, NEW x, StateOf(t)' = x,
           \A u \in Task \ {t} : StateOf(u)' = StateOf(u)
    PROVE  [u \in Task |-> StateOf(u)]' = [[u \in Task |-> StateOf(u)] EXCEPT ![t] = x]
  OBVIOUS

(* A worker that puts a task down has a reason to. *)
LEMMA LeaveRefines ==
    ASSUME Inductive, NEW w \in Worker,
           \/ WorkerStop(w) \/ WorkerTimeout(w) \/ WorkerExit(w)
           \/ AbandonTask(w) \/ SendPanics(w) \/ CheckTask(w)
    PROVE  Service!Next \/ UNCHANGED Service!serviceVars
  <1> USE DEF Inductive
  <1>1. /\ UNCHANGED <<client, output, received, expired, ctxDone>>
        /\ UNCHANGED <<tasksQueue, workQueue, runPc, runTask>>
    BY DEF WorkerStop, WorkerTimeout, WorkerExit, AbandonTask, SendPanics,
           CheckTask, queueVars, runVars, clientVars
  <1>2. /\ \A v \in Worker \ {w} : wpc'[v] = wpc[v] /\ wtask'[v] = wtask[v]
        /\ \/ ~ Busy(w) /\ ~ Busy(w)'
           \/ Busy(w) /\ Busy(w)' /\ wtask'[w] = wtask[w]
           \/ /\ Busy(w) /\ ~ Busy(w)'
              /\ Cancelled(wtask[w]) \/ OutputClosed(wtask[w]) \/ ctxDone
    BY DEF WorkerStop, WorkerTimeout, WorkerExit, AbandonTask, SendPanics,
           CheckTask, WorkerGoto, Busy, TypeOK
  <1>3. CASE Busy(w)' <=> Busy(w)
    <2>1. \A t \in Task : InCollector(t)' <=> InCollector(t)
      BY <1>1, <1>2, <1>3
         DEF InCollector, InTasksQueue, InWorkQueue, WithRun, WithWorker, Busy
    <2> QED
      BY <1>1, <2>1, SameStates
  <1>4. CASE Busy(w) /\ ~ Busy(w)'
    <2>1. PICK t \in Task : t = wtask[w]
      BY <1>4 DEF HoldsTask
    <2>2. WithWorker(w, t) /\ InCollector(t) /\ client[t] # "idle" /\ ~ Answered(t)
      BY <1>4, <2>1 DEF WithWorker, InCollector, OnePlace, Unanswered
    <2>3. \A v \in Worker : WithWorker(v, t) => v = w
      BY <1>4, <2>1, <2>2 DEF WithWorker, OnePlace
    <2>4. ~ InCollector(t)'
      BY <1>1, <1>2, <1>4, <2>2, <2>3
         DEF InCollector, OnePlace, InTasksQueue, InWorkQueue, WithRun, WithWorker,
             Busy
    <2>5. \A u \in Task \ {t} : InCollector(u)' <=> InCollector(u)
      BY <1>1, <1>2, <1>4, <2>1
         DEF InCollector, InTasksQueue, InWorkQueue, WithRun, WithWorker, Busy
    <2>6. StateOf(t) = "pending" /\ StateOf(t)' = "dropped"
      BY <1>1, <2>2, <2>4 DEF StateOf, Answered
    <2>7. \A u \in Task \ {t} : StateOf(u)' = StateOf(u)
      BY <1>1, <2>5 DEF StateOf, Answered
    <2>8. t \in expired \/ ctxDone
      BY <1>2, <1>4, <2>1, <2>2 DEF LeavesForAReason, Answered
    <2>9. Service!Drop(t)
      BY <1>1, <2>6, <2>7, <2>8, OneState DEF Service!Drop
    <2> QED
      BY <2>9 DEF Service!Next
  <1> QED
    BY <1>2, <1>3, <1>4

LEMMA SendResultRefines ==
    ASSUME Inductive, NEW w \in Worker, SendResult(w)
    PROVE  Service!Next
  <1> USE DEF Inductive
  <1>1. Busy(w) /\ wtask[w] \in Task /\ query[wtask[w]] \in Result
    BY DEF SendResult, Busy, HoldsTask
  <1>2. PICK t \in Task : t = wtask[w]
    BY <1>1
  <1>3. /\ UNCHANGED <<client, received, expired, ctxDone>>
        /\ UNCHANGED <<tasksQueue, workQueue, runPc, runTask>>
        /\ ~ Busy(w)' /\ output'[t] # <<>>
        /\ \A v \in Worker \ {w} : wpc'[v] = wpc[v] /\ wtask'[v] = wtask[v]
        /\ \A u \in Task \ {t} : output'[u] = output[u]
    BY <1>1, <1>2, AppendProperties
       DEF SendResult, WorkerGoto, Busy, TypeOK, queueVars, runVars, clientVars
  <1>4. WithWorker(w, t) /\ InCollector(t) /\ client[t] # "idle" /\ ~ Answered(t)
    BY <1>1, <1>2 DEF WithWorker, InCollector, OnePlace, Unanswered
  <1>5. \A u \in Task \ {t} : InCollector(u)' <=> InCollector(u)
    BY <1>1, <1>2, <1>3
       DEF InCollector, InTasksQueue, InWorkQueue, WithRun, WithWorker, Busy
  <1>6. StateOf(t) = "pending" /\ StateOf(t)' = "answered"
    BY <1>3, <1>4 DEF StateOf, Answered
  <1>7. \A u \in Task \ {t} : StateOf(u)' = StateOf(u)
    BY <1>3, <1>5 DEF StateOf, Answered
  <1>8. Service!Answer(t)
    BY <1>3, <1>6, <1>7, OneState DEF Service!Answer
  <1> QED
    BY <1>8 DEF Service!Next

LEMMA ClientRefines ==
    ASSUME Inductive, NEW t \in Task, ClientStep(t)
    PROVE  Service!Next \/ UNCHANGED Service!serviceVars
  <1> USE DEF Inductive
  <1>1. /\ UNCHANGED <<workQueue, runPc, runTask, wpc, wtask, ctxDone>>
        /\ \A u \in Task \ {t} : /\ client'[u] = client[u] /\ output'[u] = output[u]
                                 /\ received'[u] = received[u]
    BY DEF ClientStep, AddTaskInactive, AddTask, AddTaskSend, AddTaskPanic,
           AddTaskGivesUp, TakeResult, GiveUp, Unwind, Expire, queueVars,
           runVars, workerVars, TypeOK
  <1>2. tasksQueue' = tasksQueue =>
            \A u \in Task :
                /\ client'[u] # "adding" /\ client[u] # "adding" =>
                     (InCollector(u)' <=> InCollector(u))
                /\ u # t => (InCollector(u)' <=> InCollector(u))
    BY <1>1
       DEF InCollector, InTasksQueue, InWorkQueue, WithRun, WithWorker, Busy
  <1>3. tasksQueue' = tasksQueue => \A u \in Task \ {t} : StateOf(u)' = StateOf(u)
    BY <1>1, <1>2 DEF StateOf, Answered
  <1>4. CASE AddTaskInactive(t)
    <2>0. client[t] = "idle" /\ client'[t] = "waiting" /\ output'[t] # <<>>
      BY <1>4, AppendProperties DEF AddTaskInactive, TypeOK, Result
    <2>1. StateOf(t) = "new" /\ StateOf(t)' = "answered"
      BY <2>0 DEF StateOf, Answered
    <2>2. tasksQueue' = tasksQueue /\ expired' = expired
      BY <1>4 DEF AddTaskInactive, queueVars
    <2>3. Service!Refuse(t)
      BY <1>1, <1>3, <2>1, <2>2, OneState DEF Service!Refuse
    <2> QED
      BY <2>3 DEF Service!Next
  <1>5. CASE AddTask(t)
    <2>1. StateOf(t) = "new" /\ StateOf(t)' = "pending"
      BY <1>5 DEF AddTask, StateOf, Answered, TypeOK, InCollector, Unanswered
    <2>2. tasksQueue' = tasksQueue /\ expired' = expired
      BY <1>5 DEF AddTask, queueVars
    <2>3. Service!Submit(t)
      BY <1>1, <1>3, <2>1, <2>2, OneState DEF Service!Submit
    <2> QED
      BY <2>3 DEF Service!Next
  <1>6. CASE AddTaskSend(t)
    <2>1. Range(tasksQueue') = Range(tasksQueue) \cup {t}
      BY <1>6, SendLemma DEF AddTaskSend, TypeOK
    <2>2. \A u \in Task : InCollector(u)' <=> InCollector(u)
      BY <1>1, <1>6, <2>1
         DEF AddTaskSend, TypeOK, InCollector, InTasksQueue, InWorkQueue, WithRun,
             WithWorker, Busy
    <2>3. \A u \in Task : StateOf(u)' = StateOf(u)
      BY <1>6, <2>2 DEF AddTaskSend, StateOf, Answered, TypeOK
    <2> QED
      BY <1>1, <1>6, <2>3 DEF Service!serviceVars, AddTaskSend
  <1>7. CASE AddTaskPanic(t) \/ AddTaskGivesUp(t)
    <2>1. /\ client[t] = "adding" /\ client'[t] \in {"waiting", "panicked"}
          /\ t \in expired \/ ctxDone
          /\ UNCHANGED <<output, received>>
      BY <1>7 DEF AddTaskPanic, AddTaskGivesUp, TypeOK, StopOrder, Cancelled
    <2>2. ~ InCollector(t)' /\ ~ Answered(t) /\ InCollector(t)
      BY <1>1, <1>7, <2>1
         DEF InCollector, OnePlace, Unanswered, InTasksQueue, InWorkQueue,
             WithRun, WithWorker, Busy, AddTaskPanic, AddTaskGivesUp, queueVars
    <2>3. StateOf(t) = "pending" /\ StateOf(t)' = "dropped"
      <3>1. client[t] # "idle" /\ client'[t] # "idle" /\ ~ Answered(t)'
        BY <2>1, <2>2 DEF Answered
      <3> QED
        BY <2>2, <3>1 DEF StateOf
    <2>4. tasksQueue' = tasksQueue /\ expired' = expired
      BY <1>7 DEF AddTaskPanic, AddTaskGivesUp, queueVars
    <2>5. Service!Drop(t)
      BY <1>1, <1>3, <2>1, <2>3, <2>4, OneState DEF Service!Drop
    <2> QED
      BY <2>5 DEF Service!Next
  <1>8. CASE TakeResult(t) \/ GiveUp(t) \/ Unwind(t)
    <2>1. /\ client[t] \in {"waiting", "unwinding"}
          /\ client'[t] \in {"unwinding", "done"}
          /\ Answered(t)' <=> Answered(t)
          /\ tasksQueue' = tasksQueue /\ expired' = expired
      <3>1. CASE TakeResult(t)
        BY <3>1, ReceiveLemma, CollectorAssumption
           DEF TakeResult, TypeOK, Answered, queueVars
      <3>2. CASE GiveUp(t) \/ Unwind(t)
        BY <3>2 DEF GiveUp, Unwind, TypeOK, Answered, queueVars
      <3> QED
        BY <1>8, <3>1, <3>2
    <2>2. \A u \in Task : StateOf(u)' = StateOf(u)
      BY <1>2, <1>3, <2>1 DEF StateOf
    <2> QED
      BY <1>1, <2>1, <2>2 DEF Service!serviceVars
  <1>9. CASE Expire(t)
    <2>1. \A u \in Task : InCollector(u)' <=> InCollector(u)
      BY <1>1, <1>9
         DEF Expire, InCollector, InTasksQueue, InWorkQueue, WithRun, WithWorker,
             Busy, queueVars
    <2>2. \A u \in Task : StateOf(u)' = StateOf(u)
      BY <1>9, <2>1 DEF Expire, StateOf, Answered
    <2>3. Service!Withdraw
      BY <1>1, <1>9, <2>2 DEF Expire, Service!Withdraw
    <2> QED
      BY <2>3 DEF Service!Next
  <1> QED
    BY <1>4, <1>5, <1>6, <1>7, <1>8, <1>9 DEF ClientStep

LEMMA ContextRefines ==
    ASSUME StopJobs \/ StopCollector
    PROVE  Service!Next
  <1>1. UNCHANGED <<tasksQueue, workQueue, runPc, runTask, wpc, wtask, client,
                    output, received>>
    BY DEF StopJobs, StopCollector, queueVars, runVars, workerVars, clientVars
  <1>2. \A u \in Task : StateOf(u)' = StateOf(u)
    BY <1>1
       DEF StateOf, Answered, InCollector, InTasksQueue, InWorkQueue, WithRun,
           WithWorker, Busy
  <1>3. CASE StopJobs
    <2>1. Service!Withdraw
      BY <1>2, <1>3, CollectorAssumption DEF StopJobs, Service!Withdraw
    <2> QED
      BY <2>1 DEF Service!Next
  <1>4. CASE StopCollector
    <2>1. Service!Stop
      BY <1>2, <1>4 DEF StopCollector, Service!Stop, clientVars
    <2> QED
      BY <2>1 DEF Service!Next
  <1> QED
    BY <1>3, <1>4

(* Every step of the collector is a step of the service it promises, or     *)
(* none: queues, workers, timers and panics never lose a task without a     *)
(* reason, nor answer one twice.                                            *)
THEOREM CollectorImplementsService == Spec => ImplementsService
  <1>1. Inductive /\ [Next]_vars => [Service!Next]_(Service!serviceVars)
    <2> SUFFICES ASSUME Inductive, [Next]_vars
                 PROVE  Service!Next \/ UNCHANGED Service!serviceVars
      OBVIOUS
    <2>1. CASE Run
      BY <2>1, PassOnRefines DEF Run
    <2>2. ASSUME NEW w \in Worker, WorkerStep(w) \/ WorkerTimeout(w)
          PROVE  Service!Next \/ UNCHANGED Service!serviceVars
      BY <2>2, PassOnRefines, LeaveRefines, SendResultRefines DEF WorkerStep
    <2>3. ASSUME NEW t \in Task, ClientStep(t)
          PROVE  Service!Next \/ UNCHANGED Service!serviceVars
      BY <2>3, ClientRefines
    <2>4. ASSUME NEW t \in Task, QueryDatabase(t)
          PROVE  UNCHANGED Service!serviceVars
      BY <2>4, PassOnRefines
    <2>5. CASE StopJobs \/ StopCollector
      BY <2>5, ContextRefines
    <2>6. CASE UNCHANGED vars
      <3>1. UNCHANGED <<client, output, received, expired, ctxDone>>
        BY <2>6 DEF vars, clientVars
      <3>2. \A t \in Task : InCollector(t)' <=> InCollector(t)
        BY <2>6 DEF vars, queueVars, runVars, workerVars, clientVars, InCollector,
                    InTasksQueue, InWorkQueue, WithRun, WithWorker, Busy
      <3> QED
        BY <3>1, <3>2, SameStates
    <2> QED
      BY <2>1, <2>2, <2>3, <2>4, <2>5, <2>6 DEF Next
  <1> QED
    BY <1>1, RefinesInit, CollectorInductive, PTL
       DEF Spec, ImplementsService, Service!Spec
================================================================================
