---------------------------------- MODULE Reload ----------------------------------
(***************************************************************************)
(* Start, reload and shutdown of the exporter (cli/main.go): on SIGHUP     *)
(* confHandler loads the configuration and sends it, over channels without *)
(* a buffer, to Collectors.Run, to the goroutine of the web handler and to *)
(* the scheduler, one after the other.  run.Group starts everybody; when   *)
(* one of them returns it interrupts all in the order they were added, and *)
(* waits for all.  The scheduler is Scheduler.tla, with all its jobs.       *)
(*                                                                         *)
(* The requests and the workers of the collectors are not here: a panic of  *)
(* a worker, and a run that is blocked on a full work queue so that         *)
(* group.Wait never returns, may come at any time (Collector.tla says when   *)
(* they do).  The cache has the results of jobs only.                       *)
(***************************************************************************)
EXTENDS Scheduler

VARIABLES
    hup,                \* a SIGHUP is in hupCh, which has room for one
    confPc,             \* where confHandler.start is: the channel it sends to
    confCfg,            \* the configuration it loaded last
    closed,             \* confHandler.stop has closed all the channels
    collPc,             \* where Collectors.Run is
    collCfg,            \* the configuration of the running collectors
    collNext,           \* the configuration it received
    collThen,           \* where it goes after its function stop
    workerPanicked,     \* group.Wait of the collectors has raised a panic
    handlerPc,          \* where the goroutine of startConfHandler is
    handlerCfg,         \* q.cfg of the query handler
    handlerNext,        \* the configuration it received
    groupPc,            \* where run.Group is: whom it interrupts next
    webPc,              \* where WebHandler.Run is
    crashed             \* a panic, or SIGHUP itself, has ended the process

confVars == <<hup, confPc, confCfg, closed>>
collVars == <<collPc, collCfg, collNext, collThen, workerPanicked>>
handlerVars == <<handlerPc, handlerCfg, handlerNext>>
groupVars == <<groupPc, webPc>>
reloadVars == <<confVars, collVars, handlerVars, groupVars, crashed>>
systemVars == <<vars, reloadVars>>

SystemInit ==
    /\ Init
    /\ hup = FALSE
    /\ confPc = "start"
    /\ confCfg = 0
    /\ closed = FALSE
    /\ collPc = "start"
    /\ collCfg = 0
    /\ collNext = 0
    /\ collThen = "start"
    /\ workerPanicked = FALSE
    /\ handlerPc = "idle"
    /\ handlerCfg = 0
    /\ handlerNext = 0
    /\ groupPc = "run"
    /\ webPc = "start"
    /\ crashed = FALSE

CollReceives == collPc \in {"select", "parked"}

CollStopThen(label) == collPc' = "stop" /\ collThen' = label

--------------------------------------------------------------------------------
(* confHandler.                                                              *)

(* signal.Notify.  READY was sent to systemd before. *)
Notify ==
    /\ confPc = "start"
    /\ confPc' = "idle"
    /\ UNCHANGED <<vars, hup, confCfg, closed, collVars, handlerVars, groupVars, crashed>>

(* A signal that finds the channel full is lost. *)
Hup ==
    /\ confPc # "start" /\ ~ closed /\ ~ hup
    /\ hup' = TRUE
    /\ UNCHANGED <<vars, confPc, confCfg, closed, collVars, handlerVars, groupVars, crashed>>

(* Before Notify SIGHUP ends a process; when stop has closed hupCh the      *)
(* runtime still sends to it.                                               *)
HupKills ==
    /\ confPc = "start" \/ closed
    /\ hup' = TRUE
    /\ crashed' = TRUE
    /\ UNCHANGED <<vars, confPc, confCfg, closed, collVars, handlerVars, groupVars>>

(* conf.Load fails: the old configuration is used. *)
LoadFails ==
    /\ confPc = "idle" /\ hup
    /\ hup' = FALSE
    /\ UNCHANGED <<vars, confPc, confCfg, closed, collVars, handlerVars, groupVars, crashed>>

LoadConf ==
    /\ confPc = "idle" /\ hup
    /\ confCfg < MaxVersion
    /\ hup' = FALSE
    /\ confCfg' = confCfg + 1
    /\ confPc' = "collectors"
    /\ UNCHANGED <<vars, closed, collVars, handlerVars, groupVars, crashed>>

SendCollectors ==
    /\ confPc = "collectors" /\ ~ closed
    /\ CollReceives
    /\ CollStopThen("start")
    /\ collNext' = confCfg
    /\ confPc' = "server"
    /\ UNCHANGED <<vars, hup, confCfg, closed, collCfg, workerPanicked, handlerVars,
                   groupVars, crashed>>

(* Mutant: the scheduler gets no new configuration. *)
SendServer_Forget ==
    /\ confPc = "server" /\ ~ closed
    /\ handlerPc = "idle"
    /\ handlerPc' = "update"
    /\ handlerNext' = confCfg
    /\ confPc' = "idle"
    /\ UNCHANGED <<vars, hup, confCfg, closed, collVars, handlerCfg, groupVars, crashed>>

SendServer ==
    /\ confPc = "server" /\ ~ closed
    /\ handlerPc = "idle"
    /\ handlerPc' = "update"
    /\ handlerNext' = confCfg
    /\ confPc' = "scheduler"
    /\ UNCHANGED <<vars, hup, confCfg, closed, collVars, handlerCfg, groupVars, crashed>>

SendScheduler ==
    /\ confPc = "scheduler" /\ ~ closed
    /\ Reconfigure(confCfg)
    /\ confPc' = "idle"
    /\ UNCHANGED <<hup, confCfg, closed, collVars, handlerVars, groupVars, crashed>>

(* start sends on a channel that stop has closed. *)
SendPanics ==
    /\ confPc \in {"collectors", "server", "scheduler"} /\ closed
    /\ confPc' = "exited"
    /\ crashed' = TRUE
    /\ UNCHANGED <<vars, hup, confCfg, closed, collVars, handlerVars, groupVars>>

ConfExit ==
    /\ confPc = "idle" /\ closed /\ ~ hup
    /\ confPc' = "exited"
    /\ UNCHANGED <<vars, hup, confCfg, closed, collVars, handlerVars, groupVars, crashed>>

ConfStep ==
    Notify \/ LoadConf \/ LoadFails \/ SendCollectors \/ SendServer \/ SendPanics \/ ConfExit

--------------------------------------------------------------------------------
(* Collectors.Run.                                                           *)

(* The process has just begun, or group.Wait has returned. *)
CollBegins == collPc = "start" \/ (collPc = "wait" /\ collThen = "start")

(* The collectors of the configuration start. *)
CollStart ==
    /\ CollBegins
    /\ StartCollectors
    /\ collCfg' = collNext
    /\ collPc' = "select"
    /\ UNCHANGED <<confVars, collNext, collThen, workerPanicked, handlerVars, groupVars,
                   crashed>>

(* ErrNoDatabases: Run returns. *)
CollNoDatabases ==
    /\ CollBegins
    /\ collPc' = "exited"
    /\ UNCHANGED <<vars, confVars, collCfg, collNext, collThen, workerPanicked, handlerVars,
                   groupVars, crashed>>

(* The goroutine waits in its select: what comes first wakes it. *)
CollPark ==
    /\ collPc = "select" /\ ~ ctxDone /\ ~ closed
    /\ collPc' = "parked"
    /\ UNCHANGED <<vars, confVars, collCfg, collNext, collThen, workerPanicked, handlerVars,
                   groupVars, crashed>>

CollDone ==
    /\ CollReceives /\ ctxDone
    /\ CollStopThen("exited")
    /\ UNCHANGED <<vars, confVars, collCfg, collNext, workerPanicked, handlerVars, groupVars,
                   crashed>>

(* newCfgCh is closed.  When the context is done too a select that begins    *)
(* takes either, and a goroutine that was waiting takes what came first.     *)
CollClosed ==
    /\ CollReceives /\ closed
    /\ collPc = "parked" => ~ ctxDone
    /\ CollStopThen("panic")
    /\ UNCHANGED <<vars, confVars, collCfg, collNext, workerPanicked, handlerVars, groupVars,
                   crashed>>

(* stop: new tasks find no collector, and those of now stop. *)
CollStop ==
    /\ collPc = "stop"
    /\ StopCollectors
    /\ collPc' = "wait"
    /\ UNCHANGED <<confVars, collCfg, collNext, collThen, workerPanicked, handlerVars,
                   groupVars, crashed>>

(* group.Wait has returned after the context was done. *)
CollExit ==
    /\ collPc = "wait" /\ collThen = "exited"
    /\ collPc' = "exited"
    /\ UNCHANGED <<vars, confVars, collCfg, collNext, collThen, workerPanicked, handlerVars,
                   groupVars, crashed>>

(* createCollectors dereferences the nil configuration of the closed channel. *)
CollPanics ==
    /\ collPc = "wait" /\ collThen = "panic"
    /\ crashed' = TRUE
    /\ UNCHANGED <<vars, confVars, collVars, handlerVars, groupVars>>

CollStep ==
    \/ CollStart \/ CollNoDatabases
    \/ CollPark \/ CollDone \/ CollClosed
    \/ CollStop \/ CollExit \/ CollPanics

(* A worker sent to a closed Output: the errgroup kept its panic, and Wait   *)
(* raises it again.                                                          *)
CollWaitPanics ==
    /\ collPc = "wait"
    /\ workerPanicked' = TRUE
    /\ crashed' = TRUE
    /\ UNCHANGED <<vars, confVars, collPc, collCfg, collNext, collThen, handlerVars,
                   groupVars>>

(* A collector is blocked on a full work queue whose workers have stopped:   *)
(* group.Wait never returns.                                                 *)
CollHangs ==
    /\ collPc = "wait"
    /\ collPc' = "hung"
    /\ UNCHANGED <<vars, confVars, collCfg, collNext, collThen, workerPanicked, handlerVars,
                   groupVars, crashed>>

--------------------------------------------------------------------------------
(* The goroutine of WebHandler.startConfHandler: updateConf.                 *)

(* Mutant: the cache is cleared and q.cfg stays. *)
HandlerSetConf_Forget ==
    /\ handlerPc = "update"
    /\ handlerPc' = "clear"
    /\ UNCHANGED <<vars, confVars, collVars, handlerCfg, handlerNext, groupVars, crashed>>

HandlerSetConf ==
    /\ handlerPc = "update"
    /\ handlerCfg' = handlerNext
    /\ handlerPc' = "clear"
    /\ UNCHANGED <<vars, confVars, collVars, handlerNext, groupVars, crashed>>

(* Mutant: the cache is not cleared. *)
HandlerClear_Keep ==
    /\ handlerPc = "clear"
    /\ handlerPc' = "idle"
    /\ UNCHANGED <<vars, confVars, collVars, handlerCfg, handlerNext, groupVars, crashed>>

HandlerClear ==
    /\ handlerPc = "clear"
    /\ ClearCache
    /\ handlerPc' = "idle"
    /\ UNCHANGED <<confVars, collVars, handlerCfg, handlerNext, groupVars, crashed>>

HandlerStep == HandlerSetConf \/ HandlerClear

--------------------------------------------------------------------------------
(* WebHandler.Run and run.Group.                                             *)

(* Run sets w.server and listens. *)
WebRun ==
    /\ webPc = "start"
    /\ webPc' = "serving"
    /\ UNCHANGED <<vars, confVars, collVars, handlerVars, groupPc, crashed>>

ListenFails ==
    /\ webPc = "serving"
    /\ webPc' = "exited"
    /\ UNCHANGED <<vars, confVars, collVars, handlerVars, groupPc, crashed>>

(* Serve returns when Shutdown closed the listener. *)
WebExit ==
    /\ webPc = "closed"
    /\ webPc' = "exited"
    /\ UNCHANGED <<vars, confVars, collVars, handlerVars, groupPc, crashed>>

WebStep == WebRun \/ WebExit

(* One of the actors has returned.  The termination handler and the watchdog *)
(* have no state: they return some time after the context is done.           *)
AnyReturned ==
    ctxDone \/ "exited" \in {collPc, runPc, confPc, webPc}

(* Mutant: the handler of the configuration was added first. *)
Interrupt_ConfFirst ==
    /\ groupPc = "run" /\ AnyReturned
    /\ groupPc' = "web"
    /\ closed' = TRUE
    /\ UNCHANGED <<vars, hup, confPc, confCfg, collVars, handlerVars, webPc, crashed>>

(* The interrupts of collectors and scheduler cancel the context. *)
Interrupt ==
    /\ groupPc = "run" /\ AnyReturned
    /\ groupPc' = "conf"
    /\ IF ctxDone THEN UNCHANGED vars ELSE Stop
    /\ UNCHANGED <<confVars, collVars, handlerVars, webPc, crashed>>

(* confHandler.stop. *)
CloseChannels ==
    /\ groupPc = "conf"
    /\ groupPc' = "web"
    /\ closed' = TRUE
    /\ UNCHANGED <<vars, hup, confPc, confCfg, collVars, handlerVars, webPc, crashed>>

(* WebHandler.Stop: w.server is nil when Run has not begun. *)
StopWeb ==
    /\ groupPc = "web"
    /\ IF webPc = "start"
       THEN crashed' = TRUE /\ UNCHANGED groupVars
       ELSE /\ groupPc' = "wait"
            /\ webPc' = IF webPc = "serving" THEN "closed" ELSE webPc
            /\ UNCHANGED crashed
    /\ UNCHANGED <<vars, confVars, collVars, handlerVars>>

GroupReturns ==
    /\ groupPc = "wait"
    /\ {collPc, runPc, confPc, webPc} = {"exited"}
    /\ groupPc' = "exited"
    /\ UNCHANGED <<vars, confVars, collVars, handlerVars, webPc, crashed>>

GroupStep == Interrupt \/ CloseChannels \/ StopWeb \/ GroupReturns

--------------------------------------------------------------------------------

(* The channel is closed: runParallel returns without Wait.  runSerial takes *)
(* a closed channel as no event.                                             *)
SchedulerClosed ==
    /\ parallel /\ runPc = "select" /\ closed
    /\ groupDone' = TRUE
    /\ runPc' = "exited"
    /\ UNCHANGED <<cfg, pos, nextCfg, jobVars, taskState, output, collectorVars,
                   cache, processVars, reloadVars>>

(* A panic in the goroutine of the scheduler ends the process. *)
SchedulerAlone ==
    /\ crashed' = (runPc' = "crashed")
    /\ UNCHANGED <<confVars, collVars, handlerVars, groupVars>>

SchedulerStep == (Run \/ (\E j \in Job : JobStep(j)) \/ Environment) /\ SchedulerAlone

SystemNext ==
    /\ ~ crashed /\ groupPc # "exited"
    /\ \/ Hup \/ HupKills \/ ConfStep \/ SendScheduler
       \/ CollStep \/ CollWaitPanics \/ CollHangs
       \/ HandlerStep \/ SchedulerClosed \/ SchedulerStep
       \/ GroupStep \/ ListenFails \/ WebStep

SystemSpec == SystemInit /\ [][SystemNext]_systemVars

(* All the goroutines run.  A job goes on when it has a reason to, but the   *)
(* collectors need not take a task, or answer it, and their Wait may never   *)
(* return.                                                                   *)
Alive(A) == ~ crashed /\ groupPc # "exited" /\ A

Step(A) == Alive(A) /\ SchedulerAlone

SystemFairness ==
    /\ WF_systemVars(Alive(ConfStep \/ SendScheduler))
    /\ WF_systemVars(Alive(GroupStep))
    /\ WF_systemVars(Alive(WebStep))
    /\ WF_systemVars(Alive(CollStep))
    /\ WF_systemVars(Alive(HandlerStep))
    /\ WF_systemVars(Step(Run))
    /\ \A j \in Job :
         WF_systemVars(Step(LoopStop(j) \/ AddGivesUp(j) \/ TakeResult(j) \/ GiveUp(j)))

SystemFairSpec == SystemSpec /\ SystemFairness

(* Collectors that are not replaced take tasks, and answer them, and those   *)
(* which are stop.  A select of the scheduler that is ready to receive does  *)
(* not prefer its timer, which was just reset.                               *)
ServedSpec ==
    /\ SystemInit /\ [][SystemNext /\ collPc' # "hung"]_systemVars
    /\ SystemFairness
    /\ SF_systemVars(Alive(SendScheduler))
    /\ \A j \in Job : WF_systemVars(Step(AddReturns(j)))
    /\ \A t \in Task : WF_systemVars(Step(t \notin replaced /\ Answer(t)))

--------------------------------------------------------------------------------

SystemTypeOK ==
    /\ TypeOK
    /\ hup \in BOOLEAN /\ closed \in BOOLEAN /\ crashed \in BOOLEAN
    /\ confPc \in {"start", "idle", "collectors", "server", "scheduler", "exited"}
    /\ collPc \in {"start", "select", "parked", "stop", "wait", "hung", "exited"}
    /\ collThen \in {"start", "panic", "exited"} /\ workerPanicked \in BOOLEAN
    /\ groupPc \in {"run", "conf", "web", "wait", "exited"}
    /\ webPc \in {"start", "serving", "closed", "exited"}
    /\ closed <=> groupPc \in {"web", "wait", "exited"}
    /\ handlerPc \in {"idle", "update", "clear"}
    /\ confCfg \in Version
    /\ collNext \in 0 .. confCfg /\ handlerNext \in 0 .. confCfg
    /\ collCfg \in {collNext - 1, collNext}
    /\ handlerCfg = IF handlerPc = "update" THEN handlerNext - 1 ELSE handlerNext

(* A job may put a result into the cache that the handler has just cleared,  *)
(* because the scheduler gets the configuration last.  But it is never older *)
(* than the configuration before the one the handler works with; in parallel *)
(* mode, where the next reload may begin while the old jobs end, than the    *)
(* configuration before that one.                                            *)
Lag == IF parallel THEN 2 ELSE 1

CacheLag ==
    handlerPc # "clear" =>
        \A j \in Job : cache[j] # None => cache[j] + Lag >= handlerCfg

(* In parallel mode a reload ends, whatever becomes of the tasks of the jobs,*)
(* when the process goes on: everybody gets the configuration, or a later    *)
(* one.  If the collectors of the reload before never stop, nobody does; if  *)
(* those that this reload replaces never do, the others still get it.        *)
CollectorsHung == collPc = "hung"

CollectorsReached(v) == collCfg >= v \/ (CollectorsHung /\ collNext >= v)

ParallelReloadEnds ==
    \A v \in Version \ {0} :
        parallel /\ confCfg = v ~>
            \/ CollectorsReached(v) /\ handlerCfg >= v /\ cfg >= v
            \/ CollectorsHung /\ collNext < v
            \/ AnyReturned \/ crashed

(* When a part of the process returns, for a signal or for an error, all the *)
(* others end, whatever becomes of the tasks of the jobs; and so does the    *)
(* process, unless collectors never stop.                                    *)
ShutdownEnds ==
    AnyReturned ~>
        \/ crashed
        \/ {runPc, confPc, webPc} = {"exited"} /\ (groupPc = "exited" \/ CollectorsHung)

(* A process that is up, with no reload going on, and that gets no SIGHUP    *)
(* any more may only die of the panic of a task, in addTask or in a worker:  *)
(* its goroutines wait where the interrupts find them in the right order,    *)
(* the context before the closed channels, and the web server exists.        *)
(* Without one of these the interrupts themselves may end in a panic.        *)
AtRest ==
    /\ webPc = "serving" /\ groupPc = "run" /\ ~ ctxDone
    /\ confPc = "idle" /\ collPc = "parked"

RestedStopIsClean ==
    [](AtRest => ([]~ hup => [](crashed => jobPanicked \/ workerPanicked)))

(* The configuration that was loaded last is the one everybody uses when the *)
(* reload is over and the process goes on.                                   *)
Settled ==
    /\ confPc = "idle" /\ CollReceives /\ handlerPc = "idle"
    /\ runPc \notin {"wait", "start", "crashed"}

ReloadReachesAll ==
    Settled => collCfg = confCfg /\ handlerCfg = confCfg /\ cfg = confCfg

--------------------------------------------------------------------------------
(* What the documentation says and the code does not do.                     *)

(* A reload ends, in serial mode, too. *)
ReloadEnds == confPc # "idle" ~> (confPc \in {"idle", "exited"} \/ crashed)
================================================================================
