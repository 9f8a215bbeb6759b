------------------------------ MODULE QueryHandler ------------------------------
(***************************************************************************)
(* The handler of /query requests (internal/server/query_handler.go) with  *)
(* its lock table, the result cache and reloads of the configuration.  A   *)
(* request asks for several items, a query on a database each: it answers  *)
(* an item from the cache or submits a task to the collectors, then        *)
(* gathers the results from the Output channel its tasks share.            *)
(*                                                                         *)
(* The collectors are TaskService.tla, which Collector.tla implements: a    *)
(* task is answered at most once and lost only when its request no longer  *)
(* waits or its collector was replaced.  The lock table has no age here:    *)
(* Locker.tla says when no entry is ever taken over.                       *)
(***************************************************************************)
EXTENDS Naturals, Sequences, FiniteSets

CONSTANTS
    Request,            \* HTTP requests
    Item,               \* a query on a database, also the key in the cache
    ItemsOf,            \* the items of each request, newRequestParams
    KeyOf,              \* its raw query string, the key in the lock table
    BadRequest,         \* requests newRequestParams rejects
    WithParams,         \* requests with extra parameters
    Caching,            \* items whose query has a caching time
    UnknownDb,          \* items whose database has no collector
    InvalidOutput,      \* items whose result may not pass validateOutput
    MaxVersion,         \* bound on the reloads of the handler
    MaxStops,           \* bound on the reloads of the collectors
    None

ASSUME QueryHandlerAssumption ==
    /\ IsFiniteSet(Item) /\ None \notin Item
    /\ ItemsOf \in [Request -> SUBSET Item]
    /\ BadRequest \subseteq Request /\ WithParams \subseteq Request
    /\ Caching \subseteq Item /\ UnknownDb \subseteq Item
    /\ InvalidOutput \subseteq Item
    /\ MaxVersion \in Nat /\ MaxStops \in Nat

Task == {t \in Request \X Item : t[2] \in ItemsOf[t[1]]}

VARIABLES
    pc,                 \* where ServeHTTP is
    current,            \* the item whose AddTask runs
    todo,               \* items that are not looked at yet
    version,            \* the configuration a request works with
    scheduled,          \* responseWriter.scheduled
    response,           \* what was written: the item and where it is from
    output,             \* the Output channel of the request
    expired,            \* requests whose context is done
    locked,             \* the raw queries in the lock table
    cache,              \* the result cache, with the configuration of an entry
    cfg,                \* q.cfg, as a version number
    confPc,             \* updateConf: "set" after q.cfg = c, before Clear
    collectors,         \* Collectors.collectors: "up", or "nil" in a reload
    stops,              \* the number of reloads of the collectors
    taskState,          \* the tasks in the collectors
    replaced,           \* tasks whose collector was stopped by a reload
    spanning            \* history: requests in progress at the last Clear

requestVars == <<pc, current, todo, version, scheduled, response, expired, locked>>
confVars == <<cfg, confPc, spanning>>
serviceVars == <<collectors, stops, taskState, replaced>>
vars == <<requestVars, output, cache, confVars, serviceVars>>

(* Output is closed first, then cancelCh.  When AddTask panics, cancelCh is  *)
(* closed as well but Output is not: queryDatabases has not returned it.    *)
OutputClosed(r) == pc[r] \in {"unwinding", "done", "failed"}

Withdrawn ==
    replaced \cup
        {t \in Task : t[1] \in expired \/ OutputClosed(t[1]) \/ pc[t[1]] = "panicked"}

Service == INSTANCE TaskService WITH
    state <- taskState, withdrawn <- Withdrawn, stopped <- FALSE

Init ==
    /\ pc = [r \in Request |-> "idle"]
    /\ current = [r \in Request |-> None]
    /\ todo = ItemsOf
    /\ version = [r \in Request |-> 0]
    /\ scheduled = [r \in Request |-> 0]
    /\ response = [r \in Request |-> <<>>]
    /\ output = [r \in Request |-> <<>>]
    /\ expired = {}
    /\ locked = {}
    /\ cache = [i \in Item |-> None]
    /\ cfg = 0
    /\ confPc = "idle"
    /\ collectors = "up"
    /\ stops = 0
    /\ taskState = [t \in Task |-> "new"]
    /\ replaced = {}
    /\ spanning = {}

InProgress(r) ==
    pc[r] \in {"locked", "schedule", "adding", "unknown", "gather", "unwinding",
               "panicking"}

--------------------------------------------------------------------------------
(* ServeHTTP.                                                                *)

Goto(r, label) == pc' = [pc EXCEPT ![r] = label]

(* Mutant: the key is not entered into the table. *)
TryLock_NoEntry(r) ==
    /\ pc[r] = "idle"
    /\ IF KeyOf[r] \in locked THEN Goto(r, "refused") ELSE Goto(r, "locked")
    /\ UNCHANGED <<locked, current, todo, version, scheduled, response, expired,
                   output, cache, confVars, serviceVars>>

TryLock(r) ==
    /\ pc[r] = "idle"
    /\ IF KeyOf[r] \in locked
       THEN Goto(r, "refused") /\ UNCHANGED locked
       ELSE Goto(r, "locked") /\ locked' = locked \cup {KeyOf[r]}
    /\ UNCHANGED <<current, todo, version, scheduled, response, expired, output,
                   cache, confVars, serviceVars>>

(* newRequestParams: the queries are those of the configuration of now. *)
ParseParams(r) ==
    /\ pc[r] = "locked"
    /\ version' = [version EXCEPT ![r] = cfg]
    /\ IF r \in BadRequest
       THEN Goto(r, "rejected") /\ locked' = locked \ {KeyOf[r]}
       ELSE Goto(r, "schedule") /\ UNCHANGED locked
    /\ UNCHANGED <<current, todo, scheduled, response, expired, output, cache,
                   confVars, serviceVars>>

MayUseCache(r, i) == r \notin WithParams /\ i \in Caching

Write(r, i, from) ==
    response' = [response EXCEPT ![r] = Append(@, [item |-> i, from |-> from])]

(* Mutant: the item stays in the list. *)
ServeFromCache_Keep(r, i) ==
    /\ pc[r] = "schedule" /\ i \in todo[r]
    /\ MayUseCache(r, i) /\ cache[i] # None
    /\ Write(r, i, "cache")
    /\ UNCHANGED <<todo, pc, current, version, scheduled, expired, locked, output,
                   cache, confVars, serviceVars>>

(* queryDatabases: the item is in the cache. *)
ServeFromCache(r, i) ==
    /\ pc[r] = "schedule" /\ i \in todo[r]
    /\ MayUseCache(r, i) /\ cache[i] # None
    /\ Write(r, i, "cache")
    /\ todo' = [todo EXCEPT ![r] = @ \ {i}]
    /\ UNCHANGED <<pc, current, version, scheduled, expired, locked, output, cache,
                   confVars, serviceVars>>

(* Mutant: the item stays in the list. *)
StartAddTask_Keep(r, i) ==
    /\ pc[r] = "schedule" /\ i \in todo[r]
    /\ ~ (MayUseCache(r, i) /\ cache[i] # None)
    /\ scheduled[r] < Cardinality(ItemsOf[r])
    /\ current' = [current EXCEPT ![r] = i]
    /\ Goto(r, "adding")
    /\ taskState' = [taskState EXCEPT ![<<r, i>>] = "pending"]
    /\ UNCHANGED <<todo, version, scheduled, response, expired, locked, output, cache,
                   confVars, collectors, stops, replaced>>

(* queryDatabases: AddTask begins with getCollector.  Expired entries of the *)
(* cache are misses: see Evict.                                             *)
StartAddTask(r, i) ==
    /\ pc[r] = "schedule" /\ i \in todo[r]
    /\ ~ (MayUseCache(r, i) /\ cache[i] # None)
    /\ todo' = [todo EXCEPT ![r] = @ \ {i}]
    /\ current' = [current EXCEPT ![r] = i]
    /\ IF i \in UnknownDb \/ collectors = "nil"
       THEN Goto(r, "unknown") /\ UNCHANGED taskState
       ELSE /\ Goto(r, "adding")
            /\ taskState' = [taskState EXCEPT ![<<r, i>>] = "pending"]
    /\ UNCHANGED <<version, scheduled, response, expired, locked, output, cache,
                   confVars, collectors, stops, replaced>>

(* Mutant: the count is set, not incremented. *)
CountScheduled_First(r) ==
    /\ scheduled' = [scheduled EXCEPT ![r] = 1]
    /\ current' = [current EXCEPT ![r] = None]
    /\ Goto(r, "schedule")

(* incScheduled after AddTask returned, whatever became of the task. *)
CountScheduled(r) ==
    /\ scheduled' = [scheduled EXCEPT ![r] = @ + 1]
    /\ current' = [current EXCEPT ![r] = None]
    /\ Goto(r, "schedule")

(* Collectors.AddTask without a collector answers with an error itself. *)
AddUnknown(r) ==
    /\ pc[r] = "unknown"
    /\ Len(output[r]) < Cardinality(ItemsOf[r])
    /\ output' = [output EXCEPT ![r] = Append(@, [item |-> current[r], as |-> "error"])]
    /\ CountScheduled(r)
    /\ UNCHANGED <<todo, version, response, expired, locked, cache, confVars,
                   serviceVars>>

(* The collector took the task. *)
AddReturns(r) ==
    /\ pc[r] = "adding"
    /\ CountScheduled(r)
    /\ UNCHANGED <<todo, version, response, expired, locked, output, cache,
                   confVars, serviceVars>>

(* The context of the request is done before. *)
AddGivesUp(r) ==
    /\ pc[r] \in {"adding", "unknown"} /\ r \in expired
    /\ CountScheduled(r)
    /\ UNCHANGED <<todo, version, response, expired, locked, output, cache,
                   confVars, serviceVars>>

(* addTask sends on the queue of a collector that a reload stopped; the     *)
(* deferred calls of ServeHTTP run, and recoverMiddleware answers.          *)
AddPanics(r) ==
    /\ pc[r] = "adding" /\ <<r, current[r]>> \in replaced
    /\ taskState[<<r, current[r]>>] = "pending"
    /\ taskState' = [taskState EXCEPT ![<<r, current[r]>>] = "dropped"]
    /\ Goto(r, "panicking")
    /\ UNCHANGED <<current, todo, version, scheduled, response, expired, locked,
                   output, cache, confVars, collectors, stops, replaced>>

UnwindPanic(r) ==
    /\ pc[r] = "panicking"
    /\ Goto(r, "panicked")
    /\ locked' = locked \ {KeyOf[r]}
    /\ UNCHANGED <<current, todo, version, scheduled, response, expired, output,
                   cache, confVars, serviceVars>>

StartGather(r) ==
    /\ pc[r] = "schedule" /\ todo[r] = {}
    /\ Goto(r, "gather")
    /\ UNCHANGED <<current, todo, version, scheduled, response, expired, locked,
                   output, cache, confVars, serviceVars>>

GatherError(r) ==
    /\ pc[r] = "gather" /\ scheduled[r] > 0
    /\ output[r] # <<>> /\ Head(output[r]).as = "error"
    /\ output' = [output EXCEPT ![r] = Tail(@)]
    /\ scheduled' = [scheduled EXCEPT ![r] = @ - 1]
    /\ Write(r, Head(output[r]).item, "error")
    /\ UNCHANGED <<pc, current, todo, version, expired, locked, cache, confVars,
                   serviceVars>>

(* validateOutput: nothing of the result is written. *)
GatherInvalid(r) ==
    /\ pc[r] = "gather" /\ scheduled[r] > 0
    /\ output[r] # <<>> /\ Head(output[r]).as = "invalid"
    /\ output' = [output EXCEPT ![r] = Tail(@)]
    /\ scheduled' = [scheduled EXCEPT ![r] = @ - 1]
    /\ UNCHANGED <<pc, current, todo, version, response, expired, locked, cache,
                   confVars, serviceVars>>

(* A result is written and put into the cache. *)
GatherResult(r) ==
    /\ pc[r] = "gather" /\ scheduled[r] > 0
    /\ output[r] # <<>> /\ Head(output[r]).as = "result"
    /\ LET i == Head(output[r]).item IN
         /\ Write(r, i, "result")
         /\ IF MayUseCache(r, i)
            THEN cache' = [cache EXCEPT ![i] = [version |-> version[r], by |-> r]]
            ELSE UNCHANGED cache
    /\ output' = [output EXCEPT ![r] = Tail(@)]
    /\ scheduled' = [scheduled EXCEPT ![r] = @ - 1]
    /\ UNCHANGED <<pc, current, todo, version, expired, locked, confVars,
                   serviceVars>>

(* Mutant: gatherResults does not watch the context. *)
EndGather_NoContext(r) ==
    /\ pc[r] = "gather"
    /\ scheduled[r] = 0
    /\ Goto(r, "unwinding")
    /\ UNCHANGED <<current, todo, version, scheduled, response, expired, locked,
                   output, cache, confVars, serviceVars>>

(* gatherResults ends, and the deferred close of Output runs. *)
EndGather(r) ==
    /\ pc[r] = "gather"
    /\ scheduled[r] = 0 \/ r \in expired
    /\ Goto(r, "unwinding")
    /\ UNCHANGED <<current, todo, version, scheduled, response, expired, locked,
                   output, cache, confVars, serviceVars>>

(* The deferred close of cancelCh and unlock.  A request that wrote nothing  *)
(* was answered with an error.                                               *)
Unwind(r) ==
    /\ pc[r] = "unwinding"
    /\ Goto(r, IF response[r] = <<>> THEN "failed" ELSE "done")
    /\ locked' = locked \ {KeyOf[r]}
    /\ UNCHANGED <<current, todo, version, scheduled, response, expired, output,
                   cache, confVars, serviceVars>>

(* The request timeout passes, or the client closes its connection. *)
Expire(r) ==
    /\ InProgress(r) /\ r \notin expired
    /\ expired' = expired \cup {r}
    /\ UNCHANGED <<pc, current, todo, version, scheduled, response, locked, output,
                   cache, confVars, serviceVars>>

Serve(r) ==
    \/ TryLock(r) \/ ParseParams(r)
    \/ \E i \in Item : ServeFromCache(r, i) \/ StartAddTask(r, i)
    \/ AddUnknown(r) \/ AddGivesUp(r) \/ StartGather(r)
    \/ GatherError(r) \/ GatherInvalid(r) \/ GatherResult(r)
    \/ EndGather(r) \/ Unwind(r) \/ UnwindPanic(r)

--------------------------------------------------------------------------------
(* The collectors: steps of TaskService.                                     *)

ResultOf(i) ==
    {"result", "error"} \cup (IF i \in InvalidOutput THEN {"invalid"} ELSE {})

(* Mutant: a retry answers a task again. *)
Answer_Again(t) ==
    /\ taskState[t] \in {"pending", "answered"}
    /\ ~ OutputClosed(t[1])
    /\ Len(output[t[1]]) < 3
    /\ taskState' = [taskState EXCEPT ![t] = "answered"]
    /\ \E as \in ResultOf(t[2]) :
         output' = [output EXCEPT ![t[1]] = Append(@, [item |-> t[2], as |-> as])]
    /\ UNCHANGED <<requestVars, cache, confVars, collectors, stops, replaced>>

(* A worker sends its result to the Output channel. *)
Answer(t) ==
    /\ taskState[t] = "pending"
    /\ ~ OutputClosed(t[1])
    /\ taskState' = [taskState EXCEPT ![t] = "answered"]
    /\ \E as \in ResultOf(t[2]) :
         output' = [output EXCEPT ![t[1]] = Append(@, [item |-> t[2], as |-> as])]
    /\ UNCHANGED <<requestVars, cache, confVars, collectors, stops, replaced>>

Drop(t) ==
    /\ taskState[t] = "pending"
    /\ t \in Withdrawn
    /\ taskState' = [taskState EXCEPT ![t] = "dropped"]
    /\ UNCHANGED <<requestVars, output, cache, confVars, collectors, stops,
                   replaced>>

(* Collectors.Run stops the collectors for a new configuration, and then    *)
(* starts those of the new one.                                             *)
StopCollectors ==
    /\ collectors = "up" /\ stops < MaxStops
    /\ collectors' = "nil"
    /\ stops' = stops + 1
    /\ replaced' = replaced \cup {t \in Task : taskState[t] = "pending"}
    /\ UNCHANGED <<requestVars, output, cache, confVars, taskState>>

StartCollectors ==
    /\ collectors = "nil"
    /\ collectors' = "up"
    /\ UNCHANGED <<requestVars, output, cache, confVars, stops, taskState,
                   replaced>>

--------------------------------------------------------------------------------
(* updateConf, and the cache.                                                *)

SetConf ==
    /\ confPc = "idle" /\ cfg < MaxVersion
    /\ cfg' = cfg + 1
    /\ confPc' = "set"
    /\ UNCHANGED <<requestVars, output, cache, spanning, serviceVars>>

(* Mutant: the cache keeps its entries. *)
ClearCache_Keep ==
    /\ confPc = "set"
    /\ spanning' = {r \in Request : InProgress(r)}
    /\ confPc' = "idle"
    /\ UNCHANGED <<cache, requestVars, output, cfg, serviceVars>>

ClearCache ==
    /\ confPc = "set"
    /\ cache' = [i \in Item |-> None]
    /\ spanning' = {r \in Request : InProgress(r)}
    /\ confPc' = "idle"
    /\ UNCHANGED <<requestVars, output, cfg, serviceVars>>

(* The caching time of an entry passes. *)
Evict(i) ==
    /\ cache[i] # None
    /\ cache' = [cache EXCEPT ![i] = None]
    /\ UNCHANGED <<requestVars, output, confVars, serviceVars>>

--------------------------------------------------------------------------------

Next ==
    \/ \E r \in Request : Serve(r) \/ AddReturns(r) \/ AddPanics(r) \/ Expire(r)
    \/ \E t \in Task : Answer(t) \/ Drop(t)
    \/ StopCollectors \/ StartCollectors \/ SetConf \/ ClearCache
    \/ \E i \in Item : Evict(i)

Spec == Init /\ [][Next]_vars

(* Handlers run, and every context ends because of its timeout; neither the *)
(* collectors nor the clients have to do anything.                          *)
FairSpec ==
    Spec /\ \A r \in Request : WF_vars(Serve(r)) /\ WF_vars(Expire(r))

--------------------------------------------------------------------------------

Location == {"idle", "refused", "locked", "rejected", "schedule", "adding", "unknown",
             "gather", "unwinding", "done", "failed", "panicking", "panicked"}
Entry == [item : Item, from : {"cache", "result", "error"}]
Message == [item : Item, as : {"result", "error", "invalid"}]
CacheEntry == [version : 0 .. MaxVersion, by : Request]

TypeOK ==
    /\ pc \in [Request -> Location]
    /\ current \in [Request -> Item \cup {None}]
    /\ todo \in [Request -> SUBSET Item]
    /\ version \in [Request -> 0 .. MaxVersion]
    /\ scheduled \in [Request -> 0 .. Cardinality(Item)]
    /\ response \in [Request -> Seq(Entry)]
    /\ output \in [Request -> Seq(Message)]
    /\ expired \subseteq Request
    /\ locked \subseteq {KeyOf[r] : r \in Request}
    /\ cache \in [Item -> CacheEntry \cup {None}]
    /\ cfg \in 0 .. MaxVersion
    /\ confPc \in {"idle", "set"}
    /\ collectors \in {"up", "nil"}
    /\ stops \in 0 .. MaxStops
    /\ taskState \in [Task -> {"new", "pending", "answered", "dropped"}]
    /\ replaced \subseteq Task
    /\ spanning \subseteq Request

ItemsWritten(r) == {response[r][n].item : n \in 1 .. Len(response[r])}

(* No item is in a response twice, whether it is from the cache, a result    *)
(* or an error.                                                             *)
EachItemOnce == \A r \in Request : Cardinality(ItemsWritten(r)) = Len(response[r])

(* A request that ended before its timeout has answered all of its items:    *)
(* the count of scheduled tasks matches the results that can come.          *)
ResponseIsComplete ==
    \A r \in Request :
        pc[r] \in {"unwinding", "done", "failed"} /\ r \notin expired =>
            ItemsOf[r] \ InvalidOutput \subseteq ItemsWritten(r)

(* Output has capacity len(dbNames)*len(queryNames): no answer, of a worker  *)
(* or of AddTask in the goroutine of the request itself, blocks on it.      *)
Pending(r) == {t \in Task : t[1] = r /\ taskState[t] = "pending"}

OutputHasRoom ==
    \A r \in Request :
        /\ ~ OutputClosed(r) =>
             Len(output[r]) + Cardinality(Pending(r)) <= Cardinality(ItemsOf[r])
        /\ pc[r] = "unknown" => Len(output[r]) < Cardinality(ItemsOf[r])

(* Equal requests do not run at the same time. *)
SameRequestsApart ==
    \A r, s \in Request :
        InProgress(r) /\ InProgress(s) /\ KeyOf[r] = KeyOf[s] => r = s

(* After a reload an entry of an older configuration is in the cache only    *)
(* when a request that was in progress during the reload put it there:      *)
(* updateConf sets q.cfg before it clears the cache.                        *)
StaleEntriesSpanReload ==
    \A i \in Item :
        cache[i] # None /\ confPc = "idle" /\ cache[i].version < cfg =>
            cache[i].by \in spanning

(* Every request ends, whatever the collectors do. *)
RequestsEnd ==
    \A r \in Request : InProgress(r) ~> ~ InProgress(r)

(* The handler uses the collectors as their service allows: it submits a     *)
(* task once and never again, and does not wait again for one it gave up.   *)
UsesService == Service!Spec
================================================================================
