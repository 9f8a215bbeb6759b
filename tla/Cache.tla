---------------------------------- MODULE Cache ----------------------------------
(***************************************************************************)
(* The result cache (internal/cache/cache.go) with time: the entry of one  *)
(* query on one database, the requests of Locker.tla that ask for it, and  *)
(* the jobs of the scheduler that put it there in the background.  An      *)
(* entry expires CachingTime after Put; the data are as old as their query. *)
(*                                                                         *)
(* A request may ask for other queries as well: it takes its result some   *)
(* time after the query, while it still adds tasks, but before its         *)
(* deadline.  It may end at any moment, without a result (Finish).         *)
(***************************************************************************)
EXTENDS Locker

CONSTANTS
    Job,                \* jobs that run the query
    CachingTime,        \* CachingTime of the query, not zero
    QueryTimeout        \* its Timeout

(* Who asked: a raw query string, or a job. *)
Origin(c) == IF c \in Request THEN KeyOf[c] ELSE c

Entry == [queried : Nat, expireTS : Nat, from : Key \cup Job]

ASSUME CacheAssumption ==
    /\ CachingTime \in Nat \ {0} /\ QueryTimeout \in Nat
    /\ Job \cap (Request \cup Key) = {}
    /\ None \notin Nat \cup Entry

Client == Request \cup Job

VARIABLES
    cache,              \* the entry, or None
    stage,              \* where each client is with the query
    queried             \* when the query of a client began, or None

itemVars == <<cache, stage, queried>>
cacheVars == <<vars, itemVars>>

CacheInit ==
    /\ Init
    /\ cache = None
    /\ stage = [c \in Client |-> "ask"]
    /\ queried = [c \in Client |-> None]

--------------------------------------------------------------------------------
(* Cache.                                                                    *)

Valid == cache # None /\ cache.expireTS > now

(* Mutant: a hit makes an entry live longer. *)
Get_Renews(r) ==
    /\ Running(r) /\ stage[r] = "ask"
    /\ Valid
    /\ cache' = [cache EXCEPT !.expireTS = now + CachingTime]
    /\ stage' = [stage EXCEPT ![r] = "done"]
    /\ UNCHANGED <<vars, queried>>

Get(r) ==
    /\ Running(r) /\ stage[r] = "ask"
    /\ Valid
    /\ stage' = [stage EXCEPT ![r] = "done"]
    /\ UNCHANGED <<vars, cache, queried>>

Miss(r) ==
    /\ Running(r) /\ stage[r] = "ask"
    /\ ~ Valid
    /\ stage' = [stage EXCEPT ![r] = "wait"]
    /\ UNCHANGED <<vars, cache, queried>>

(* Whatever the entry is, an older result replaces it, too. *)
Put(c) ==
    cache' = [queried |-> queried[c], expireTS |-> now + CachingTime, from |-> Origin(c)]

(* updateConf. *)
Clear ==
    /\ cache # None
    /\ cache' = None
    /\ UNCHANGED <<vars, stage, queried>>

--------------------------------------------------------------------------------
(* The clients.                                                              *)

(* handleJob does not look into the cache. *)
StartJob(j) ==
    /\ stage[j] = "ask"
    /\ stage' = [stage EXCEPT ![j] = "wait"]
    /\ UNCHANGED <<vars, cache, queried>>

(* A worker has a connection and runs the query. *)
StartQuery(c) ==
    /\ stage[c] = "wait"
    /\ c \in Request => Running(c)
    /\ stage' = [stage EXCEPT ![c] = "query"]
    /\ queried' = [queried EXCEPT ![c] = now]
    /\ UNCHANGED <<vars, cache>>

Leave(c, next) ==
    /\ stage' = [stage EXCEPT ![c] = next]
    /\ queried' = [queried EXCEPT ![c] = None]

(* gatherResults. *)
TakeResult(r) ==
    /\ Running(r) /\ stage[r] = "query"
    /\ Put(r)
    /\ Leave(r, "done")
    /\ UNCHANGED vars

End(r) == Finish(r) /\ Leave(r, "done") /\ UNCHANGED cache

JobTakesResult(j) ==
    /\ stage[j] = "query"
    /\ Put(j)
    /\ Leave(j, "ask")
    /\ UNCHANGED vars

(* The query fails, or the scheduler ends. *)
JobFails(j) ==
    /\ stage[j] \in {"wait", "query"}
    /\ Leave(j, "ask")
    /\ UNCHANGED <<vars, cache>>

(* A result that is later than the timeout of its query is an error; a job   *)
(* takes the others at once.                                                 *)
JobsInTime ==
    \A j \in Job : stage[j] = "query" => now - queried[j] < QueryTimeout

--------------------------------------------------------------------------------

CacheNext ==
    \/ Tick /\ JobsInTime /\ UNCHANGED itemVars
    \/ \E r \in Request : (Acquire(r) \/ Refuse(r)) /\ UNCHANGED itemVars
    \/ \E r \in Request : Get(r) \/ Miss(r) \/ TakeResult(r) \/ End(r)
    \/ \E j \in Job : StartJob(j) \/ JobTakesResult(j) \/ JobFails(j)
    \/ \E c \in Client : StartQuery(c)
    \/ Clear

CacheSpec == CacheInit /\ [][CacheNext]_cacheVars

--------------------------------------------------------------------------------

(* The types, and that a client has a time for its query while it runs. *)
CacheTypeOK ==
    /\ TypeOK
    /\ cache \in Entry \cup {None}
    /\ stage \in [Client -> {"ask", "wait", "query", "done"}]
    /\ queried \in [Client -> Nat \cup {None}]
    /\ \A c \in Client : stage[c] = "query" <=> queried[c] # None

(* The data of a cached answer may be older than CachingTime, which counts   *)
(* from Put, but only by the time a client may sit on its result: a request  *)
(* until its timeout, a job until that of the query.                         *)
Slowest == IF RequestTimeout > QueryTimeout THEN RequestTimeout ELSE QueryTimeout

CachedAnswersAreFresh ==
    [][\A r \in Request : stage[r] = "ask" /\ stage'[r] = "done" /\ Running(r)'
         => now - cache.queried < CachingTime + Slowest]_cacheVars

(* Older data replace newer ones in the cache, for Put does not compare.     *)
(* Requests with the same raw query string cannot do it to each other,       *)
(* because the locker keeps them apart, nor can a job to itself: it takes    *)
(* two different clients of the same query.                                  *)
OneOriginGoesForward ==
    [][cache # None /\ cache' # None /\ cache'.queried < cache.queried
         => cache.from # cache'.from]_cacheVars
================================================================================
