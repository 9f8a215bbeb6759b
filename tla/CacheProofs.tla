------------------------------- MODULE CacheProofs -------------------------------
(***************************************************************************)
(* How old the answers of the cache can be, and who can put older data     *)
(* into it, for any number of requests and jobs.  The locker does its part *)
(* in these proofs: its invariant holds of the steps of Cache.tla, too.    *)
(***************************************************************************)
EXTENDS Cache, LockerProofs

(* A query somebody waits for is not older than its client's time limit. *)
QueriesAreYoung ==
    /\ \A r \in Request : stage[r] = "query" =>
          Running(r) /\ started[r] <= queried[r] /\ queried[r] <= now
    /\ \A j \in Job : stage[j] = "query" =>
          queried[j] <= now /\ now - queried[j] <= QueryTimeout

(* The entry was put when its data had at most this age. *)
EntryWasYoung ==
    cache # None =>
        /\ cache.queried <= now
        /\ cache.expireTS <= cache.queried + Slowest + CachingTime

(* Whoever may replace the entry of its own origin began after the query of *)
(* the entry.                                                               *)
EntryIsBehind ==
    cache # None =>
        /\ \A r \in Request :
             Running(r) /\ stage[r] # "done" /\ KeyOf[r] = cache.from
               => cache.queried <= started[r]
        /\ \A j \in Job :
             stage[j] = "query" /\ j = cache.from => cache.queried <= queried[j]

CacheInductive ==
    /\ Inductive /\ CacheTypeOK
    /\ QueriesAreYoung /\ EntryWasYoung /\ EntryIsBehind

LEMMA SlowestIsLarger ==
    /\ Slowest \in Nat
    /\ RequestTimeout <= Slowest /\ QueryTimeout <= Slowest
  BY LockerAssumption, CacheAssumption DEF Slowest

LEMMA CacheInitInductive == CacheInit => CacheInductive
  <1> SUFFICES ASSUME CacheInit PROVE CacheInductive
    OBVIOUS
  <1>1. Inductive
    BY LockerInit DEF CacheInit
  <1> QED
    BY <1>1, CacheAssumption
    DEF CacheInit, CacheInductive, Inductive, CacheTypeOK, QueriesAreYoung,
        EntryWasYoung, EntryIsBehind, Client

(* Requests that run have raw query strings of their own. *)
LEMMA RunningAlone ==
    ASSUME Inductive, NEW r \in Request, NEW s \in Request,
           Running(r), Running(s), KeyOf[r] = KeyOf[s]
    PROVE  r = s
  <1>1. [key |-> r, ts |-> started[r]] = [key |-> s, ts |-> started[s]]
    BY DEF Inductive, TableMatchesRequests
  <1> QED
    BY <1>1

(* The fields of a new entry. *)
LEMMA PutEntry ==
    ASSUME CacheTypeOK, NEW c \in Client, stage[c] = "query", Put(c)
    PROVE  /\ cache' \in Entry /\ cache' # None
           /\ cache'.queried = queried[c]
           /\ cache'.expireTS = now + CachingTime
           /\ cache'.from = Origin(c)
  <1>1. queried[c] \in Nat /\ now + CachingTime \in Nat
    BY CacheAssumption DEF CacheTypeOK, TypeOK
  <1>2. Origin(c) \in Key \cup Job
    BY LockerAssumption DEF Origin, Client
  <1> QED
    BY <1>1, <1>2, CacheAssumption DEF Put, Entry

(* The steps of the locker: time, and requests that come. *)
LEMMA LockerStepInductive ==
    ASSUME CacheInductive, RequestTimeout < MaxLockTime, Inductive',
           UNCHANGED itemVars,
           \/ Tick /\ JobsInTime
           \/ \E r \in Request : Acquire(r) \/ Refuse(r)
    PROVE  CacheInductive'
  <1> USE DEF CacheInductive, itemVars
  <1>1. CacheTypeOK'
    BY DEF Inductive, CacheTypeOK
  <1>2. CASE Tick /\ JobsInTime
    <2> USE <1>2 DEF Tick
    <2>1. now \in Nat
      BY DEF CacheTypeOK, TypeOK
    <2>2. \A c \in Client : stage[c] = "query" => queried[c] \in Nat
      BY DEF CacheTypeOK
    <2>3. QueriesAreYoung'
      BY <2>1, <2>2, CacheAssumption DEF QueriesAreYoung, JobsInTime, Running, Client
    <2>4. EntryWasYoung'
      BY <2>1, SlowestIsLarger, CacheAssumption DEF EntryWasYoung, CacheTypeOK, Entry
    <2>5. EntryIsBehind'
      BY DEF EntryIsBehind, Running
    <2> QED
      BY <1>1, <2>3, <2>4, <2>5
  <1>3. ASSUME NEW r \in Request, Acquire(r) \/ Refuse(r)
        PROVE  CacheInductive'
    <2>1. /\ now' = now
          /\ \A s \in Request \ {r} : pc'[s] = pc[s] /\ started'[s] = started[s]
          /\ pc[r] = "idle" /\ (Running(r)' => started'[r] = now)
      BY <1>3 DEF Acquire, Refuse, Running, CacheTypeOK, TypeOK
    <2>2. QueriesAreYoung'
      BY <2>1 DEF QueriesAreYoung, Running
    <2>3. EntryWasYoung'
      BY <2>1 DEF EntryWasYoung, Slowest
    <2>4. EntryIsBehind'
      BY <2>1 DEF EntryIsBehind, EntryWasYoung, Running
    <2> QED
      BY <1>1, <2>2, <2>3, <2>4
  <1> QED
    BY <1>2, <1>3

(* A client goes on, and the entry stays or is cleared. *)
LEMMA ClientStepInductive ==
    ASSUME CacheInductive, Inductive', CacheTypeOK', NEW c \in Client,
           now' = now, started' = started,
           cache' \in {cache, None},
           \A d \in Client \ {c} : stage'[d] = stage[d] /\ queried'[d] = queried[d],
           \A r \in Request : Running(r)' => Running(r),
           \A r \in Request \ {c} : Running(r) => Running(r)',
           c \in Request /\ Running(c)' /\ stage'[c] # "done" => stage[c] # "done",
           stage'[c] = "query" =>
               /\ c \in Request => Running(c)'
               /\ queried'[c] = now
    PROVE  CacheInductive'
  <1> USE DEF CacheInductive
  <1>1. now \in Nat /\ QueryTimeout \in Nat
    BY CacheAssumption DEF CacheTypeOK, TypeOK
  <1>2. \A r \in Request : Running(r) => started[r] <= now
    BY DEF Inductive, NotOverdue
  <1>3. QueriesAreYoung'
    BY <1>1, <1>2 DEF QueriesAreYoung, Client
  <1>4. EntryWasYoung'
    BY DEF EntryWasYoung, Slowest
  <1>5. EntryIsBehind'
    BY <1>1 DEF EntryIsBehind, EntryWasYoung, Client
  <1> QED
    BY <1>3, <1>4, <1>5

(* A client puts its result into the cache. *)
LEMMA PutInductive ==
    ASSUME CacheInductive, Inductive', CacheTypeOK', NEW c \in Client,
           stage[c] = "query", Put(c), UNCHANGED vars,
           \A d \in Client \ {c} : stage'[d] = stage[d] /\ queried'[d] = queried[d],
           stage'[c] = IF c \in Request THEN "done" ELSE "ask"
    PROVE  CacheInductive'
  <1> USE DEF CacheInductive
  <1>1. /\ cache' # None
        /\ cache'.queried = queried[c]
        /\ cache'.expireTS = now + CachingTime
        /\ cache'.from = Origin(c)
    BY PutEntry
  <1>2. now \in Nat /\ queried[c] \in Nat
    BY DEF CacheTypeOK, TypeOK
  <1>3. QueriesAreYoung'
    BY DEF QueriesAreYoung, Running, Client, vars
  <1>4. queried[c] <= now /\ now <= queried[c] + Slowest
    <2>1. CASE c \in Request
      <3>1. /\ started[c] \in Nat /\ started[c] <= queried[c] /\ queried[c] <= now
            /\ now - started[c] <= RequestTimeout
        BY <2>1 DEF QueriesAreYoung, Inductive, NotOverdue, TypeOK
      <3> QED
        BY <3>1, <1>2, SlowestIsLarger, LockerAssumption
    <2>2. CASE c \in Job
      BY <2>2, <1>2, SlowestIsLarger, CacheAssumption DEF QueriesAreYoung
    <2> QED
      BY <2>1, <2>2 DEF Client
  <1>5. EntryWasYoung'
    <2>1. /\ cache'.queried <= now'
          /\ cache'.expireTS <= cache'.queried + Slowest + CachingTime
      BY <1>1, <1>2, <1>4, SlowestIsLarger, CacheAssumption DEF vars
    <2> QED
      BY <2>1 DEF EntryWasYoung, Slowest
  <1>6. ASSUME NEW r \in Request,
               Running(r)', stage'[r] # "done", KeyOf[r] = cache'.from
        PROVE  FALSE
    <2>1. r # c /\ Running(r)
      BY <1>6 DEF Running, vars
    <2>2. CASE c \in Request
      BY <2>1, <2>2, <1>1, <1>6, RunningAlone DEF Origin, QueriesAreYoung
    <2>3. CASE c \in Job
      BY <2>3, <1>1, <1>6, LockerAssumption, CacheAssumption DEF Origin
    <2> QED
      BY <2>2, <2>3 DEF Client
  <1>7. ASSUME NEW j \in Job, stage'[j] = "query", j = cache'.from
        PROVE  FALSE
    BY <1>1, <1>7, LockerAssumption, CacheAssumption DEF Origin, Client
  <1>8. EntryIsBehind'
    BY <1>6, <1>7 DEF EntryIsBehind
  <1> QED
    BY <1>3, <1>5, <1>8

(* A step of Cache.tla is one of Locker.tla. *)
LEMMA CacheStepOfLocker == [CacheNext]_cacheVars => [Next]_vars
  BY DEF CacheNext, cacheVars, itemVars, Next, Get, Miss, TakeResult, End, StartJob,
         JobTakesResult, JobFails, StartQuery, Clear

(* The locker works the same under the cache: LockerTable and LockerOneHolder *)
(* hold of it.                                                               *)
THEOREM CacheUsesLocker == CacheSpec => Spec
  BY CacheStepOfLocker, PTL DEF CacheSpec, CacheInit, Spec

LEMMA CacheStepInductive ==
    ASSUME CacheInductive, RequestTimeout < MaxLockTime, [CacheNext]_cacheVars
    PROVE  CacheInductive'
  <1> USE DEF CacheInductive
  <1>1. Inductive'
    BY LockerNext, CacheStepOfLocker
  <1>2. /\ now \in Nat
        /\ stage \in [Client -> {"ask", "wait", "query", "done"}]
        /\ queried \in [Client -> Nat \cup {None}]
        /\ TypeOK'
    BY <1>1 DEF CacheTypeOK, TypeOK, Inductive
  <1>3. CASE Tick /\ JobsInTime /\ UNCHANGED itemVars
    BY <1>1, <1>3, LockerStepInductive
  <1>4. CASE \E r \in Request : (Acquire(r) \/ Refuse(r)) /\ UNCHANGED itemVars
    BY <1>1, <1>4, LockerStepInductive
  <1>5. ASSUME NEW r \in Request, Get(r) \/ Miss(r) \/ End(r)
        PROVE  CacheInductive'
    <2>1. CacheTypeOK'
      BY <1>2, <1>5, CacheAssumption DEF CacheTypeOK, Get, Miss, End, Leave, Client
    <2>2. /\ now' = now /\ started' = started /\ cache' = cache
          /\ \A d \in Client \ {r} : stage'[d] = stage[d] /\ queried'[d] = queried[d]
          /\ stage'[r] # "query"
      BY <1>2, <1>5 DEF Get, Miss, End, Leave, Client, vars, Finish
    <2>3. /\ \A s \in Request : Running(s)' => Running(s)
          /\ \A s \in Request \ {r} : Running(s) => Running(s)'
      BY <1>5 DEF Get, Miss, End, vars, Finish, Running, CacheTypeOK, TypeOK
    <2>4. stage'[r] # "done" => stage[r] # "done"
      BY <1>2, <1>5 DEF Get, Miss, End, Leave, Client
    <2> QED
      BY <1>1, <2>1, <2>2, <2>3, <2>4, ClientStepInductive DEF Client
  <1>6. ASSUME NEW j \in Job, StartJob(j) \/ JobFails(j)
        PROVE  CacheInductive'
    <2>1. CacheTypeOK'
      BY <1>2, <1>6, CacheAssumption DEF CacheTypeOK, StartJob, JobFails, Leave, Client
    <2>2. /\ UNCHANGED <<vars, cache>>
          /\ \A d \in Client \ {j} : stage'[d] = stage[d] /\ queried'[d] = queried[d]
          /\ stage'[j] # "query"
      BY <1>2, <1>6 DEF StartJob, JobFails, Leave, Client
    <2> QED
      BY <1>1, <2>1, <2>2, ClientStepInductive, CacheAssumption DEF Client, vars, Running
  <1>7. ASSUME NEW c \in Client, StartQuery(c)
        PROVE  CacheInductive'
    <2>1. CacheTypeOK'
      BY <1>2, <1>7, CacheAssumption DEF CacheTypeOK, StartQuery
    <2>2. /\ UNCHANGED <<vars, cache>>
          /\ \A d \in Client \ {c} : stage'[d] = stage[d] /\ queried'[d] = queried[d]
          /\ stage[c] = "wait" /\ queried'[c] = now
          /\ c \in Request => Running(c)
      BY <1>2, <1>7 DEF StartQuery
    <2> QED
      BY <1>1, <2>1, <2>2, ClientStepInductive DEF vars, Running
  <1>8. ASSUME NEW r \in Request, TakeResult(r)
        PROVE  CacheInductive'
    <2>1. r \in Client /\ stage[r] = "query" /\ Put(r) /\ UNCHANGED vars
      BY <1>8 DEF TakeResult, Client
    <2>2. /\ \A d \in Client \ {r} : stage'[d] = stage[d] /\ queried'[d] = queried[d]
          /\ stage'[r] = "done"
      BY <1>2, <1>8, <2>1 DEF TakeResult, Leave
    <2>3. CacheTypeOK'
      BY <1>2, <1>8, <2>1, PutEntry, CacheAssumption DEF CacheTypeOK, TakeResult, Leave
    <2> QED
      BY <1>1, <2>1, <2>2, <2>3, PutInductive
  <1>9. ASSUME NEW j \in Job, JobTakesResult(j)
        PROVE  CacheInductive'
    <2>1. j \in Client /\ j \notin Request
          /\ stage[j] = "query" /\ Put(j) /\ UNCHANGED vars
      BY <1>9, CacheAssumption DEF JobTakesResult, Client
    <2>2. /\ \A d \in Client \ {j} : stage'[d] = stage[d] /\ queried'[d] = queried[d]
          /\ stage'[j] = "ask"
      BY <1>2, <1>9, <2>1 DEF JobTakesResult, Leave
    <2>3. CacheTypeOK'
      BY <1>2, <1>9, <2>1, PutEntry, CacheAssumption DEF CacheTypeOK, JobTakesResult, Leave
    <2> QED
      BY <1>1, <2>1, <2>2, <2>3, PutInductive
  <1>10. CASE Clear
    <2>1. CacheTypeOK'
      BY <1>2, <1>10 DEF CacheTypeOK, Clear
    <2> QED
      BY <1>1, <1>10, <2>1
      DEF Clear, QueriesAreYoung, EntryWasYoung, EntryIsBehind, Running, vars
  <1>11. CASE UNCHANGED cacheVars
    <2>1. CacheTypeOK'
      BY <1>2, <1>11 DEF CacheTypeOK, cacheVars, itemVars
    <2> QED
      BY <1>1, <1>11, <2>1
      DEF cacheVars, itemVars, vars, QueriesAreYoung, EntryWasYoung, EntryIsBehind,
          Running, Slowest
  <1> QED
    BY <1>3, <1>4, <1>5, <1>6, <1>7, <1>8, <1>9, <1>10, <1>11 DEF CacheNext

LEMMA CacheIsInductive ==
    ASSUME RequestTimeout < MaxLockTime
    PROVE  CacheSpec => []CacheInductive
  <1>1. CacheInductive /\ [CacheNext]_cacheVars => CacheInductive'
    BY CacheStepInductive
  <1> QED
    BY <1>1, CacheInitInductive, PTL DEF CacheSpec

(* A request gets data from the cache that are younger than CachingTime and  *)
(* the time the slowest client may sit on its result (cache.go:95, :114).    *)
THEOREM CacheAnswersAreFresh ==
    ASSUME RequestTimeout < MaxLockTime
    PROVE  CacheSpec => CachedAnswersAreFresh
  <1> DEFINE Fresh(r) ==
        stage[r] = "ask" /\ stage'[r] = "done" /\ Running(r)'
          => now - cache.queried < CachingTime + Slowest
  <1>1. ASSUME CacheInductive, [CacheNext]_cacheVars, NEW r \in Request
        PROVE  Fresh(r)
    <2> SUFFICES ASSUME stage[r] = "ask", stage'[r] = "done", Running(r)'
                 PROVE  now - cache.queried < CachingTime + Slowest
      OBVIOUS
    <2>1. stage \in [Client -> {"ask", "wait", "query", "done"}] /\ r \in Client
      BY <1>1 DEF CacheInductive, CacheTypeOK, Client
    <2>2. Get(r)
      BY <1>1, <2>1, CacheAssumption
      DEF CacheNext, cacheVars, itemVars, Get, Miss, TakeResult, End, Finish, Running,
          StartJob, JobTakesResult, JobFails, Leave, StartQuery, Clear, Client,
          CacheInductive, CacheTypeOK, TypeOK
    <2>3. /\ cache \in Entry /\ cache.expireTS > now
          /\ cache.expireTS <= cache.queried + Slowest + CachingTime
      BY <1>1, <2>2 DEF Get, Valid, CacheInductive, CacheTypeOK, EntryWasYoung
    <2> QED
      BY <1>1, <2>3, SlowestIsLarger, CacheAssumption
      DEF Entry, CacheInductive, CacheTypeOK, TypeOK
  <1>2. CacheInductive /\ [CacheNext]_cacheVars => [\A r \in Request : Fresh(r)]_cacheVars
    BY <1>1
  <1> QED
    BY <1>2, CacheIsInductive, PTL DEF CacheSpec, CachedAnswersAreFresh, Fresh

(* Older data replace newer ones only when another raw query string, or     *)
(* another job, put them there: equal requests and one job take turns       *)
(* (query_handler.go:135, :301; scheduler/mod.go:273).                      *)
THEOREM CacheGoesForward ==
    ASSUME RequestTimeout < MaxLockTime
    PROVE  CacheSpec => OneOriginGoesForward
  <1> DEFINE Forward ==
        cache # None /\ cache' # None /\ cache'.queried < cache.queried
          => cache.from # cache'.from
  <1>1. ASSUME CacheInductive, [CacheNext]_cacheVars
        PROVE  Forward
    <2> SUFFICES ASSUME cache # None, cache' # None, cache'.queried < cache.queried,
                        cache.from = cache'.from
                 PROVE  FALSE
      OBVIOUS
    <2>1. cache.queried \in Nat
      BY <1>1 DEF CacheInductive, CacheTypeOK, Entry
    <2>2. PICK c \in Client : /\ stage[c] = "query" /\ Put(c)
                              /\ c \in Request => Running(c)
      <3>1. cache' # cache
        BY <2>1
      <3> QED
        BY <1>1, <3>1, CacheAssumption
        DEF CacheNext, cacheVars, itemVars, Get, Miss, TakeResult, End, StartJob,
            JobTakesResult, JobFails, StartQuery, Clear, Client
    <2>3. /\ cache'.queried = queried[c] /\ cache'.from = Origin(c)
          /\ queried[c] \in Nat
      BY <1>1, <2>2, PutEntry DEF CacheInductive, CacheTypeOK
    <2>4. CASE c \in Request
      <3>1. /\ started[c] \in Nat /\ started[c] <= queried[c]
            /\ cache.queried <= started[c]
        BY <1>1, <2>2, <2>3, <2>4
        DEF Origin, CacheInductive, QueriesAreYoung, EntryIsBehind, CacheTypeOK, TypeOK
      <3> QED
        BY <3>1, <2>1, <2>3
    <2>5. CASE c \in Job
      <3>1. cache.queried <= queried[c]
        BY <1>1, <2>2, <2>3, <2>5, CacheAssumption
        DEF Origin, CacheInductive, EntryIsBehind
      <3> QED
        BY <3>1, <2>1, <2>3
    <2> QED
      BY <2>4, <2>5 DEF Client
  <1>2. CacheInductive /\ [CacheNext]_cacheVars => [Forward]_cacheVars
    BY <1>1
  <1> QED
    BY <1>2, CacheIsInductive, PTL DEF CacheSpec, OneOriginGoesForward, Forward
================================================================================
