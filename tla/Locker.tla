--------------------------------- MODULE Locker ---------------------------------
(***************************************************************************)
(* The locker of the query handler (internal/server/query_handler.go): a   *)
(* request is refused while another one with the same raw query string is  *)
(* in progress, unless that one is older than maxLockTime.                 *)
(***************************************************************************)
EXTENDS Naturals

CONSTANTS
    Request,            \* HTTP requests to /query
    Key,                \* raw query strings
    KeyOf,              \* the raw query string of each request
    MaxLockTime,        \* maxLockTime, in units of time
    RequestTimeout,     \* Global.RequestTimeout of the configuration
    MaxTime,            \* bound on the clock
    None                \* no entry in the lock table

ASSUME LockerAssumption ==
    /\ KeyOf \in [Request -> Key]
    /\ MaxLockTime \in Nat /\ RequestTimeout \in Nat /\ MaxTime \in Nat
    /\ None \notin [key : Request, ts : Nat]

VARIABLES
    now,                \* the clock
    runningQuery,       \* the lock table
    pc,                 \* where each request is
    started             \* when it started

vars == <<now, runningQuery, pc, started>>

LockInfo == [key : Request, ts : Nat]

Init ==
    /\ now = 0
    /\ runningQuery = [k \in Key |-> None]
    /\ pc = [r \in Request |-> "idle"]
    /\ started = [r \in Request |-> 0]

Running(r) == pc[r] = "running"

(* Mutant: an entry does not protect the request that made it. *)
CanLock_ByAge(k) ==
    runningQuery[k] # None => now - runningQuery[k].ts >= 1

(* tryLock takes a free entry, or one that is older than maxLockTime. *)
CanLock(k) ==
    runningQuery[k] # None => now - runningQuery[k].ts >= MaxLockTime

(* ServeHTTP: the request starts its work. *)
Acquire(r) ==
    /\ pc[r] = "idle"
    /\ CanLock(KeyOf[r])
    /\ runningQuery' = [runningQuery EXCEPT ![KeyOf[r]] = [key |-> r, ts |-> now]]
    /\ pc' = [pc EXCEPT ![r] = "running"]
    /\ started' = [started EXCEPT ![r] = now]
    /\ UNCHANGED now

(* ServeHTTP: "query in progress". *)
Refuse(r) ==
    /\ pc[r] = "idle"
    /\ ~ CanLock(KeyOf[r])
    /\ pc' = [pc EXCEPT ![r] = "refused"]
    /\ UNCHANGED <<now, runningQuery, started>>

(* Mutant: a request that ends early does not unlock. *)
Finish_NoUnlock(r) ==
    /\ Running(r)
    /\ runningQuery' = IF now = started[r] THEN runningQuery
                       ELSE [runningQuery EXCEPT ![KeyOf[r]] = None]
    /\ pc' = [pc EXCEPT ![r] = "done"]
    /\ UNCHANGED <<now, started>>

(* The deferred unlock, on every return of ServeHTTP: whoever holds the key. *)
Finish(r) ==
    /\ Running(r)
    /\ runningQuery' = [runningQuery EXCEPT ![KeyOf[r]] = None]
    /\ pc' = [pc EXCEPT ![r] = "done"]
    /\ UNCHANGED <<now, started>>

(* A request returns when its context is done: it is never older than its  *)
(* deadline.                                                               *)
Tick ==
    /\ now < MaxTime
    /\ \A r \in Request : Running(r) => now - started[r] < RequestTimeout
    /\ now' = now + 1
    /\ UNCHANGED <<runningQuery, pc, started>>

Next == Tick \/ \E r \in Request : Acquire(r) \/ Refuse(r) \/ Finish(r)

Spec == Init /\ [][Next]_vars

--------------------------------------------------------------------------------

TypeOK ==
    /\ now \in Nat
    /\ runningQuery \in [Key -> LockInfo \cup {None}]
    /\ pc \in [Request -> {"idle", "running", "done", "refused"}]
    /\ started \in [Request -> Nat]

(* The same request does not run twice at a time (query_handler.go:85, :135). *)
OneHolder ==
    \A r, s \in Request : Running(r) /\ Running(s) /\ KeyOf[r] = KeyOf[s] => r = s

(* The table has exactly the requests in progress: none runs without an     *)
(* entry of its own, and no entry outlives its request.                     *)
TableMatchesRequests ==
    /\ \A r \in Request : Running(r) =>
          /\ runningQuery[KeyOf[r]] # None
          /\ runningQuery[KeyOf[r]] = [key |-> r, ts |-> started[r]]
    /\ \A k \in Key : runningQuery[k] # None =>
          \E r \in Request : Running(r) /\ KeyOf[r] = k

--------------------------------------------------------------------------------
(* What makes TableMatchesRequests inductive. *)

NotOverdue ==
    \A r \in Request : Running(r) => started[r] <= now /\ now - started[r] <= RequestTimeout

Inductive == TypeOK /\ NotOverdue /\ TableMatchesRequests
================================================================================
