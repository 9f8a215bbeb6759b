--------------------------------- MODULE Database ---------------------------------
(***************************************************************************)
(* genericDatabase (internal/db/generic.go): the connection to one         *)
(* database.  The first query opens and pings the pool under a mutex; every *)
(* query takes a connection from the pool, runs the initial statements and *)
(* its own transaction on it and gives it back.  The metrics endpoint reads *)
(* the pool without the mutex.                                              *)
(*                                                                         *)
(* The pool is that of database/sql: Connx waits for a free connection or   *)
(* for the end of the context of the query.                                *)
(***************************************************************************)
EXTENDS Naturals, FiniteSets

CONSTANTS
    Caller,             \* goroutines that run queries
    InitialQuery,       \* the database has initial statements
    MaxConnections,     \* of the pool; 0 is no limit
    MaxPools,           \* bound on the calls of sqlx.Open
    None

ASSUME DatabaseAssumption ==
    /\ InitialQuery \in BOOLEAN
    /\ MaxConnections \in Nat /\ MaxPools \in Nat
    /\ None \notin Caller \cup Nat

VARIABLES
    conn,               \* g.conn, the number of a pool
    opened,             \* the number of pools that were opened
    openPools,          \* those that were not closed
    mu,                 \* the holder of g.mu
    pc,                 \* where Query is
    inUse,              \* callers that have a connection of the pool
    inTx,               \* callers that have a transaction on it
    cancelled,          \* callers whose context is done
    metricsPc           \* where CollectMetrics is

poolVars == <<conn, opened, openPools>>
connVars == <<inUse, inTx>>
vars == <<poolVars, mu, pc, connVars, cancelled, metricsPc>>

Init ==
    /\ conn = None
    /\ opened = 0
    /\ openPools = {}
    /\ mu = None
    /\ pc = [c \in Caller |-> "idle"]
    /\ inUse = {} /\ inTx = {}
    /\ cancelled = {}
    /\ metricsPc = "idle"

Goto(c, label) == pc' = [pc EXCEPT ![c] = label]

--------------------------------------------------------------------------------
(* openConnection.                                                           *)

Start(c) ==
    /\ pc[c] = "idle"
    /\ Goto(c, "open")
    /\ cancelled' = cancelled \ {c}
    /\ UNCHANGED <<poolVars, mu, connVars, metricsPc>>

(* Another query has opened the pool. *)
AlreadyOpen(c) ==
    /\ pc[c] = "open" /\ mu = None
    /\ conn # None
    /\ Goto(c, "connx")
    /\ UNCHANGED <<poolVars, mu, connVars, cancelled, metricsPc>>

(* Mutant: the mutex does not cover the ping. *)
Open_NoLock(c) ==
    /\ pc[c] = "open" /\ mu = None
    /\ conn = None /\ opened < MaxPools
    /\ opened' = opened + 1
    /\ conn' = opened + 1
    /\ openPools' = openPools \cup {opened + 1}
    /\ Goto(c, "ping")
    /\ UNCHANGED <<mu, connVars, cancelled, metricsPc>>

Open(c) ==
    /\ pc[c] = "open" /\ mu = None
    /\ conn = None /\ opened < MaxPools
    /\ opened' = opened + 1
    /\ conn' = opened + 1
    /\ openPools' = openPools \cup {opened + 1}
    /\ mu' = c
    /\ Goto(c, "ping")
    /\ UNCHANGED <<connVars, cancelled, metricsPc>>

OpenFails(c) ==
    /\ pc[c] = "open" /\ mu = None
    /\ conn = None
    /\ Goto(c, "idle")
    /\ UNCHANGED <<poolVars, mu, connVars, cancelled, metricsPc>>

PingSucceeds(c) ==
    /\ pc[c] = "ping"
    /\ mu' = None
    /\ Goto(c, "connx")
    /\ UNCHANGED <<poolVars, connVars, cancelled, metricsPc>>

(* Mutant: the pool is forgotten, not closed. *)
PingFails_NoClose(c) ==
    /\ pc[c] = "ping"
    /\ conn' = None
    /\ mu' = None
    /\ Goto(c, "idle")
    /\ UNCHANGED <<opened, openPools, connVars, cancelled, metricsPc>>

(* The database does not answer within ConnectTimeout: the next query tries  *)
(* again.                                                                    *)
PingFails(c) ==
    /\ pc[c] = "ping"
    /\ openPools' = openPools \ {conn}
    /\ conn' = None
    /\ mu' = None
    /\ Goto(c, "idle")
    /\ UNCHANGED <<opened, connVars, cancelled, metricsPc>>

--------------------------------------------------------------------------------
(* getConnection and Query.                                                  *)

PoolHasRoom == MaxConnections = 0 \/ Cardinality(inUse) < MaxConnections

Connx(c) ==
    /\ pc[c] = "connx"
    /\ PoolHasRoom
    /\ inUse' = inUse \cup {c}
    /\ Goto(c, IF InitialQuery THEN "initial" ELSE "begin")
    /\ UNCHANGED <<poolVars, mu, inTx, cancelled, metricsPc>>

(* The context ends the wait, or the driver cannot connect. *)
ConnxFails(c) ==
    /\ pc[c] = "connx"
    /\ c \in cancelled \/ PoolHasRoom
    /\ Goto(c, "idle")
    /\ UNCHANGED <<poolVars, mu, connVars, cancelled, metricsPc>>

InitialSucceeds(c) ==
    /\ pc[c] = "initial"
    /\ Goto(c, "begin")
    /\ UNCHANGED <<poolVars, mu, connVars, cancelled, metricsPc>>

(* Mutant: the connection is not given back. *)
InitialFails_Leak(c) ==
    /\ pc[c] = "initial"
    /\ Goto(c, "idle")
    /\ UNCHANGED <<poolVars, mu, connVars, cancelled, metricsPc>>

(* An initial statement fails or takes too long: the connection is closed    *)
(* here, for Query has not deferred it yet.                                  *)
InitialFails(c) ==
    /\ pc[c] = "initial"
    /\ inUse' = inUse \ {c}
    /\ Goto(c, "idle")
    /\ UNCHANGED <<poolVars, mu, inTx, cancelled, metricsPc>>

BeginTx(c) ==
    /\ pc[c] = "begin"
    /\ \/ inTx' = inTx \cup {c} /\ Goto(c, "query")
       \/ inTx' = inTx /\ Goto(c, "close")
    /\ UNCHANGED <<poolVars, mu, inUse, cancelled, metricsPc>>

(* The statement has rows or fails, the context is done, the rows cannot be  *)
(* read: the deferred Rollback comes next in all cases.                      *)
RunQuery(c) ==
    /\ pc[c] = "query"
    /\ Goto(c, "rollback")
    /\ UNCHANGED <<poolVars, mu, connVars, cancelled, metricsPc>>

(* Mutant: the connection is closed before the transaction. *)
Rollback_Late(c) ==
    /\ pc[c] = "rollback"
    /\ inUse' = inUse \ {c}
    /\ Goto(c, "close")
    /\ UNCHANGED <<poolVars, mu, inTx, cancelled, metricsPc>>

Rollback(c) ==
    /\ pc[c] = "rollback"
    /\ inTx' = inTx \ {c}
    /\ Goto(c, "close")
    /\ UNCHANGED <<poolVars, mu, inUse, cancelled, metricsPc>>

CloseConn(c) ==
    /\ pc[c] = "close"
    /\ inUse' = inUse \ {c}
    /\ Goto(c, "idle")
    /\ UNCHANGED <<poolVars, mu, inTx, cancelled, metricsPc>>

(* The task was cancelled, or its worker has left it. *)
Cancel(c) ==
    /\ pc[c] # "idle" /\ c \notin cancelled
    /\ cancelled' = cancelled \cup {c}
    /\ UNCHANGED <<poolVars, mu, pc, connVars, metricsPc>>

--------------------------------------------------------------------------------
(* CollectMetrics: g.conn is read twice, without the mutex.                  *)

CheckConn ==
    /\ metricsPc = "idle" /\ conn # None
    /\ metricsPc' = "stats"
    /\ UNCHANGED <<poolVars, mu, pc, connVars, cancelled>>

ReadStats ==
    /\ metricsPc = "stats"
    /\ metricsPc' = IF conn = None THEN "panicked" ELSE "idle"
    /\ UNCHANGED <<poolVars, mu, pc, connVars, cancelled>>

--------------------------------------------------------------------------------

TakeLock(c) == AlreadyOpen(c) \/ Open(c) \/ OpenFails(c)

Step(c) ==
    \/ PingSucceeds(c) \/ PingFails(c)
    \/ InitialSucceeds(c) \/ InitialFails(c)
    \/ BeginTx(c) \/ RunQuery(c) \/ Rollback(c) \/ CloseConn(c)

Next ==
    \/ \E c \in Caller :
         Start(c) \/ TakeLock(c) \/ Connx(c) \/ ConnxFails(c) \/ Step(c) \/ Cancel(c)
    \/ CheckConn \/ ReadStats

Spec == Init /\ [][Next]_vars

(* sync.Mutex and the pool of database/sql starve nobody, and every call of  *)
(* the driver returns: most have a deadline, ConnectTimeout or the timeout   *)
(* of the query, and a statement, which NamedQuery runs without a context,   *)
(* ends in the database.  Connx has none, and no query has to be cancelled.  *)
FairSpec ==
    /\ Spec
    /\ \A c \in Caller :
         SF_vars(TakeLock(c)) /\ SF_vars(Connx(c) \/ ConnxFails(c)) /\ WF_vars(Step(c))

--------------------------------------------------------------------------------

TypeOK ==
    /\ conn \in (1 .. MaxPools) \cup {None}
    /\ opened \in 0 .. MaxPools
    /\ openPools \subseteq 1 .. opened
    /\ mu \in Caller \cup {None}
    /\ pc \in [Caller -> {"idle", "open", "ping", "connx", "initial", "begin",
                          "query", "rollback", "close"}]
    /\ \A c \in Caller : mu = c <=> pc[c] = "ping"
    /\ inUse \subseteq Caller /\ inTx \subseteq Caller /\ cancelled \subseteq Caller
    /\ metricsPc \in {"idle", "stats", "panicked"}

(* No pool is lost while it is open: g.conn has the only one. *)
OnePool == openPools = IF conn = None THEN {} ELSE {conn}

(* A query that passed openConnection uses g.conn without the mutex; it is   *)
(* never the nil of another query whose ping failed.                         *)
PoolStays ==
    \A c \in Caller : pc[c] \notin {"idle", "open", "ping"} => conn # None

(* Every connection goes back to the pool, and not before its transaction    *)
(* has ended.                                                                *)
ConnectionsReturn ==
    /\ inTx \subseteq inUse
    /\ \A c \in Caller : pc[c] \in {"idle", "open", "ping", "connx"} => c \notin inUse

(* A query ends though nobody cancels it: it waits for the mutex and for a   *)
(* connection others have, and they give them back.                          *)
QueryEnds == \A c \in Caller : pc[c] # "idle" ~> pc[c] = "idle"
================================================================================
