------------------------------ MODULE DatabaseProofs ------------------------------
(***************************************************************************)
(* Proofs about Database.tla: for any number of queries, any limit of the  *)
(* pool and any order of failures, the pool a query uses is the one open   *)
(* pool of the database, and every connection goes back to it.             *)
(***************************************************************************)
EXTENDS Database, TLAPS

(* A pool that may still fail its ping is not used by anybody: whoever opens *)
(* it has the mutex, and without g.conn there was no query beyond it.        *)
PingAlone ==
    \A c \in Caller : pc[c] = "ping" =>
        /\ conn # None
        /\ \A d \in Caller : pc[d] \in {"idle", "open", "ping"}

(* Where a query holds a connection, and where a transaction. *)
Places ==
    /\ \A c \in inUse : pc[c] \in {"initial", "begin", "query", "rollback", "close"}
    /\ \A c \in inTx : pc[c] \in {"query", "rollback"}
    /\ \A c \in Caller :
         pc[c] \in {"initial", "begin", "query", "rollback", "close"} => c \in inUse

Inductive == TypeOK /\ OnePool /\ PoolStays /\ PingAlone /\ Places

LEMMA InitInductive == Init => Inductive
  BY DatabaseAssumption
  DEF Init, Inductive, TypeOK, OnePool, PoolStays, PingAlone, Places,
      DatabaseAssumption

(* The steps of openConnection: the only ones that change g.conn. *)
LEMMA OpenSteps ==
  ASSUME Inductive, NEW c \in Caller, TakeLock(c) \/ PingSucceeds(c) \/ PingFails(c)
  PROVE  Inductive'
<1> USE DatabaseAssumption
    DEF Inductive, TypeOK, OnePool, PoolStays, PingAlone, Places,
        DatabaseAssumption, Goto, poolVars, connVars
<1>1. CASE AlreadyOpen(c)
  BY <1>1 DEF AlreadyOpen
<1>2. CASE Open(c)
  <2>1. /\ conn' = opened + 1 /\ opened' = opened + 1 /\ opened' \in 0 .. MaxPools
        /\ openPools' = {conn'} /\ conn' # None /\ conn' \in 1 .. MaxPools
    BY <1>2 DEF Open
  <2>2. OnePool' /\ PoolStays' /\ PingAlone'
    BY <2>1, <1>2 DEF Open
  <2>3. Places'
    BY <1>2 DEF Open
  <2>4. TypeOK'
    <3>1. /\ conn' \in (1 .. MaxPools) \cup {None}
          /\ openPools' \subseteq 1 .. opened'
      BY <2>1
    <3>2. mu' \in Caller \cup {None} /\ \A d \in Caller : mu' = d <=> pc'[d] = "ping"
      BY <1>2 DEF Open
    <3>3. pc' \in [Caller -> {"idle", "open", "ping", "connx", "initial", "begin",
                              "query", "rollback", "close"}]
      BY <1>2 DEF Open
    <3> QED BY <2>1, <3>1, <3>2, <3>3, <1>2 DEF Open
  <2> QED BY <2>2, <2>3, <2>4
<1>3. CASE OpenFails(c)
  BY <1>3 DEF OpenFails
<1>4. CASE PingSucceeds(c)
  <2>1. mu = c /\ conn # None
    BY <1>4 DEF PingSucceeds
  <2> QED BY <2>1, <1>4 DEF PingSucceeds
<1>5. CASE PingFails(c)
  <2>1. mu = c
    BY <1>5 DEF PingFails
  <2> QED BY <2>1, <1>5 DEF PingFails
<1> QED BY <1>1, <1>2, <1>3, <1>4, <1>5 DEF TakeLock

(* The steps of Query, which leave g.conn and the mutex alone. *)
LEMMA QuerySteps ==
  ASSUME Inductive, NEW c \in Caller,
         \/ Start(c) \/ Connx(c) \/ ConnxFails(c)
         \/ InitialSucceeds(c) \/ InitialFails(c)
         \/ BeginTx(c) \/ RunQuery(c) \/ Rollback(c) \/ CloseConn(c) \/ Cancel(c)
  PROVE  Inductive'
<1> USE DatabaseAssumption
    DEF Inductive, TypeOK, OnePool, PoolStays, PingAlone, Places,
        DatabaseAssumption, Goto, poolVars, connVars
<1>1. CASE Start(c)
  BY <1>1 DEF Start
<1>2. CASE Connx(c)
  BY <1>2 DEF Connx
<1>3. CASE ConnxFails(c)
  BY <1>3 DEF ConnxFails
<1>4. CASE InitialSucceeds(c)
  BY <1>4 DEF InitialSucceeds
<1>5. CASE InitialFails(c)
  BY <1>5 DEF InitialFails
<1>6. CASE BeginTx(c)
  BY <1>6 DEF BeginTx
<1>7. CASE RunQuery(c)
  BY <1>7 DEF RunQuery
<1>8. CASE Rollback(c)
  BY <1>8 DEF Rollback
<1>9. CASE CloseConn(c)
  BY <1>9 DEF CloseConn
<1>10. CASE Cancel(c)
  BY <1>10 DEF Cancel
<1> QED
  BY <1>1, <1>2, <1>3, <1>4, <1>5, <1>6, <1>7, <1>8, <1>9, <1>10

LEMMA StepInductive == Inductive /\ [Next]_vars => Inductive'
<1> SUFFICES ASSUME Inductive, [Next]_vars PROVE Inductive'
  OBVIOUS
<1>1. CASE \E c \in Caller :
             Start(c) \/ TakeLock(c) \/ Connx(c) \/ ConnxFails(c) \/ Step(c) \/ Cancel(c)
  BY <1>1, OpenSteps, QuerySteps DEF Step
<1>2. CASE CheckConn
  BY <1>2 DEF CheckConn, Inductive, TypeOK, OnePool, PoolStays, PingAlone, Places,
              poolVars, connVars
<1>3. CASE ReadStats
  BY <1>3 DEF ReadStats, Inductive, TypeOK, OnePool, PoolStays, PingAlone, Places,
              poolVars, connVars
<1>4. CASE UNCHANGED vars
  BY <1>4 DEF vars, Inductive, TypeOK, OnePool, PoolStays, PingAlone, Places,
              poolVars, connVars
<1> QED BY <1>1, <1>2, <1>3, <1>4 DEF Next

LEMMA DatabaseInductive == Spec => []Inductive
  BY InitInductive, StepInductive, PTL DEF Spec

(* The variables of the database have their types, and g.mu is held exactly  *)
(* during a ping (openConnection).                                           *)
THEOREM DatabaseTypeOK == Spec => []TypeOK
<1>1. Inductive => TypeOK
  BY DEF Inductive
<1> QED BY <1>1, DatabaseInductive, PTL

(* g.conn has the only open pool, whatever queries open it at the same time. *)
THEOREM DatabaseOnePool == Spec => []OnePool
<1>1. Inductive => OnePool
  BY DEF Inductive
<1> QED BY <1>1, DatabaseInductive, PTL

(* A query that has passed openConnection never finds g.conn nil, though it  *)
(* reads it without the mutex (getConnection).                               *)
THEOREM DatabasePoolStays == Spec => []PoolStays
<1>1. Inductive => PoolStays
  BY DEF Inductive
<1> QED BY <1>1, DatabaseInductive, PTL

(* Every way out of Query gives the connection back, after the transaction.  *)
THEOREM DatabaseConnectionsReturn == Spec => []ConnectionsReturn
<1>1. Inductive => ConnectionsReturn
  BY DEF Inductive, TypeOK, Places, ConnectionsReturn
<1> QED BY <1>1, DatabaseInductive, PTL
================================================================================
