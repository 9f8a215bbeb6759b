------------------------------ MODULE LockerProofs ------------------------------
(***************************************************************************)
(* The locker keeps equal requests apart whenever requests are shorter      *)
(* than maxLockTime, for any number of requests and keys.                  *)
(***************************************************************************)
EXTENDS Locker, TLAPS

LEMMA LockerInit == Init => Inductive
  BY LockerAssumption DEF Init, Inductive, TypeOK, NotOverdue, TableMatchesRequests, Running

(* A running request is too young for its entry to be taken over. *)
LEMMA EntryProtects ==
    ASSUME Inductive, RequestTimeout < MaxLockTime,
           NEW r \in Request, Running(r)
    PROVE  ~ CanLock(KeyOf[r])
  <1>1. /\ runningQuery[KeyOf[r]] # None
        /\ runningQuery[KeyOf[r]] = [key |-> r, ts |-> started[r]]
        /\ started[r] \in Nat /\ now \in Nat /\ now - started[r] <= RequestTimeout
    BY DEF Inductive, TypeOK, NotOverdue, TableMatchesRequests
  <1> QED
    BY <1>1, LockerAssumption DEF CanLock

LEMMA LockerNext ==
    ASSUME Inductive, RequestTimeout < MaxLockTime, [Next]_vars
    PROVE  Inductive'
  <1> USE LockerAssumption DEF Inductive, TypeOK
  <1>1. CASE Tick
    <2>1. NotOverdue'
      BY <1>1 DEF Tick, NotOverdue, Running
    <2>2. TableMatchesRequests'
      BY <1>1 DEF Tick, TableMatchesRequests, Running
    <2>3. TypeOK'
      BY <1>1 DEF Tick
    <2> QED
      BY <2>1, <2>2, <2>3
  <1>2. ASSUME NEW r \in Request, Acquire(r)
        PROVE  Inductive'
    <2> DEFINE e == [key |-> r, ts |-> now]
    <2>1. /\ e \in LockInfo /\ e # None
          /\ KeyOf[r] \in Key
      BY DEF LockInfo
    <2>2. /\ TypeOK'
          /\ runningQuery'[KeyOf[r]] = e
          /\ \A k \in Key \ {KeyOf[r]} : runningQuery'[k] = runningQuery[k]
          /\ pc[r] = "idle" /\ pc'[r] = "running" /\ started'[r] = now
          /\ \A s \in Request \ {r} : pc'[s] = pc[s] /\ started'[s] = started[s]
      BY <1>2, <2>1 DEF Acquire
    <2>3. \A s \in Request : Running(s) => KeyOf[s] # KeyOf[r]
      BY <1>2, EntryProtects DEF Acquire
    <2>4. NotOverdue'
      BY <1>2, <2>2 DEF NotOverdue, Running, Acquire
    <2>5. TableMatchesRequests'
      <3> HIDE DEF e
      <3>1. \A s \in Request : Running(s)' =>
               /\ runningQuery'[KeyOf[s]] # None
               /\ runningQuery'[KeyOf[s]] = [key |-> s, ts |-> started'[s]]
        BY <2>1, <2>2, <2>3 DEF TableMatchesRequests, Running, e
      <3>2. \A k \in Key : runningQuery'[k] # None =>
               \E s \in Request : Running(s)' /\ KeyOf[s] = k
        BY <2>2 DEF TableMatchesRequests, Running
      <3> QED
        BY <3>1, <3>2 DEF TableMatchesRequests
    <2> QED
      BY <2>2, <2>4, <2>5
  <1>3. ASSUME NEW r \in Request, Refuse(r)
        PROVE  Inductive'
    BY <1>3 DEF Refuse, NotOverdue, TableMatchesRequests, Running
  <1>4. ASSUME NEW r \in Request, Finish(r)
        PROVE  Inductive'
    <2>1. /\ TypeOK'
          /\ runningQuery'[KeyOf[r]] = None
          /\ \A k \in Key \ {KeyOf[r]} : runningQuery'[k] = runningQuery[k]
          /\ Running(r) /\ pc'[r] = "done"
          /\ \A s \in Request \ {r} : pc'[s] = pc[s]
          /\ UNCHANGED <<now, started>>
      BY <1>4 DEF Finish, Running
    <2>2. \A s \in Request \ {r} : Running(s) => KeyOf[s] # KeyOf[r]
      <3> SUFFICES ASSUME NEW s \in Request \ {r}, Running(s), KeyOf[s] = KeyOf[r]
                   PROVE  FALSE
        OBVIOUS
      <3>1. [key |-> r, ts |-> started[r]] = [key |-> s, ts |-> started[s]]
        BY <2>1 DEF TableMatchesRequests
      <3> QED
        BY <3>1
    <2>3. NotOverdue'
      BY <2>1 DEF NotOverdue, Running
    <2>4. TableMatchesRequests'
      BY <2>1, <2>2 DEF TableMatchesRequests, Running
    <2> QED
      BY <2>1, <2>3, <2>4
  <1>5. CASE UNCHANGED vars
    BY <1>5 DEF vars, NotOverdue, TableMatchesRequests, Running
  <1> QED
    BY <1>1, <1>2, <1>3, <1>4, <1>5 DEF Next

LEMMA LockerInductive ==
    ASSUME RequestTimeout < MaxLockTime
    PROVE  Spec => []Inductive
  <1>1. Inductive /\ [Next]_vars => Inductive'
    BY LockerNext
  <1> QED
    BY <1>1, LockerInit, PTL DEF Spec

(* The lock table names exactly the requests in progress. *)
THEOREM LockerTable ==
    ASSUME RequestTimeout < MaxLockTime
    PROVE  Spec => []TableMatchesRequests
  <1>1. Inductive => TableMatchesRequests
    BY DEF Inductive
  <1> QED
    BY <1>1, LockerInductive, PTL

(* "Prevent to run the same request twice" (query_handler.go:135): true     *)
(* while the request timeout is shorter than maxLockTime.                   *)
THEOREM LockerOneHolder ==
    ASSUME RequestTimeout < MaxLockTime
    PROVE  Spec => []OneHolder
  <1>1. Inductive => OneHolder
    <2> SUFFICES ASSUME Inductive, NEW r \in Request, NEW s \in Request,
                        Running(r), Running(s), KeyOf[r] = KeyOf[s]
                 PROVE  r = s
      BY DEF OneHolder
    <2>1. [key |-> r, ts |-> started[r]] = [key |-> s, ts |-> started[s]]
      BY DEF Inductive, TableMatchesRequests
    <2> QED
      BY <2>1
  <1> QED
    BY <1>1, LockerInductive, PTL
================================================================================
