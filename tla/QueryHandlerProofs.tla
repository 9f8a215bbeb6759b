--------------------------- MODULE QueryHandlerProofs ---------------------------
(***************************************************************************)
(* Theorems about QueryHandler.tla for any requests, items and databases:  *)
(* equal requests stay apart, no item is answered twice, the count of the  *)
(* scheduled tasks is right, Output never blocks, and the handler uses the *)
(* collectors as their service allows.                                     *)
(***************************************************************************)
EXTENDS QueryHandler, FiniteSetTheorems, TLAPS

--------------------------------------------------------------------------------
(* The inductive invariant.                                                  *)

ItemsIn(s) == {s[n].item : n \in 1 .. Len(s)}
NoItemTwice(s) == \A m, n \in 1 .. Len(s) : s[m].item = s[n].item => m = n

(* Items whose task was handed over and whose answer is not gathered: the    *)
(* request counts on them, though a dropped one never comes.                *)
Unanswered(r) == {i \in ItemsOf[r] : taskState[<<r, i>>] \in {"pending", "dropped"}}
Awaited(r) == Unanswered(r) \cup ItemsIn(output[r])

(* Every item of a request is in one place only. *)
ItemsApart(r) ==
    /\ todo[r] \subseteq ItemsOf[r]
    /\ ItemsIn(output[r]) \subseteq ItemsOf[r]
    /\ ItemsIn(response[r]) \subseteq ItemsOf[r]
    /\ \A i \in todo[r] : taskState[<<r, i>>] = "new"
    /\ todo[r] \cap (ItemsIn(output[r]) \cup ItemsIn(response[r])) = {}
    /\ Unanswered(r) \cap (ItemsIn(output[r]) \cup ItemsIn(response[r])) = {}
    /\ ItemsIn(output[r]) \cap ItemsIn(response[r]) = {}
    /\ NoItemTwice(output[r]) /\ NoItemTwice(response[r])
    /\ \A n \in 1 .. Len(output[r]) :
         output[r][n].as = "invalid" => output[r][n].item \in InvalidOutput

(* The item AddTask runs for is no longer in the list; without a collector   *)
(* there is no task either.                                                 *)
CurrentApart(r) ==
    /\ pc[r] \in {"adding", "unknown"} => current[r] \in ItemsOf[r] \ todo[r]
    /\ pc[r] = "unknown" =>
         /\ taskState[<<r, current[r]>>] = "new"
         /\ current[r] \notin ItemsIn(output[r]) \cup ItemsIn(response[r])

(* No more tasks are counted than items were taken from the list. *)
Uncounted(r) == IF pc[r] \in {"adding", "unknown"} THEN 1 ELSE 0
CountFits(r) ==
    scheduled[r] + Uncounted(r) + Cardinality(todo[r]) <= Cardinality(ItemsOf[r])

(* Until its Output is closed a request in time counts what it waits for and *)
(* has lost sight of no item.                                               *)
InTime(r) ==
    /\ r \notin expired
    /\ pc[r] \in {"idle", "refused", "locked", "rejected", "schedule", "adding",
                  "unknown", "gather"}
Adding(r) == IF pc[r] = "adding" THEN 1 ELSE 0
CountMatches(r) == InTime(r) => scheduled[r] + Adding(r) = Cardinality(Awaited(r))
NoneForgotten(r) ==
    /\ InTime(r) =>
         \A i \in ItemsOf[r] \ InvalidOutput :
             \/ i \in todo[r] \cup Awaited(r) \cup ItemsIn(response[r])
             \/ pc[r] = "unknown" /\ i = current[r]
    /\ pc[r] = "gather" => todo[r] = {}
    /\ pc[r] \in {"unwinding", "done", "failed"} /\ r \notin expired =>
         ItemsOf[r] \ InvalidOutput \subseteq ItemsIn(response[r])

ItemsInv(r) == 
    /\ ItemsApart(r) /\ CurrentApart(r) /\ CountFits(r)
    /\ CountMatches(r) /\ NoneForgotten(r)

(* The key of a request in progress is in the lock table. *)
LockHeld == \A r \in Request : InProgress(r) => KeyOf[r] \in locked

(* A request whose configuration is outdated was there when the cache was    *)
(* cleared for the current one.                                             *)
OutdatedSpans ==
    \A r \in Request :
        InProgress(r) /\ pc[r] # "locked" /\ confPc = "idle" /\ version[r] < cfg =>
            r \in spanning

QueryInductive ==
    /\ TypeOK
    /\ \A r \in Request : ItemsInv(r)
    /\ LockHeld /\ SameRequestsApart
    /\ OutdatedSpans /\ StaleEntriesSpanReload

--------------------------------------------------------------------------------
(* Sequences of items.                                                       *)

LEMMA AppendItems ==
    ASSUME NEW T, NEW s \in Seq(T), NEW e \in T
    PROVE  /\ ItemsIn(Append(s, e)) = ItemsIn(s) \cup {e.item}
           /\ NoItemTwice(s) /\ e.item \notin ItemsIn(s) =>
                NoItemTwice(Append(s, e))
           /\ \A n \in 1 .. Len(Append(s, e)) :
                Append(s, e)[n] = e \/ \E m \in 1 .. Len(s) : Append(s, e)[n] = s[m]
  <1>1. /\ Len(Append(s, e)) = Len(s) + 1 /\ Len(s) \in Nat
        /\ Append(s, e)[Len(s) + 1] = e
        /\ \A n \in 1 .. Len(s) : Append(s, e)[n] = s[n]
    OBVIOUS
  <1>2. ItemsIn(Append(s, e)) \subseteq ItemsIn(s) \cup {e.item}
    BY <1>1 DEF ItemsIn
  <1>3. ItemsIn(s) \cup {e.item} \subseteq ItemsIn(Append(s, e))
    <2>1. e.item \in ItemsIn(Append(s, e))
      <3>1. Len(s) + 1 \in 1 .. Len(Append(s, e))
        BY <1>1
      <3> QED
        BY <1>1, <3>1 DEF ItemsIn
    <2>2. \A n \in 1 .. Len(s) : n \in 1 .. Len(Append(s, e))
      BY <1>1
    <2> QED
      BY <1>1, <2>1, <2>2 DEF ItemsIn
  <1>4. ASSUME NoItemTwice(s), e.item \notin ItemsIn(s)
        PROVE  NoItemTwice(Append(s, e))
    BY <1>1, <1>4 DEF NoItemTwice, ItemsIn
  <1> QED
    BY <1>1, <1>2, <1>3, <1>4

LEMMA TailItems ==
    ASSUME NEW T, NEW s \in Seq(T), s # <<>>
    PROVE  /\ Head(s) \in T /\ Tail(s) \in Seq(T)
           /\ ItemsIn(s) = ItemsIn(Tail(s)) \cup {Head(s).item}
           /\ Head(s) = s[1] /\ 1 \in 1 .. Len(s)
           /\ NoItemTwice(s) =>
                NoItemTwice(Tail(s)) /\ Head(s).item \notin ItemsIn(Tail(s))
           /\ \A n \in 1 .. Len(Tail(s)) : \E m \in 1 .. Len(s) : Tail(s)[n] = s[m]
  <1>1. /\ Len(Tail(s)) = Len(s) - 1 /\ Len(s) \in Nat \ {0}
        /\ Head(s) = s[1] /\ Head(s) \in T /\ Tail(s) \in Seq(T)
        /\ \A n \in 1 .. Len(Tail(s)) : Tail(s)[n] = s[n + 1] /\ n + 1 \in 1 .. Len(s)
    OBVIOUS
  <1>2. ItemsIn(Tail(s)) \cup {Head(s).item} \subseteq ItemsIn(s)
    BY <1>1 DEF ItemsIn
  <1>3. ASSUME NEW n \in 1 .. Len(s)
        PROVE  s[n].item \in ItemsIn(Tail(s)) \cup {Head(s).item}
    <2>1. CASE n = 1
      BY <1>1, <2>1
    <2>2. CASE n # 1
      <3>1. n - 1 \in 1 .. Len(Tail(s)) /\ (n - 1) + 1 = n
        BY <1>1, <2>2
      <3>2. Tail(s)[n - 1] = s[n]
        BY <1>1, <3>1
      <3> QED
        BY <3>1, <3>2 DEF ItemsIn
    <2> QED
      BY <2>1, <2>2
  <1>4. ASSUME NoItemTwice(s)
        PROVE  NoItemTwice(Tail(s)) /\ Head(s).item \notin ItemsIn(Tail(s))
    BY <1>1, <1>4 DEF NoItemTwice, ItemsIn
  <1>5. ItemsIn(s) \subseteq ItemsIn(Tail(s)) \cup {Head(s).item}
    BY <1>3 DEF ItemsIn
  <1> QED
    BY <1>1, <1>2, <1>4, <1>5

(* Without repetition there are as many items as elements. *)
LEMMA ItemsCount ==
    ASSUME NEW T, NEW s \in Seq(T), NoItemTwice(s)
    PROVE  IsFiniteSet(ItemsIn(s)) /\ Cardinality(ItemsIn(s)) = Len(s)
  <1> DEFINE f == [n \in 1 .. Len(s) |-> s[n].item]
  <1>1. Len(s) \in Nat
    OBVIOUS
  <1>2. f \in Bijection(1 .. Len(s), ItemsIn(s))
    BY DEF NoItemTwice, ItemsIn, Bijection, Injection, IsInjective,
           Surjection
  <1>3. IsFiniteSet(1 .. Len(s)) /\ Cardinality(1 .. Len(s)) = Len(s)
    BY <1>1, FS_Interval
  <1> HIDE DEF f
  <1>4. ExistsBijection(1 .. Len(s), ItemsIn(s))
    BY <1>2 DEF ExistsBijection
  <1> QED
    BY <1>3, <1>4, FS_Bijection

(* The sets of items of a request are finite. *)
LEMMA ItemsFinite ==
    ASSUME TypeOK, NEW r \in Request, ItemsApart(r)
    PROVE  /\ IsFiniteSet(ItemsOf[r]) /\ IsFiniteSet(todo[r])
           /\ IsFiniteSet(Awaited(r)) /\ IsFiniteSet(Unanswered(r))
           /\ Cardinality(ItemsOf[r]) \in Nat /\ Cardinality(todo[r]) \in Nat
           /\ Cardinality(Awaited(r)) \in Nat
           /\ Cardinality(ItemsOf[r]) <= Cardinality(Item)
           /\ Cardinality(Item) \in Nat
           /\ Awaited(r) \subseteq ItemsOf[r]
  <1>1. ItemsOf[r] \subseteq Item /\ IsFiniteSet(Item)
    BY QueryHandlerAssumption
  <1>2. IsFiniteSet(ItemsOf[r]) /\ Cardinality(ItemsOf[r]) <= Cardinality(Item)
    BY <1>1, FS_Subset
  <1>3. /\ todo[r] \subseteq ItemsOf[r] /\ Awaited(r) \subseteq ItemsOf[r]
        /\ Unanswered(r) \subseteq ItemsOf[r]
    BY DEF ItemsApart, Awaited, Unanswered
  <1>4. IsFiniteSet(todo[r]) /\ IsFiniteSet(Awaited(r)) /\ IsFiniteSet(Unanswered(r))
    BY <1>2, <1>3, FS_Subset
  <1> QED
    BY <1>1, <1>2, <1>3, <1>4, FS_CardinalityType

--------------------------------------------------------------------------------
(* Steps that leave the items of a request where they are: those of other    *)
(* requests, of the configuration, a task that is lost, a timeout, and those *)
(* of the request itself before and after its work.                         *)

Phase(r, p) ==
    \/ p = pc[r]
    \/ pc[r] \in {"idle", "locked"} /\ p \in {"refused", "locked", "rejected", "schedule"}
    \/ pc[r] = "unwinding" /\ p \in {"done", "failed"}
    \/ p \in {"panicking", "panicked"}

ItemsStay(r) ==
    /\ current'[r] = current[r] /\ todo'[r] = todo[r] /\ scheduled'[r] = scheduled[r]
    /\ response'[r] = response[r] /\ output'[r] = output[r]
    /\ r \in expired => r \in expired'
    /\ \A i \in ItemsOf[r] :
         \/ taskState'[<<r, i>>] = taskState[<<r, i>>]
         \/ taskState[<<r, i>>] = "pending" /\ taskState'[<<r, i>>] = "dropped"
    /\ Phase(r, pc'[r])

LEMMA StayingItems ==
    ASSUME TypeOK, NEW r \in Request, ItemsInv(r), ItemsStay(r)
    PROVE  ItemsInv(r)'
  <1>1. ItemsIn(output[r])' = ItemsIn(output[r]) /\ ItemsIn(response[r])' = ItemsIn(response[r])
    BY DEF ItemsStay, ItemsIn
  <1>2. Unanswered(r)' = Unanswered(r)
    BY DEF ItemsStay, Unanswered
  <1>3. Awaited(r)' = Awaited(r)
    BY <1>1, <1>2 DEF Awaited
  <1>4. InTime(r)' => InTime(r)
    BY DEF InTime, ItemsStay, Phase
  <1>5. ItemsApart(r)'
    <2>1. \A i \in todo[r] : taskState'[<<r, i>>] = "new"
      BY DEF ItemsInv, ItemsApart, ItemsStay
    <2>2. NoItemTwice(output[r])' /\ NoItemTwice(response[r])'
      BY DEF ItemsInv, ItemsApart, ItemsStay, NoItemTwice
    <2>3. \A n \in 1 .. Len(output'[r]) :
            output'[r][n].as = "invalid" => output'[r][n].item \in InvalidOutput
      BY DEF ItemsInv, ItemsApart, ItemsStay
    <2> QED
      BY <1>1, <1>2, <2>1, <2>2, <2>3 DEF ItemsInv, ItemsApart, ItemsStay
  <1>6. CurrentApart(r)'
    BY <1>1 DEF ItemsInv, CurrentApart, ItemsStay, Phase
  <1>7. CountFits(r)'
    <2>1. Uncounted(r)' <= Uncounted(r) /\ Uncounted(r)' \in Nat /\ Uncounted(r) \in Nat
      BY DEF Uncounted, ItemsStay, Phase
    <2>2. Cardinality(todo[r]) \in Nat /\ Cardinality(ItemsOf[r]) \in Nat /\ scheduled[r] \in Nat
      BY ItemsFinite DEF ItemsInv, TypeOK
    <2> QED
      BY <2>1, <2>2 DEF ItemsInv, CountFits, ItemsStay
  <1>8. CountMatches(r)'
    <2>1. InTime(r)' => Adding(r)' = Adding(r)
      BY DEF InTime, Adding, ItemsStay, Phase
    <2> QED
      BY <1>3, <1>4, <2>1 DEF ItemsInv, CountMatches, ItemsStay
  <1>9. NoneForgotten(r)'
    <2>1. InTime(r)' =>
            \A i \in ItemsOf[r] \ InvalidOutput :
                \/ i \in todo'[r] \cup Awaited(r)' \cup ItemsIn(response[r])'
                \/ pc'[r] = "unknown" /\ i = current'[r]
      BY <1>1, <1>3, <1>4 DEF ItemsInv, NoneForgotten, ItemsStay, InTime, Phase
    <2>2. pc'[r] = "gather" => todo'[r] = {}
      BY DEF ItemsInv, NoneForgotten, ItemsStay, Phase
    <2>3. pc'[r] \in {"unwinding", "done", "failed"} /\ r \notin expired' =>
            ItemsOf[r] \ InvalidOutput \subseteq ItemsIn(response[r])'
      BY <1>1 DEF ItemsInv, NoneForgotten, ItemsStay, Phase
    <2> QED
      BY <2>1, <2>2, <2>3 DEF NoneForgotten
  <1> QED
    BY <1>5, <1>6, <1>7, <1>8, <1>9 DEF ItemsInv

--------------------------------------------------------------------------------
(* Steps that move an item of the request.                                   *)

LEMMA ServeFromCacheItems ==
    ASSUME TypeOK, NEW r \in Request, NEW i \in Item, ItemsInv(r), ServeFromCache(r, i)
    PROVE  ItemsInv(r)'
  <1> DEFINE e == [item |-> i, from |-> "cache"]
  <1>1. /\ i \in todo[r] /\ pc[r] = "schedule" /\ e \in Entry /\ e.item = i
        /\ response[r] \in Seq(Entry) /\ response'[r] = Append(response[r], e)
        /\ todo'[r] = todo[r] \ {i} /\ output' = output /\ taskState' = taskState
        /\ pc' = pc /\ current' = current /\ scheduled' = scheduled /\ expired' = expired
    BY DEF ServeFromCache, Write, TypeOK, serviceVars, Entry
  <1> HIDE DEF e
  <1>2. /\ ItemsIn(response[r])' = ItemsIn(response[r]) \cup {i}
        /\ i \notin ItemsIn(response[r]) => NoItemTwice(response[r])'
    BY <1>1, AppendItems DEF ItemsInv, ItemsApart
  <1>3. /\ ItemsIn(output[r])' = ItemsIn(output[r]) /\ Unanswered(r)' = Unanswered(r)
        /\ Awaited(r)' = Awaited(r)
    BY <1>1 DEF Unanswered, Awaited
  <1>4. ItemsApart(r)'
    <2>1. i \notin Unanswered(r)
      BY <1>1 DEF ItemsInv, ItemsApart, Unanswered
    <2>2. NoItemTwice(output[r])' /\ NoItemTwice(response[r])'
      BY <1>1, <1>2 DEF ItemsInv, ItemsApart
    <2> QED
      BY <1>1, <1>2, <1>3, <2>1, <2>2 DEF ItemsInv, ItemsApart
  <1>5. CurrentApart(r)'
    BY <1>1 DEF CurrentApart
  <1>6. CountFits(r)'
    <2>1. Cardinality(todo[r] \ {i}) = Cardinality(todo[r]) - 1
      BY <1>1, ItemsFinite, FS_RemoveElement DEF ItemsInv
    <2>2. Uncounted(r)' = Uncounted(r) /\ Uncounted(r) \in Nat /\ scheduled[r] \in Nat
      BY <1>1 DEF Uncounted, TypeOK
    <2> QED
      BY <1>1, <2>1, <2>2, ItemsFinite DEF ItemsInv, CountFits
  <1>7. CountMatches(r)'
    BY <1>1, <1>3 DEF ItemsInv, CountMatches, InTime, Adding
  <1>8. NoneForgotten(r)'
    BY <1>1, <1>2, <1>3 DEF ItemsInv, NoneForgotten, InTime
  <1> QED
    BY <1>4, <1>5, <1>6, <1>7, <1>8 DEF ItemsInv

LEMMA StartAddTaskItems ==
    ASSUME TypeOK, NEW r \in Request, NEW i \in Item, ItemsInv(r), StartAddTask(r, i)
    PROVE  ItemsInv(r)'
  <1>1. /\ i \in todo[r] /\ pc[r] = "schedule" /\ todo'[r] = todo[r] \ {i}
        /\ output' = output /\ response' = response /\ current'[r] = i
        /\ scheduled' = scheduled /\ expired' = expired
    BY DEF StartAddTask, TypeOK, Goto
  <1>2. /\ i \in ItemsOf[r] /\ taskState[<<r, i>>] = "new" /\ <<r, i>> \in Task
        /\ i \notin Awaited(r) /\ i \notin ItemsIn(output[r]) /\ i \notin ItemsIn(response[r])
    BY <1>1 DEF ItemsInv, ItemsApart, Awaited, Unanswered, Task
  <1>3. /\ ItemsIn(output[r])' = ItemsIn(output[r])
        /\ ItemsIn(response[r])' = ItemsIn(response[r])
    BY <1>1
  <1>4. CountFits(r)'
    <2>1. Cardinality(todo[r] \ {i}) = Cardinality(todo[r]) - 1
      BY <1>1, ItemsFinite, FS_RemoveElement DEF ItemsInv
    <2>2. Uncounted(r)' = 1 /\ Uncounted(r) = 0 /\ scheduled[r] \in Nat
      BY <1>1 DEF Uncounted, TypeOK, StartAddTask, Goto
    <2> QED
      BY <1>1, <2>1, <2>2, ItemsFinite DEF ItemsInv, CountFits
  <1>5. CASE pc'[r] = "unknown" /\ taskState' = taskState
    <2>1. Unanswered(r)' = Unanswered(r) /\ Awaited(r)' = Awaited(r)
      BY <1>3, <1>5 DEF Unanswered, Awaited
    <2>2. ItemsApart(r)'
      BY <1>1, <1>3, <1>5, <2>1 DEF ItemsInv, ItemsApart
    <2>3. CurrentApart(r)'
      BY <1>1, <1>2, <1>3, <1>5 DEF CurrentApart
    <2>4. CountMatches(r)'
      BY <1>1, <1>5, <2>1 DEF ItemsInv, CountMatches, InTime, Adding
    <2>5. NoneForgotten(r)'
      BY <1>1, <1>3, <1>5, <2>1 DEF ItemsInv, NoneForgotten, InTime
    <2> QED
      BY <1>4, <2>2, <2>3, <2>4, <2>5 DEF ItemsInv
  <1>6. CASE /\ pc'[r] = "adding"
             /\ taskState' = [taskState EXCEPT ![<<r, i>>] = "pending"]
    <2>1. /\ taskState'[<<r, i>>] = "pending"
          /\ \A j \in ItemsOf[r] \ {i} : taskState'[<<r, j>>] = taskState[<<r, j>>]
      BY <1>2, <1>6 DEF TypeOK, Task
    <2>2. Unanswered(r)' = Unanswered(r) \cup {i} /\ Awaited(r)' = Awaited(r) \cup {i}
      BY <1>2, <1>3, <2>1 DEF Unanswered, Awaited
    <2>3. ItemsApart(r)'
      BY <1>1, <1>2, <1>3, <2>1, <2>2 DEF ItemsInv, ItemsApart
    <2>4. CurrentApart(r)'
      BY <1>1, <1>2, <1>6 DEF CurrentApart
    <2>5. CountMatches(r)'
      <3>1. Cardinality(Awaited(r) \cup {i}) = Cardinality(Awaited(r)) + 1
        BY <1>2, ItemsFinite, FS_AddElement DEF ItemsInv
      <3> QED
        BY <1>1, <1>6, <2>2, <3>1 DEF ItemsInv, CountMatches, InTime, Adding, TypeOK
    <2>6. NoneForgotten(r)'
      BY <1>1, <1>3, <1>6, <2>2 DEF ItemsInv, NoneForgotten, InTime
    <2> QED
      BY <1>4, <2>3, <2>4, <2>5, <2>6 DEF ItemsInv
  <1> QED
    BY <1>5, <1>6 DEF StartAddTask, Goto, TypeOK

(* AddTask is over: it counts one task more and takes the next item. *)
LEMMA CountScheduledItems ==
    ASSUME TypeOK, NEW r \in Request, ItemsInv(r), CountScheduled(r),
           pc[r] \in {"adding", "unknown"}, todo' = todo
    PROVE  /\ CurrentApart(r)' /\ CountFits(r)'
           /\ pc'[r] = "schedule" /\ scheduled'[r] = scheduled[r] + 1
  <1>1. pc'[r] = "schedule" /\ scheduled'[r] = scheduled[r] + 1 /\ scheduled[r] \in Nat
    BY DEF CountScheduled, Goto, TypeOK
  <1>2. Uncounted(r) = 1 /\ Uncounted(r)' = 0
    BY <1>1 DEF Uncounted
  <1> QED
    BY <1>1, <1>2, ItemsFinite DEF ItemsInv, CurrentApart, CountFits

LEMMA AddUnknownItems ==
    ASSUME TypeOK, NEW r \in Request, ItemsInv(r), AddUnknown(r)
    PROVE  ItemsInv(r)'
  <1> DEFINE i == current[r]
             e == [item |-> i, as |-> "error"]
  <1>1. /\ pc[r] = "unknown" /\ i \in ItemsOf[r] \ todo[r] /\ i \in Item
        /\ taskState[<<r, i>>] = "new"
        /\ i \notin ItemsIn(output[r]) /\ i \notin ItemsIn(response[r])
    BY QueryHandlerAssumption DEF AddUnknown, ItemsInv, CurrentApart
  <1>2. /\ e \in Message /\ e.item = i /\ output[r] \in Seq(Message) /\ e.as = "error"
        /\ output'[r] = Append(output[r], e)
        /\ response' = response /\ taskState' = taskState /\ todo' = todo
        /\ expired' = expired
    BY <1>1 DEF AddUnknown, TypeOK, Message, serviceVars
  <1>3. /\ CurrentApart(r)' /\ CountFits(r)'
        /\ pc'[r] = "schedule" /\ scheduled'[r] = scheduled[r] + 1
    BY <1>1, <1>2, CountScheduledItems DEF AddUnknown
  <1> HIDE DEF i, e
  <1>4. /\ ItemsIn(output[r])' = ItemsIn(output[r]) \cup {i}
        /\ NoItemTwice(output[r])'
        /\ \A n \in 1 .. Len(output'[r]) :
             output'[r][n] = e \/ \E m \in 1 .. Len(output[r]) : output'[r][n] = output[r][m]
    BY <1>1, <1>2, AppendItems DEF ItemsInv, ItemsApart
  <1>5. /\ ItemsIn(response[r])' = ItemsIn(response[r])
        /\ Unanswered(r)' = Unanswered(r) /\ i \notin Unanswered(r)
        /\ Awaited(r)' = Awaited(r) \cup {i} /\ i \notin Awaited(r)
    BY <1>1, <1>2, <1>4 DEF Unanswered, Awaited
  <1>6. ItemsApart(r)'
    BY <1>1, <1>2, <1>4, <1>5 DEF ItemsInv, ItemsApart
  <1>7. CountMatches(r)'
    <2>1. Cardinality(Awaited(r) \cup {i}) = Cardinality(Awaited(r)) + 1
      BY <1>5, ItemsFinite, FS_AddElement DEF ItemsInv
    <2> QED
      BY <1>1, <1>2, <1>3, <1>5, <2>1 DEF ItemsInv, CountMatches, InTime, Adding, TypeOK
  <1>8. NoneForgotten(r)'
    BY <1>1, <1>2, <1>3, <1>5 DEF ItemsInv, NoneForgotten, InTime, i
  <1> QED
    BY <1>3, <1>6, <1>7, <1>8 DEF ItemsInv

(* AddReturns and AddGivesUp *)
LEMMA AddEndsItems ==
    ASSUME TypeOK, NEW r \in Request, ItemsInv(r), AddReturns(r) \/ AddGivesUp(r)
    PROVE  ItemsInv(r)'
  <1>1. /\ output' = output /\ response' = response /\ taskState' = taskState
        /\ todo' = todo /\ expired' = expired /\ CountScheduled(r)
    BY DEF AddReturns, AddGivesUp, serviceVars
  <1>2. pc[r] = "adding" \/ (pc[r] = "unknown" /\ r \in expired)
    BY DEF AddReturns, AddGivesUp, serviceVars
  <1>3. /\ CurrentApart(r)' /\ CountFits(r)'
        /\ pc'[r] = "schedule" /\ scheduled'[r] = scheduled[r] + 1
    BY <1>1, <1>2, CountScheduledItems
  <1>4. /\ ItemsIn(output[r])' = ItemsIn(output[r])
        /\ ItemsIn(response[r])' = ItemsIn(response[r])
        /\ Unanswered(r)' = Unanswered(r) /\ Awaited(r)' = Awaited(r)
    BY <1>1 DEF Unanswered, Awaited
  <1>5. ItemsApart(r)'
    BY <1>1, <1>4 DEF ItemsInv, ItemsApart
  <1>6. CountMatches(r)'
    BY <1>1, <1>2, <1>3, <1>4, ItemsFinite DEF ItemsInv, CountMatches, InTime, Adding, TypeOK
  <1>7. NoneForgotten(r)'
    BY <1>1, <1>2, <1>3, <1>4 DEF ItemsInv, NoneForgotten, InTime
  <1> QED
    BY <1>3, <1>5, <1>6, <1>7 DEF ItemsInv

(* gatherResults takes the first message of Output. *)
TakeFirst(r) ==
    /\ pc[r] = "gather" /\ scheduled[r] > 0 /\ output[r] # <<>>
    /\ output' = [output EXCEPT ![r] = Tail(@)]
    /\ scheduled' = [scheduled EXCEPT ![r] = @ - 1]
    /\ UNCHANGED <<pc, current, todo, expired, taskState>>

LEMMA TakeFirstItems ==
    ASSUME TypeOK, NEW r \in Request, ItemsInv(r), TakeFirst(r),
           NEW i, i = Head(output[r]).item,
           \/ /\ i \in InvalidOutput /\ response' = response
           \/ \E e \in Entry : e.item = i /\ response'[r] = Append(response[r], e)
    PROVE  ItemsInv(r)'
  <1>1. /\ pc[r] = "gather" /\ pc'[r] = "gather" /\ scheduled[r] \in Nat
        /\ output[r] \in Seq(Message) /\ response[r] \in Seq(Entry) /\ output[r] # <<>>
        /\ output'[r] = Tail(output[r]) /\ scheduled'[r] = scheduled[r] - 1
        /\ current' = current /\ todo' = todo /\ expired' = expired
        /\ taskState' = taskState
    BY DEF TakeFirst, TypeOK
  <1>2. /\ ItemsIn(output[r]) = ItemsIn(output[r])' \cup {i} /\ i \notin ItemsIn(output[r])'
        /\ NoItemTwice(output[r])'
        /\ \A n \in 1 .. Len(output'[r]) :
             \E m \in 1 .. Len(output[r]) : output'[r][n] = output[r][m]
    BY <1>1, TailItems DEF ItemsInv, ItemsApart
  <1>3. i \in ItemsOf[r] /\ i \notin todo[r] /\ i \notin Unanswered(r) /\ i \notin ItemsIn(response[r])
    BY <1>2 DEF ItemsInv, ItemsApart
  <1>4. /\ Unanswered(r)' = Unanswered(r)
        /\ Awaited(r)' = Awaited(r) \ {i} /\ i \in Awaited(r)
    BY <1>1, <1>2, <1>3 DEF Unanswered, Awaited
  <1>5. /\ NoItemTwice(response[r])'
        /\ \/ i \in InvalidOutput /\ ItemsIn(response[r])' = ItemsIn(response[r])
           \/ ItemsIn(response[r])' = ItemsIn(response[r]) \cup {i}
    <2>1. NoItemTwice(response[r])
      BY DEF ItemsInv, ItemsApart
    <2>2. ASSUME NEW e \in Entry, e.item = i, response'[r] = Append(response[r], e)
          PROVE  /\ NoItemTwice(response[r])'
                 /\ ItemsIn(response[r])' = ItemsIn(response[r]) \cup {i}
      BY <1>1, <1>3, <2>1, <2>2, AppendItems
    <2> QED
      BY <2>1, <2>2
  <1>6. ItemsApart(r)'
    BY <1>1, <1>2, <1>3, <1>4, <1>5 DEF ItemsInv, ItemsApart
  <1>7. CurrentApart(r)'
    BY <1>1 DEF CurrentApart
  <1>8. CountFits(r)'
    BY <1>1, ItemsFinite DEF ItemsInv, CountFits, Uncounted
  <1>9. CountMatches(r)'
    <2>1. IsFiniteSet(Awaited(r)) /\ Cardinality(Awaited(r)) \in Nat
      BY ItemsFinite DEF ItemsInv
    <2>2. Cardinality(Awaited(r) \ {i}) = Cardinality(Awaited(r)) - 1
      BY <1>4, <2>1, FS_RemoveElement
    <2> QED
      BY <1>1, <1>4, <2>1, <2>2 DEF ItemsInv, CountMatches, InTime, Adding
  <1>10. NoneForgotten(r)'
    BY <1>1, <1>4, <1>5 DEF ItemsInv, NoneForgotten, InTime
  <1> QED
    BY <1>6, <1>7, <1>8, <1>9, <1>10 DEF ItemsInv

LEMMA GatherItems ==
    ASSUME TypeOK, NEW r \in Request, ItemsInv(r),
           GatherError(r) \/ GatherInvalid(r) \/ GatherResult(r)
    PROVE  ItemsInv(r)'
  <1> DEFINE i == Head(output[r]).item
  <1>1. /\ output[r] \in Seq(Message) /\ response[r] \in Seq(Entry) /\ output[r] # <<>>
        /\ TakeFirst(r)
    BY DEF GatherError, GatherInvalid, GatherResult, TakeFirst, TypeOK, serviceVars, confVars
  <1>2. /\ Head(output[r]) \in Message /\ Head(output[r]) = output[r][1]
        /\ 1 \in 1 .. Len(output[r])
    BY <1>1, TailItems
  <1>3. i \in Item
    BY <1>2 DEF Message
  <1>4. CASE GatherInvalid(r)
    <2>1. i \in InvalidOutput /\ response' = response
      BY <1>2, <1>4 DEF GatherInvalid, ItemsInv, ItemsApart
    <2> QED
      BY <1>1, <2>1, TakeFirstItems
  <1>5. CASE GatherError(r) \/ GatherResult(r)
    <2> DEFINE e(from) == [item |-> i, from |-> from]
    <2>1. \A from \in {"error", "result"} : e(from) \in Entry /\ e(from).item = i
      BY <1>3 DEF Entry
    <2>2. \E from \in {"error", "result"} : response'[r] = Append(response[r], e(from))
      BY <1>5 DEF GatherError, GatherResult, Write, TypeOK
    <2>3. \E m \in Entry : m.item = i /\ response'[r] = Append(response[r], m)
      BY <2>1, <2>2
    <2> HIDE DEF i
    <2>4. i = Head(output[r]).item
      BY DEF i
    <2> QED
      BY <1>1, <2>3, <2>4, TakeFirstItems
  <1> QED
    BY <1>4, <1>5

LEMMA StartGatherItems ==
    ASSUME TypeOK, NEW r \in Request, ItemsInv(r), StartGather(r)
    PROVE  ItemsInv(r)'
  <1>1. /\ pc[r] = "schedule" /\ pc'[r] = "gather" /\ todo[r] = {}
        /\ UNCHANGED <<current, todo, scheduled, response, output, expired, taskState>>
    BY DEF StartGather, Goto, TypeOK, serviceVars
  <1>2. /\ ItemsIn(output[r])' = ItemsIn(output[r])
        /\ ItemsIn(response[r])' = ItemsIn(response[r])
        /\ Unanswered(r)' = Unanswered(r) /\ Awaited(r)' = Awaited(r)
    BY <1>1 DEF Unanswered, Awaited
  <1>3. ItemsApart(r)'
    BY <1>1, <1>2 DEF ItemsInv, ItemsApart
  <1> QED
    BY <1>1, <1>2, <1>3 DEF ItemsInv, CurrentApart, CountFits, Uncounted, CountMatches,
       Adding, NoneForgotten, InTime

(* Nothing is awaited when the count is zero. *)
LEMMA EndGatherItems ==
    ASSUME TypeOK, NEW r \in Request, ItemsInv(r), EndGather(r)
    PROVE  ItemsInv(r)'
  <1>1. /\ pc[r] = "gather" /\ pc'[r] = "unwinding"
        /\ scheduled[r] = 0 \/ r \in expired
        /\ UNCHANGED <<current, todo, scheduled, response, output, expired, taskState>>
    BY DEF EndGather, Goto, TypeOK, serviceVars
  <1>2. /\ ItemsIn(output[r])' = ItemsIn(output[r])
        /\ ItemsIn(response[r])' = ItemsIn(response[r])
        /\ Unanswered(r)' = Unanswered(r)
    BY <1>1 DEF Unanswered
  <1>3. ItemsApart(r)'
    BY <1>1, <1>2 DEF ItemsInv, ItemsApart
  <1>4. r \notin expired => ItemsOf[r] \ InvalidOutput \subseteq ItemsIn(response[r])
    <2> SUFFICES ASSUME r \notin expired
                 PROVE  ItemsOf[r] \ InvalidOutput \subseteq ItemsIn(response[r])
      OBVIOUS
    <2>1. Cardinality(Awaited(r)) = 0
      BY <1>1 DEF ItemsInv, CountMatches, InTime, Adding
    <2>2. Awaited(r) = {}
      BY <2>1, ItemsFinite, FS_EmptySet DEF ItemsInv
    <2> QED
      BY <1>1, <2>2 DEF ItemsInv, NoneForgotten, InTime
  <1> QED
    BY <1>1, <1>2, <1>3, <1>4 DEF ItemsInv, CurrentApart, CountFits, Uncounted,
       CountMatches, NoneForgotten, InTime

(* A worker's answer takes the item from the task to Output. *)
LEMMA AnswerItems ==
    ASSUME TypeOK, NEW r \in Request, NEW i \in ItemsOf[r], ItemsInv(r), Answer(<<r, i>>)
    PROVE  ItemsInv(r)'
  <1>1. <<r, i>> \in Task /\ i \in Item
    BY QueryHandlerAssumption DEF Task
  <1>2. PICK as \in ResultOf(i) :
          output' = [output EXCEPT ![r] = Append(@, [item |-> i, as |-> as])]
    BY DEF Answer
  <1> DEFINE e == [item |-> i, as |-> as]
  <1>3. /\ e \in Message /\ e.item = i /\ output[r] \in Seq(Message)
        /\ output'[r] = Append(output[r], e)
        /\ e.as = "invalid" => i \in InvalidOutput
    BY <1>1, <1>2 DEF TypeOK, Message, ResultOf
  <1>4. /\ pc' = pc /\ current' = current /\ todo' = todo /\ scheduled' = scheduled
        /\ response' = response /\ expired' = expired
        /\ taskState[<<r, i>>] = "pending" /\ taskState'[<<r, i>>] = "answered"
        /\ \A j \in ItemsOf[r] \ {i} : taskState'[<<r, j>>] = taskState[<<r, j>>]
        /\ ~ OutputClosed(r)
    BY <1>1 DEF Answer, requestVars, TypeOK, Task
  <1> HIDE DEF e
  <1>5. /\ i \in Unanswered(r) /\ i \notin todo[r]
        /\ i \notin ItemsIn(output[r]) /\ i \notin ItemsIn(response[r])
    BY <1>4 DEF Unanswered, ItemsInv, ItemsApart
  <1>6. /\ ItemsIn(output[r])' = ItemsIn(output[r]) \cup {i}
        /\ NoItemTwice(output[r])'
        /\ \A n \in 1 .. Len(output'[r]) :
             output'[r][n] = e \/ \E m \in 1 .. Len(output[r]) : output'[r][n] = output[r][m]
    <2>1. NoItemTwice(output[r])
      BY DEF ItemsInv, ItemsApart
    <2> QED
      BY <1>3, <1>5, <2>1, AppendItems
  <1>7. /\ ItemsIn(response[r])' = ItemsIn(response[r])
        /\ Unanswered(r)' = Unanswered(r) \ {i}
    BY <1>4, <1>5 DEF Unanswered
  <1>8. Awaited(r)' = Awaited(r)
    BY <1>5, <1>6, <1>7 DEF Awaited
  <1>9. ItemsApart(r)'
    <2>1. \A n \in 1 .. Len(output'[r]) :
            output'[r][n].as = "invalid" => output'[r][n].item \in InvalidOutput
      BY <1>3, <1>6 DEF ItemsInv, ItemsApart
    <2>2. \A j \in todo[r] : taskState'[<<r, j>>] = "new"
      BY <1>4, <1>5 DEF ItemsInv, ItemsApart
    <2> QED
      BY <1>4, <1>5, <1>6, <1>7, <2>1, <2>2 DEF ItemsInv, ItemsApart
  <1>10. CurrentApart(r)'
    <2>1. pc[r] = "unknown" => current[r] # i
      BY <1>4 DEF ItemsInv, CurrentApart
    <2> QED
      BY <1>4, <1>6, <1>7, <2>1 DEF ItemsInv, CurrentApart
  <1>11. CountFits(r)' /\ CountMatches(r)'
    BY <1>4, <1>8 DEF ItemsInv, CountFits, Uncounted, CountMatches, InTime, Adding
  <1>12. NoneForgotten(r)'
    BY <1>4, <1>7, <1>8 DEF ItemsInv, NoneForgotten, InTime
  <1> QED
    BY <1>9, <1>10, <1>11, <1>12 DEF ItemsInv

(* A request moves only its own items. *)
LEMMA OthersStay ==
    ASSUME TypeOK, NEW r \in Request, NEW s \in Request \ {r},
           Serve(r) \/ AddReturns(r) \/ AddPanics(r) \/ Expire(r)
    PROVE  ItemsStay(s)
  <1> USE DEF TypeOK, ItemsStay, Phase, Goto, serviceVars
  <1>1. CASE TryLock(r) \/ ParseParams(r)
    BY <1>1 DEF TryLock, ParseParams
  <1>2. ASSUME NEW i \in Item, ServeFromCache(r, i) \/ StartAddTask(r, i)
        PROVE  ItemsStay(s)
    <2>1. CASE ServeFromCache(r, i)
      BY <2>1 DEF ServeFromCache, Write
    <2>2. CASE StartAddTask(r, i)
      <3>1. \A j \in ItemsOf[s] : <<s, j>> \in Task /\ <<s, j>> # <<r, i>>
        BY QueryHandlerAssumption DEF Task
      <3>2. \A j \in ItemsOf[s] : taskState'[<<s, j>>] = taskState[<<s, j>>]
        BY <2>2, <3>1 DEF StartAddTask
      <3> QED
        BY <2>2, <3>2 DEF StartAddTask
    <2> QED
      BY <1>2, <2>1, <2>2
  <1>3. CASE AddUnknown(r) \/ AddGivesUp(r) \/ AddReturns(r)
    BY <1>3 DEF AddUnknown, AddGivesUp, AddReturns, CountScheduled
  <1>4. CASE AddPanics(r)
    <2>1. \A i \in ItemsOf[s] : taskState'[<<s, i>>] = taskState[<<s, i>>]
      BY <1>4 DEF AddPanics, Task
    <2> QED
      BY <1>4, <2>1 DEF AddPanics
  <1>5. CASE StartGather(r) \/ EndGather(r) \/ Unwind(r) \/ UnwindPanic(r) \/ Expire(r)
    BY <1>5 DEF StartGather, EndGather, Unwind, UnwindPanic, Expire
  <1>6. CASE GatherError(r) \/ GatherInvalid(r) \/ GatherResult(r)
    BY <1>6 DEF GatherError, GatherInvalid, GatherResult, Write, confVars
  <1> QED
    BY <1>1, <1>2, <1>3, <1>5, <1>6, <1>4 DEF Serve

LEMMA ServeItems ==
    ASSUME TypeOK, NEW r \in Request, ItemsInv(r),
           Serve(r) \/ AddReturns(r) \/ AddPanics(r) \/ Expire(r)
    PROVE  ItemsInv(r)'
  <1>1. CASE TryLock(r) \/ ParseParams(r)
    <2>1. ItemsStay(r)
      BY <1>1 DEF TryLock, ParseParams, TypeOK, ItemsStay, Phase, Goto, serviceVars
    <2> QED
      BY <2>1, StayingItems
  <1>2. CASE Unwind(r) \/ UnwindPanic(r) \/ Expire(r)
    <2>1. ItemsStay(r)
      BY <1>2 DEF Unwind, UnwindPanic, Expire, TypeOK, ItemsStay, Phase, Goto, serviceVars
    <2> QED
      BY <2>1, StayingItems
  <1>3. CASE AddPanics(r)
    <2>1. \A i \in ItemsOf[r] : <<r, i>> \in Task
      BY QueryHandlerAssumption DEF Task
    <2>2. \A i \in ItemsOf[r] :
            \/ taskState'[<<r, i>>] = taskState[<<r, i>>]
            \/ taskState[<<r, i>>] = "pending" /\ taskState'[<<r, i>>] = "dropped"
      BY <1>3, <2>1 DEF AddPanics, TypeOK
    <2>3. ItemsStay(r)
      BY <1>3, <2>2 DEF AddPanics, TypeOK, ItemsStay, Phase, Goto
    <2> QED
      BY <2>3, StayingItems
  <1>4. ASSUME NEW i \in Item, ServeFromCache(r, i) \/ StartAddTask(r, i)
        PROVE  ItemsInv(r)'
    BY <1>4, ServeFromCacheItems, StartAddTaskItems
  <1>5. CASE AddUnknown(r) \/ AddGivesUp(r) \/ AddReturns(r)
    BY <1>5, AddUnknownItems, AddEndsItems
  <1>6. CASE GatherError(r) \/ GatherInvalid(r) \/ GatherResult(r)
    BY <1>6, GatherItems
  <1>7. CASE StartGather(r) \/ EndGather(r)
    BY <1>7, StartGatherItems, EndGatherItems
  <1> QED
    BY <1>1, <1>2, <1>3, <1>4, <1>5, <1>6, <1>7 DEF Serve

LEMMA ItemsNext ==
    ASSUME TypeOK, \A r \in Request : ItemsInv(r), [Next]_vars
    PROVE  \A r \in Request : ItemsInv(r)'
  <1>1. ASSUME NEW r \in Request, Serve(r) \/ AddReturns(r) \/ AddPanics(r) \/ Expire(r),
               NEW s \in Request
        PROVE  ItemsInv(s)'
    BY <1>1, OthersStay, ServeItems, StayingItems
  <1>2. ASSUME NEW t \in Task, Answer(t), NEW s \in Request
        PROVE  ItemsInv(s)'
    <2>1. /\ t = <<t[1], t[2]>> /\ t[1] \in Request /\ t[2] \in ItemsOf[t[1]]
      BY DEF Task
    <2>2. CASE s = t[1]
      BY <1>2, <2>1, <2>2, AnswerItems
    <2>3. CASE s # t[1]
      <3>1. ItemsStay(s)
        <4>1. output'[s] = output[s]
          BY <1>2, <2>3 DEF Answer, TypeOK
        <4>2. \A i \in ItemsOf[s] : taskState'[<<s, i>>] = taskState[<<s, i>>]
          BY <1>2, <2>1, <2>3 DEF Answer, TypeOK, Task
        <4> QED
          BY <1>2, <4>1, <4>2 DEF Answer, ItemsStay, Phase, requestVars
      <3> QED
        BY <3>1, StayingItems
    <2> QED
      BY <2>2, <2>3
  <1>3. ASSUME NEW t \in Task, Drop(t), NEW s \in Request
        PROVE  ItemsInv(s)'
    <2>1. \A i \in ItemsOf[s] : <<s, i>> \in Task
      BY QueryHandlerAssumption DEF Task
    <2>2. \A i \in ItemsOf[s] :
            \/ taskState'[<<s, i>>] = taskState[<<s, i>>]
            \/ taskState[<<s, i>>] = "pending" /\ taskState'[<<s, i>>] = "dropped"
      BY <1>3, <2>1 DEF Drop, TypeOK
    <2>3. ItemsStay(s)
      BY <1>3, <2>2 DEF Drop, ItemsStay, Phase, requestVars
    <2> QED
      BY <2>3, StayingItems
  <1>4. ASSUME \/ StopCollectors \/ StartCollectors \/ SetConf \/ ClearCache
               \/ (\E i \in Item : Evict(i)) \/ UNCHANGED vars,
               NEW s \in Request
        PROVE  ItemsInv(s)'
    <2>1. ItemsStay(s)
      BY <1>4 DEF StopCollectors, StartCollectors, SetConf, ClearCache, Evict, vars,
         ItemsStay, Phase, requestVars, serviceVars
    <2> QED
      BY <2>1, StayingItems
  <1> QED
    BY <1>1, <1>2, <1>3, <1>4 DEF Next

--------------------------------------------------------------------------------
(* Types. *)

LEMMA ServeTypes ==
    ASSUME TypeOK, NEW r \in Request, ItemsInv(r), ItemsInv(r)',
           Serve(r) \/ AddReturns(r) \/ AddPanics(r) \/ Expire(r)
    PROVE  TypeOK'
  <1>1. Cardinality(ItemsOf[r]) \in Nat /\ Cardinality(Item) \in Nat
        /\ Cardinality(ItemsOf[r]) <= Cardinality(Item) /\ Cardinality(todo[r]) \in Nat
    BY ItemsFinite DEF ItemsInv
  <1> USE QueryHandlerAssumption DEF TypeOK, Goto, Write, confVars, serviceVars
  <1>2. CASE TryLock(r) \/ ParseParams(r)
    <2>1. locked' \subseteq {KeyOf[s] : s \in Request}
      BY <1>2 DEF TryLock, ParseParams
    <2>2. pc' \in [Request -> Location]
      BY <1>2 DEF TryLock, ParseParams, Location
    <2>3. UNCHANGED <<current, todo, scheduled, response, expired, output, cache,
                      cfg, confPc, spanning, collectors, stops, taskState, replaced>>
      BY <1>2 DEF TryLock, ParseParams
    <2>4. version' \in [Request -> 0 .. MaxVersion]
      BY <1>2 DEF TryLock, ParseParams
    <2> QED
      BY <2>1, <2>2, <2>3, <2>4
  <1>3. CASE Unwind(r) \/ UnwindPanic(r) \/ Expire(r) \/ StartGather(r) \/ EndGather(r)
    <2>1. pc' \in [Request -> Location]
      BY <1>3 DEF Unwind, UnwindPanic, Expire, StartGather, EndGather, Location
    <2>2. locked' \subseteq locked /\ expired' \subseteq Request
      BY <1>3 DEF Unwind, UnwindPanic, Expire, StartGather, EndGather
    <2>3. UNCHANGED <<current, todo, version, scheduled, response, output, cache,
                      cfg, confPc, spanning, collectors, stops, taskState, replaced>>
      BY <1>3 DEF Unwind, UnwindPanic, Expire, StartGather, EndGather
    <2> QED
      BY <2>1, <2>2, <2>3
  <1>4. CASE AddPanics(r)
    BY <1>4 DEF AddPanics, Location
  <1>5. ASSUME NEW i \in Item, ServeFromCache(r, i)
        PROVE  TypeOK'
    <2>1. [item |-> i, from |-> "cache"] \in Entry
      BY DEF Entry
    <2> QED
      BY <1>5, <2>1 DEF ServeFromCache
  <1>6. ASSUME NEW i \in Item, StartAddTask(r, i)
        PROVE  TypeOK'
    <2>1. /\ pc' \in [Request -> Location]
          /\ current' \in [Request -> Item \cup {None}]
          /\ todo' \in [Request -> SUBSET Item]
      BY <1>6 DEF StartAddTask, Location
    <2>2. taskState' \in [Task -> {"new", "pending", "answered", "dropped"}]
      BY <1>6 DEF StartAddTask
    <2> QED
      BY <1>6, <2>1, <2>2 DEF StartAddTask
  <1>7. CASE AddUnknown(r) \/ AddGivesUp(r) \/ AddReturns(r)
    <2>1. scheduled[r] + 1 <= Cardinality(Item) /\ CountScheduled(r)
      BY <1>1, <1>7 DEF AddUnknown, AddGivesUp, AddReturns, ItemsInv, CountFits, Uncounted
    <2>2. output' \in [Request -> Seq(Message)]
      <3>1. CASE AddUnknown(r)
        <4> DEFINE e == [item |-> current[r], as |-> "error"]
        <4>1. e \in Message
          BY <3>1 DEF AddUnknown, Message, ItemsInv, CurrentApart
        <4>2. output' = [output EXCEPT ![r] = Append(output[r], e)]
          BY <3>1 DEF AddUnknown
        <4> QED
          BY <4>1, <4>2
      <3> QED
        BY <1>7, <3>1 DEF AddGivesUp, AddReturns
    <2>3. scheduled' \in [Request -> 0 .. Cardinality(Item)]
      BY <1>1, <2>1 DEF CountScheduled
    <2>4. current' \in [Request -> Item \cup {None}] /\ pc' \in [Request -> Location]
      BY <2>1 DEF CountScheduled, Location
    <2> QED
      BY <1>7, <2>2, <2>3, <2>4 DEF AddUnknown, AddGivesUp, AddReturns
  <1>8. CASE GatherError(r) \/ GatherInvalid(r) \/ GatherResult(r)
    <2>1. /\ output[r] \in Seq(Message) /\ output[r] # <<>> /\ scheduled[r] > 0
          /\ scheduled[r] \in 0 .. Cardinality(Item)
      BY <1>8 DEF GatherError, GatherInvalid, GatherResult
    <2>2. Head(output[r]) \in Message /\ Tail(output[r]) \in Seq(Message)
      BY <2>1, TailItems
    <2>3. scheduled[r] - 1 \in 0 .. Cardinality(Item)
      BY <1>1, <2>1
    <2>4. \A from \in {"error", "result"} : [item |-> Head(output[r]).item, from |-> from] \in Entry
      BY <2>2 DEF Message, Entry
    <2>5. [version |-> version[r], by |-> r] \in CacheEntry
      BY DEF CacheEntry
    <2>6. Head(output[r]).item \in Item
      BY <2>2 DEF Message
    <2>7. /\ output' \in [Request -> Seq(Message)]
          /\ scheduled' \in [Request -> 0 .. Cardinality(Item)]
      <3>1. /\ output' = [output EXCEPT ![r] = Tail(output[r])]
            /\ scheduled' = [scheduled EXCEPT ![r] = scheduled[r] - 1]
        BY <1>8 DEF GatherError, GatherInvalid, GatherResult
      <3> QED
        BY <2>2, <2>3, <3>1
    <2>8. response' \in [Request -> Seq(Entry)]
      <3>1. CASE GatherInvalid(r)
        BY <3>1 DEF GatherInvalid
      <3>2. CASE GatherError(r) \/ GatherResult(r)
        <4>1. PICK e \in Entry : response' = [response EXCEPT ![r] = Append(response[r], e)]
          BY <2>4, <3>2 DEF GatherError, GatherResult
        <4> QED
          BY <4>1
      <3> QED
        BY <1>8, <3>1, <3>2
    <2>9. cache' \in [Item -> CacheEntry \cup {None}]
      <3>1. CASE cache' = cache
        BY <3>1
      <3>2. CASE cache' = [cache EXCEPT ![Head(output[r]).item] =
                                           [version |-> version[r], by |-> r]]
        BY <2>5, <2>6, <3>2
      <3> QED
        BY <1>8, <3>1, <3>2 DEF GatherError, GatherInvalid, GatherResult
    <2> QED
      BY <1>8, <2>7, <2>9, <2>8 DEF GatherError, GatherInvalid, GatherResult
  <1> QED
    BY <1>2, <1>3, <1>4, <1>5, <1>6, <1>7, <1>8 DEF Serve

LEMMA TypesNext ==
    ASSUME TypeOK, \A r \in Request : ItemsInv(r), [Next]_vars
    PROVE  TypeOK'
  <1>1. ASSUME NEW r \in Request, Serve(r) \/ AddReturns(r) \/ AddPanics(r) \/ Expire(r)
        PROVE  TypeOK'
    BY <1>1, ItemsNext, ServeTypes
  <1>2. ASSUME NEW t \in Task, Answer(t)
        PROVE  TypeOK'
    <2>1. t[1] \in Request /\ t[2] \in Item
      BY QueryHandlerAssumption DEF Task
    <2>2. \A as \in ResultOf(t[2]) : [item |-> t[2], as |-> as] \in Message
      BY <2>1 DEF ResultOf, Message
    <2>3. output' \in [Request -> Seq(Message)]
      <3>1. PICK e \in Message : output' = [output EXCEPT ![t[1]] = Append(output[t[1]], e)]
        BY <1>2, <2>2 DEF Answer
      <3> QED
        BY <2>1, <3>1 DEF TypeOK
    <2>4. taskState' \in [Task -> {"new", "pending", "answered", "dropped"}]
      BY <1>2 DEF Answer, TypeOK
    <2> QED
      BY <1>2, <2>3, <2>4 DEF Answer, TypeOK, requestVars, confVars
  <1>3. ASSUME NEW t \in Task, Drop(t)
        PROVE  TypeOK'
    BY <1>3 DEF Drop, TypeOK, requestVars, confVars
  <1>4. CASE StopCollectors \/ StartCollectors \/ UNCHANGED vars
    BY <1>4, QueryHandlerAssumption
       DEF StopCollectors, StartCollectors, TypeOK, vars, requestVars, confVars, serviceVars
  <1>5. CASE SetConf \/ ClearCache \/ \E i \in Item : Evict(i)
    <2>1. cache' \in [Item -> CacheEntry \cup {None}]
      BY <1>5 DEF SetConf, ClearCache, Evict, TypeOK
    <2>2. /\ cfg' \in 0 .. MaxVersion /\ confPc' \in {"idle", "set"}
          /\ spanning' \subseteq Request
      BY <1>5, QueryHandlerAssumption DEF SetConf, ClearCache, Evict, TypeOK, confVars
    <2> QED
      BY <1>5, <2>1, <2>2
         DEF SetConf, ClearCache, Evict, TypeOK, requestVars, serviceVars
  <1> QED
    BY <1>1, <1>2, <1>3, <1>4, <1>5 DEF Next

--------------------------------------------------------------------------------
(* The lock table, and what a reload leaves in the cache.                    *)

LEMMA LocksNext ==
    ASSUME TypeOK, LockHeld, SameRequestsApart, [Next]_vars
    PROVE  LockHeld' /\ SameRequestsApart'
  <1>1. ASSUME NEW r \in Request, TryLock(r)
        PROVE  LockHeld' /\ SameRequestsApart'
    <2>1. CASE KeyOf[r] \in locked
      <3>1. /\ pc'[r] = "refused" /\ locked' = locked
            /\ \A s \in Request \ {r} : pc'[s] = pc[s]
        BY <1>1, <2>1 DEF TryLock, Goto, TypeOK
      <3> QED
        BY <3>1 DEF LockHeld, SameRequestsApart, InProgress
    <2>2. CASE KeyOf[r] \notin locked
      <3>1. /\ pc'[r] = "locked" /\ locked' = locked \cup {KeyOf[r]}
            /\ \A s \in Request \ {r} : pc'[s] = pc[s]
        BY <1>1, <2>2 DEF TryLock, Goto, TypeOK
      <3>2. \A s \in Request : InProgress(s) => KeyOf[s] # KeyOf[r]
        BY <2>2 DEF LockHeld
      <3> QED
        BY <3>1, <3>2 DEF LockHeld, SameRequestsApart, InProgress
    <2> QED
      BY <2>1, <2>2
  <1>2. ASSUME NEW r \in Request, pc' = [pc EXCEPT ![r] = pc'[r]], InProgress(r),
               \/ locked' = locked
               \/ locked' = locked \ {KeyOf[r]} /\ ~ InProgress(r)'
        PROVE  LockHeld' /\ SameRequestsApart'
    <2>1. \A s \in Request \ {r} : InProgress(s)' <=> InProgress(s)
      BY <1>2 DEF InProgress, TypeOK
    <2>2. \A s \in Request \ {r} : InProgress(s) => KeyOf[s] # KeyOf[r]
      BY <1>2 DEF SameRequestsApart
    <2> QED
      BY <1>2, <2>1, <2>2 DEF LockHeld, SameRequestsApart
  <1>3. ASSUME NEW r \in Request,
               \/ ParseParams(r) \/ AddUnknown(r) \/ AddGivesUp(r) \/ StartGather(r)
               \/ EndGather(r) \/ Unwind(r) \/ UnwindPanic(r) \/ AddReturns(r) \/ AddPanics(r)
               \/ \E i \in Item : StartAddTask(r, i)
        PROVE  LockHeld' /\ SameRequestsApart'
    <2>1. InProgress(r)
      BY <1>3 DEF ParseParams, AddUnknown, AddGivesUp, StartGather, EndGather, Unwind,
         UnwindPanic, AddReturns, AddPanics, StartAddTask, InProgress
    <2>2. pc' = [pc EXCEPT ![r] = pc'[r]]
      <3>1. \E label : Goto(r, label)
        BY <1>3 DEF ParseParams, AddUnknown, AddGivesUp, StartGather, EndGather, Unwind,
           UnwindPanic, AddReturns, AddPanics, StartAddTask, CountScheduled
      <3> QED
        BY <3>1 DEF Goto, TypeOK
    <2>3. \/ locked' = locked
          \/ locked' = locked \ {KeyOf[r]} /\ ~ InProgress(r)'
      BY <1>3 DEF ParseParams, AddUnknown, AddGivesUp, StartGather, EndGather, Unwind,
         UnwindPanic, AddReturns, AddPanics, StartAddTask, CountScheduled, Goto, TypeOK,
         InProgress
    <2> QED
      BY <1>2, <2>1, <2>2, <2>3
  <1>4. CASE pc' = pc /\ locked' = locked
    BY <1>4 DEF LockHeld, SameRequestsApart, InProgress
  <1>5. ASSUME NEW r \in Request,
               \/ \E i \in Item : ServeFromCache(r, i)
               \/ GatherError(r) \/ GatherInvalid(r) \/ GatherResult(r) \/ Expire(r)
        PROVE  pc' = pc /\ locked' = locked
    BY <1>5 DEF ServeFromCache, GatherError, GatherInvalid, GatherResult, Expire
  <1>6. ASSUME \/ \E t \in Task : Answer(t) \/ Drop(t)
               \/ StopCollectors \/ StartCollectors \/ SetConf \/ ClearCache
               \/ (\E i \in Item : Evict(i)) \/ UNCHANGED vars
        PROVE  pc' = pc /\ locked' = locked
    BY <1>6 DEF Answer, Drop, StopCollectors, StartCollectors, SetConf, ClearCache, Evict,
       vars, requestVars
  <1> QED
    BY <1>1, <1>3, <1>4, <1>5, <1>6 DEF Next, Serve

(* Requests that work with a configuration. *)
Configured(r) == InProgress(r) /\ pc[r] # "locked"

LEMMA SpansNext ==
    ASSUME TypeOK, OutdatedSpans, StaleEntriesSpanReload, [Next]_vars
    PROVE  OutdatedSpans' /\ StaleEntriesSpanReload'
  <1> USE DEF OutdatedSpans, StaleEntriesSpanReload
  <1>1. ASSUME confPc' = confPc, cfg' = cfg, spanning' = spanning, version' = version,
               \A r \in Request : Configured(r)' => Configured(r)
        PROVE  OutdatedSpans'
    BY <1>1 DEF Configured
  <1>2. ASSUME confPc' = confPc, cfg' = cfg, spanning' = spanning, cache' = cache
        PROVE  StaleEntriesSpanReload'
    BY <1>2
  <1>3. ASSUME NEW r \in Request, ParseParams(r)
        PROVE  OutdatedSpans' /\ StaleEntriesSpanReload'
    <2>1. /\ version'[r] = cfg /\ cfg \in Nat
          /\ \A s \in Request \ {r} : pc'[s] = pc[s] /\ version'[s] = version[s]
          /\ UNCHANGED <<confPc, cfg, spanning, cache>>
      BY <1>3, QueryHandlerAssumption DEF ParseParams, Goto, TypeOK, confVars
    <2> QED
      BY <1>2, <2>1 DEF InProgress
  <1>4. ASSUME NEW r \in Request, GatherResult(r)
        PROVE  OutdatedSpans' /\ StaleEntriesSpanReload'
    <2>1. /\ pc' = pc /\ version' = version /\ confPc' = confPc /\ cfg' = cfg
          /\ spanning' = spanning /\ Configured(r)
      BY <1>4 DEF GatherResult, confVars, Configured, InProgress
    <2>2. \/ cache' = cache
          \/ \E i \in Item : cache' = [cache EXCEPT ![i] = [version |-> version[r], by |-> r]]
      <3>1. Head(output[r]) \in Message
        BY <1>4, TailItems DEF GatherResult, TypeOK
      <3> QED
        BY <1>4, <3>1 DEF GatherResult, Message
    <2>3. ASSUME NEW j \in Item, cache'[j] # None, confPc = "idle", cache'[j].version < cfg
          PROVE  cache'[j].by \in spanning
      <3>1. CASE cache'[j] = cache[j]
        BY <2>3, <3>1
      <3>2. CASE cache'[j] = [version |-> version[r], by |-> r]
        BY <2>1, <2>3, <3>2 DEF Configured
      <3> QED
        BY <2>2, <3>1, <3>2 DEF TypeOK
    <2> QED
      BY <1>1, <2>1, <2>3 DEF Configured, InProgress
  <1>5. ASSUME NEW r \in Request,
               \/ TryLock(r) \/ AddUnknown(r) \/ AddGivesUp(r) \/ StartGather(r)
               \/ EndGather(r) \/ Unwind(r) \/ UnwindPanic(r) \/ AddReturns(r) \/ AddPanics(r)
               \/ (\E i \in Item : StartAddTask(r, i) \/ ServeFromCache(r, i))
               \/ GatherError(r) \/ GatherInvalid(r) \/ Expire(r)
        PROVE  OutdatedSpans' /\ StaleEntriesSpanReload'
    <2>1. UNCHANGED <<confPc, cfg, spanning, cache, version>>
      BY <1>5 DEF TryLock, AddUnknown, AddGivesUp, StartGather, EndGather, Unwind,
         UnwindPanic, AddReturns, AddPanics, StartAddTask, ServeFromCache, GatherError,
         GatherInvalid, Expire, CountScheduled, confVars
    <2>2. \A s \in Request \ {r} : pc'[s] = pc[s]
      <3>1. pc' = pc \/ \E label : Goto(r, label)
        BY <1>5 DEF TryLock, AddUnknown, AddGivesUp, StartGather, EndGather, Unwind,
           UnwindPanic, AddReturns, AddPanics, StartAddTask, ServeFromCache, GatherError,
           GatherInvalid, Expire, CountScheduled
      <3> QED
        BY <3>1 DEF Goto, TypeOK
    <2>3. Configured(r)' => Configured(r)
      BY <1>5 DEF TryLock, AddUnknown, AddGivesUp, StartGather, EndGather, Unwind,
         UnwindPanic, AddReturns, AddPanics, StartAddTask, ServeFromCache, GatherError,
         GatherInvalid, Expire, CountScheduled, Goto, TypeOK, Configured, InProgress
    <2> QED
      BY <1>1, <1>2, <2>1, <2>2, <2>3 DEF Configured, InProgress
  <1>6. CASE (\E t \in Task : Answer(t) \/ Drop(t)) \/ StopCollectors \/ StartCollectors
             \/ UNCHANGED vars
    <2>1. UNCHANGED <<confPc, cfg, spanning, cache, version, pc>>
      BY <1>6 DEF Answer, Drop, StopCollectors, StartCollectors, vars, requestVars, confVars
    <2> QED
      BY <1>1, <1>2, <2>1 DEF Configured, InProgress
  <1>7. CASE SetConf
    BY <1>7 DEF SetConf
  <1>8. CASE ClearCache
    BY <1>8 DEF ClearCache, InProgress, requestVars
  <1>9. ASSUME NEW i \in Item, Evict(i)
        PROVE  OutdatedSpans' /\ StaleEntriesSpanReload'
    <2>1. /\ UNCHANGED <<confPc, cfg, spanning, version, pc>>
          /\ \A j \in Item : cache'[j] # None => cache'[j] = cache[j]
      BY <1>9 DEF Evict, TypeOK, requestVars, confVars
    <2> QED
      BY <1>1, <2>1 DEF Configured, InProgress
  <1> QED
    BY <1>3, <1>4, <1>5, <1>6, <1>7, <1>8, <1>9 DEF Next, Serve

--------------------------------------------------------------------------------
(* The theorems. *)

LEMMA QueryInit == Init => QueryInductive
  <1> SUFFICES ASSUME Init
               PROVE  QueryInductive
    OBVIOUS
  <1>1. TypeOK
    <2>1. Cardinality(Item) \in Nat
      BY QueryHandlerAssumption, FS_CardinalityType
    <2> QED
      BY <2>1, QueryHandlerAssumption DEF Init, TypeOK, Location
  <1>2. ASSUME NEW r \in Request
        PROVE  ItemsInv(r)
    <2>1. /\ pc[r] = "idle" /\ todo[r] = ItemsOf[r] /\ scheduled[r] = 0
          /\ response[r] = <<>> /\ output[r] = <<>>
          /\ \A i \in ItemsOf[r] : taskState[<<r, i>>] = "new"
      BY QueryHandlerAssumption DEF Init, Task
    <2>2. ItemsIn(output[r]) = {} /\ ItemsIn(response[r]) = {}
      BY <2>1 DEF ItemsIn
    <2>3. Unanswered(r) = {} /\ Awaited(r) = {}
      BY <2>1, <2>2 DEF Unanswered, Awaited
    <2>4. ItemsApart(r)
      BY <2>1, <2>2, <2>3 DEF ItemsApart, NoItemTwice
    <2>5. CountFits(r)
      <3>1. Cardinality(ItemsOf[r]) \in Nat
        BY <1>1, <2>4, ItemsFinite
      <3> QED
        BY <2>1, <3>1 DEF CountFits, Uncounted
    <2>6. CountMatches(r)
      BY <2>1, <2>3, FS_EmptySet DEF CountMatches, Adding
    <2> QED
      BY <2>1, <2>4, <2>5, <2>6 DEF ItemsInv, CurrentApart, NoneForgotten
  <1>3. LockHeld /\ SameRequestsApart /\ OutdatedSpans /\ StaleEntriesSpanReload
    BY DEF Init, LockHeld, SameRequestsApart, OutdatedSpans, StaleEntriesSpanReload,
       InProgress
  <1> QED
    BY <1>1, <1>2, <1>3 DEF QueryInductive

LEMMA QueryNext == QueryInductive /\ [Next]_vars => QueryInductive'
  BY TypesNext, ItemsNext, LocksNext, SpansNext DEF QueryInductive

LEMMA QueryAlways == Spec => []QueryInductive
  BY QueryInit, QueryNext, PTL DEF Spec

(* The handler's variables keep their types: no more tasks are ever counted  *)
(* than there are items.                                                    *)
THEOREM QueryTypes == Spec => []TypeOK
  <1>1. QueryInductive => TypeOK
    BY DEF QueryInductive
  <1> QED
    BY <1>1, QueryAlways, PTL

(* "Prevent to run the same request twice" (query_handler.go:135): the lock  *)
(* is held from TryLock to the deferred unlock, a panic included.           *)
THEOREM QueryApart == Spec => []SameRequestsApart
  <1>1. QueryInductive => SameRequestsApart
    BY DEF QueryInductive
  <1> QED
    BY <1>1, QueryAlways, PTL

(* No item is answered twice in a response, wherever the answer is from. *)
THEOREM QueryItemOnce == Spec => []EachItemOnce
  <1>1. QueryInductive => EachItemOnce
    <2> SUFFICES ASSUME QueryInductive, NEW r \in Request
                 PROVE  Cardinality(ItemsWritten(r)) = Len(response[r])
      BY DEF EachItemOnce
    <2>1. NoItemTwice(response[r]) /\ response[r] \in Seq(Entry)
      BY DEF QueryInductive, ItemsInv, ItemsApart, TypeOK
    <2>2. ItemsWritten(r) = ItemsIn(response[r])
      BY DEF ItemsWritten, ItemsIn
    <2> QED
      BY <2>1, <2>2, ItemsCount
  <1> QED
    BY <1>1, QueryAlways, PTL

(* A request that ends in time has answered all of its items whose output is *)
(* valid: gatherResults waits for as many results as will come.             *)
THEOREM QueryComplete == Spec => []ResponseIsComplete
  <1>1. QueryInductive => ResponseIsComplete
    BY DEF QueryInductive, ItemsInv, NoneForgotten, ResponseIsComplete, ItemsWritten, ItemsIn
  <1> QED
    BY <1>1, QueryAlways, PTL

(* Output, made with one place for each item, never blocks who writes to it, *)
(* the request itself included.                                             *)
THEOREM QueryRoom == Spec => []OutputHasRoom
  <1>1. QueryInductive => OutputHasRoom
    <2> SUFFICES ASSUME QueryInductive, NEW r \in Request
                 PROVE  /\ Len(output[r]) + Cardinality(Pending(r)) <= Cardinality(ItemsOf[r])
                        /\ pc[r] = "unknown" => Len(output[r]) < Cardinality(ItemsOf[r])
      BY DEF OutputHasRoom
    <2>1. TypeOK /\ ItemsInv(r) /\ ItemsApart(r)
      BY DEF QueryInductive, ItemsInv
    <2> DEFINE out == ItemsIn(output[r])
               pend == {i \in ItemsOf[r] : taskState[<<r, i>>] = "pending"}
    <2>2. IsFiniteSet(out) /\ Cardinality(out) = Len(output[r])
      BY <2>1, ItemsCount DEF TypeOK, ItemsApart
    <2>3. IsFiniteSet(ItemsOf[r]) /\ Cardinality(ItemsOf[r]) \in Nat
      BY <2>1, ItemsFinite
    <2>4. pend \subseteq ItemsOf[r] /\ out \subseteq ItemsOf[r] /\ pend \cap out = {}
      BY <2>1 DEF ItemsApart, Unanswered
    <2>5. IsFiniteSet(pend) /\ Cardinality(pend) \in Nat
      BY <2>3, <2>4, FS_Subset, FS_CardinalityType
    <2>6. Cardinality(Pending(r)) = Cardinality(pend)
      <3> DEFINE f == [i \in pend |-> <<r, i>>]
      <3>1. \A i \in pend : <<r, i>> \in Pending(r)
        BY QueryHandlerAssumption DEF Pending, Task
      <3>2. \A t \in Pending(r) : t[2] \in pend /\ t = <<r, t[2]>>
        BY DEF Pending, Task
      <3>3. f \in Bijection(pend, Pending(r))
        BY <3>1, <3>2 DEF Bijection, Injection, IsInjective, Surjection
      <3>4. ExistsBijection(pend, Pending(r))
        BY <3>3 DEF ExistsBijection
      <3> QED
        BY <2>5, <3>4, FS_Bijection
    <2> HIDE DEF out, pend
    <2>7. Cardinality(out) + Cardinality(pend) <= Cardinality(ItemsOf[r])
      <3>1. Cardinality(pend \cup out) = Cardinality(pend) + Cardinality(out)
        <4>1. Cardinality(pend \cap out) = 0
          BY <2>4, FS_EmptySet
        <4> QED
          BY <2>2, <2>5, <4>1, FS_Union, FS_CardinalityType
      <3>2. Cardinality(pend \cup out) <= Cardinality(ItemsOf[r])
        BY <2>3, <2>4, FS_Subset
      <3> QED
        BY <2>2, <2>5, <3>1, <3>2, FS_CardinalityType
    <2>8. ASSUME pc[r] = "unknown"
          PROVE  Cardinality(out) < Cardinality(ItemsOf[r])
      <3>1. current[r] \in ItemsOf[r] /\ current[r] \notin out
        BY <2>1, <2>8 DEF ItemsInv, CurrentApart, out
      <3>2. Cardinality(out \cup {current[r]}) = Cardinality(out) + 1
        BY <2>2, <3>1, FS_AddElement
      <3>3. Cardinality(out \cup {current[r]}) <= Cardinality(ItemsOf[r])
        BY <2>3, <2>4, <3>1, FS_Subset
      <3> QED
        BY <2>2, <2>3, <3>2, <3>3, FS_CardinalityType
    <2> QED
      BY <2>2, <2>6, <2>7, <2>8
  <1> QED
    BY <1>1, QueryAlways, PTL

(* An entry of an older configuration survives a reload only when a request  *)
(* that was running during it puts the entry back.                          *)
THEOREM QueryStale == Spec => []StaleEntriesSpanReload
  <1>1. QueryInductive => StaleEntriesSpanReload
    BY DEF QueryInductive
  <1> QED
    BY <1>1, QueryAlways, PTL

--------------------------------------------------------------------------------
(* The handler implements the clients of TaskService.                        *)

LEMMA UseInit == Init => Service!Init
  <1>1. \A t \in Task : t[1] \in Request
    BY DEF Task
  <1>2. Init => Withdrawn = {}
    BY <1>1 DEF Init, Withdrawn, OutputClosed
  <1> QED
    BY <1>2 DEF Init, Service!Init

(* Who is withdrawn stays withdrawn. *)
LEMMA WithdrawnGrows ==
    ASSUME Withdrawn \subseteq Withdrawn', Withdrawn' \subseteq Task, taskState' = taskState
    PROVE  Service!Next
  <1>1. Withdrawn' = Withdrawn \cup Withdrawn' /\ Withdrawn' \in SUBSET Task
    OBVIOUS
  <1>2. Service!Withdraw
    BY <1>1 DEF Service!Withdraw
  <1> QED
    BY <1>2 DEF Service!Next

LEMMA SameWithdrawn ==
    ASSUME replaced' = replaced, expired' = expired,
           \A r \in Request :
              (OutputClosed(r) \/ pc[r] = "panicked")' <=> OutputClosed(r) \/ pc[r] = "panicked"
    PROVE  Withdrawn' = Withdrawn
  BY DEF Withdrawn, Task

LEMMA UseNext == QueryInductive /\ [Next]_vars => [Service!Next]_(Service!serviceVars)
  <1> SUFFICES ASSUME QueryInductive, [Next]_vars
               PROVE  [Service!Next]_(Service!serviceVars)
    OBVIOUS
  <1> USE DEF Goto
  <1>1. TypeOK /\ TypeOK' /\ Withdrawn \subseteq Task /\ Withdrawn' \subseteq Task
    BY TypesNext DEF QueryInductive, TypeOK, Withdrawn
  <1>2. ASSUME taskState' = taskState,
               replaced \subseteq replaced', expired \subseteq expired',
               \A r \in Request :
                  (OutputClosed(r) \/ pc[r] = "panicked") =>
                     (OutputClosed(r) \/ pc[r] = "panicked")'
        PROVE  Service!Next
    <2>1. Withdrawn \subseteq Withdrawn'
      <3>1. \A t \in Task : t[1] \in Request
        BY DEF Task
      <3> QED
        BY <1>2, <3>1 DEF Withdrawn
    <2> QED
      BY <1>1, <1>2, <2>1, WithdrawnGrows
  <1>3. ASSUME NEW r \in Request,
               \/ TryLock(r) \/ ParseParams(r) \/ AddUnknown(r) \/ AddGivesUp(r)
               \/ StartGather(r) \/ EndGather(r) \/ Unwind(r) \/ UnwindPanic(r)
               \/ AddReturns(r) \/ GatherError(r) \/ GatherInvalid(r) \/ GatherResult(r)
               \/ Expire(r) \/ (\E i \in Item : ServeFromCache(r, i))
        PROVE  Service!Next
    <2>1. taskState' = taskState /\ replaced' = replaced /\ expired \subseteq expired'
      BY <1>3 DEF TryLock, ParseParams, AddUnknown, AddGivesUp, StartGather, EndGather,
         Unwind, UnwindPanic, AddReturns, GatherError, GatherInvalid, GatherResult, Expire,
         ServeFromCache, serviceVars
    <2>2. \A s \in Request \ {r} : pc'[s] = pc[s]
      <3>1. pc' = pc \/ \E label : Goto(r, label)
        BY <1>3 DEF TryLock, ParseParams, AddUnknown, AddGivesUp, StartGather, EndGather,
           Unwind, UnwindPanic, AddReturns, GatherError, GatherInvalid, GatherResult, Expire,
           ServeFromCache, CountScheduled
      <3> QED
        BY <1>1, <3>1 DEF TypeOK
    <2>3. (OutputClosed(r) \/ pc[r] = "panicked") => (OutputClosed(r) \/ pc[r] = "panicked")'
      BY <1>1, <1>3 DEF TryLock, ParseParams, AddUnknown, AddGivesUp, StartGather, EndGather,
         Unwind, UnwindPanic, AddReturns, GatherError, GatherInvalid, GatherResult, Expire,
         ServeFromCache, CountScheduled, OutputClosed, TypeOK
    <2> QED
      BY <1>2, <2>1, <2>2, <2>3 DEF OutputClosed
  <1>4. ASSUME NEW r \in Request, NEW i \in Item, StartAddTask(r, i)
        PROVE  Service!Next \/ UNCHANGED Service!serviceVars
    <2>1. \A s \in Request :
            (OutputClosed(s) \/ pc[s] = "panicked")' <=> OutputClosed(s) \/ pc[s] = "panicked"
      BY <1>1, <1>4 DEF StartAddTask, OutputClosed, TypeOK
    <2>2. Withdrawn' = Withdrawn
      BY <1>4, <2>1, SameWithdrawn DEF StartAddTask
    <2>3. CASE taskState' = taskState
      BY <2>2, <2>3 DEF Service!serviceVars
    <2>4. CASE taskState' = [taskState EXCEPT ![<<r, i>>] = "pending"]
      <3>1. taskState[<<r, i>>] = "new" /\ <<r, i>> \in Task
        BY <1>4 DEF StartAddTask, QueryInductive, ItemsInv, ItemsApart, Task
      <3>2. Service!Submit(<<r, i>>)
        BY <2>2, <2>4, <3>1 DEF Service!Submit
      <3> QED
        BY <3>1, <3>2 DEF Service!Next
    <2> QED
      BY <1>4, <2>3, <2>4 DEF StartAddTask
  <1>5. ASSUME NEW r \in Request, AddPanics(r)
        PROVE  Service!Next
    <2>1. \A s \in Request :
            (OutputClosed(s) \/ pc[s] = "panicked")' <=> OutputClosed(s) \/ pc[s] = "panicked"
      BY <1>1, <1>5 DEF AddPanics, OutputClosed, TypeOK
    <2>2. Withdrawn' = Withdrawn
      BY <1>5, <2>1, SameWithdrawn DEF AddPanics
    <2>3. <<r, current[r]>> \in Task /\ <<r, current[r]>> \in Withdrawn
      BY <1>1, <1>5 DEF AddPanics, Withdrawn, TypeOK
    <2>4. Service!Drop(<<r, current[r]>>)
      BY <1>5, <2>2, <2>3 DEF AddPanics, Service!Drop
    <2> QED
      BY <2>3, <2>4 DEF Service!Next
  <1>6. ASSUME NEW t \in Task, Answer(t) \/ Drop(t)
        PROVE  Service!Next
    <2>1. Withdrawn' = Withdrawn
      BY <1>6 DEF Answer, Drop, Withdrawn, OutputClosed, requestVars
    <2>2. Service!Answer(t) \/ Service!Drop(t)
      BY <1>6, <2>1 DEF Answer, Drop, Service!Answer, Service!Drop
    <2> QED
      BY <2>2 DEF Service!Next
  <1>7. ASSUME \/ StopCollectors \/ StartCollectors \/ SetConf \/ ClearCache
               \/ (\E i \in Item : Evict(i)) \/ UNCHANGED vars
        PROVE  Service!Next
    <2>1. /\ taskState' = taskState /\ replaced \subseteq replaced'
          /\ expired' = expired /\ pc' = pc
      BY <1>7 DEF StopCollectors, StartCollectors, SetConf, ClearCache, Evict, vars,
         requestVars, serviceVars
    <2> QED
      BY <1>2, <2>1 DEF OutputClosed
  <1> QED
    BY <1>3, <1>4, <1>5, <1>6, <1>7 DEF Next, Serve

(* Every task is submitted once; a task is dropped only when its request     *)
(* gave up or its collector was replaced, and no request waits again for a   *)
(* task it gave up.                                                         *)
THEOREM QueryUsesService == Spec => UsesService
  BY UseInit, UseNext, QueryAlways, PTL DEF Spec, UsesService, Service!Spec
================================================================================
