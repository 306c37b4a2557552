-------------------------- MODULE StoreFeedProofs --------------------------
(***************************************************************************)
(* Proofs about the State Store under the order and execution feed, for   *)
(* every MAX_EXECUTIONS and every feed.  TypeOK and ExecutionLogNewestFirst *)
(* are inductive together: an execution report prepends to the capped log  *)
(* and caps again, which equals capping the whole history newest first     *)
(* (PrependExecutionOfTake); orders and snapshots leave the log alone.     *)
(***************************************************************************)
EXTENDS StoreFeed, OmsReducerProofs, TLAPS

(* The history newest first, after one more report, starts with it.       *)
LEMMA NewestFirstAppend ==
    ASSUME NEW S, NEW s \in Seq(S), NEW e
    PROVE  NewestFirst(Append(s, e)) = <<e>> \o NewestFirst(s)
BY DEF NewestFirst

(* The history newest first is a sequence of the same reports.           *)
LEMMA NewestFirstType ==
    ASSUME NEW S, NEW s \in Seq(S)
    PROVE  NewestFirst(s) \in Seq(S)
<1> DEFINE n == Len(s)
<1>1. n \in Nat
  OBVIOUS
<1>2. \A i \in 1..n : n - i + 1 \in 1..n
  BY <1>1
<1>3. NewestFirst(s) \in [1..n -> S]
  BY <1>2 DEF NewestFirst
<1>. QED
  BY <1>1, <1>3

(* An order snapshot or an order update leaves the execution log alone.    *)
LEMMA OrderActionKeepsLog ==
    ASSUME NEW st \in OmsState, NEW a,
           a.type \in {"ORDER_SNAPSHOT", "ORDER_UPDATE"}
    PROVE  omsReducer(st, a).executions = st.executions
BY DEF omsReducer, OmsState

LEMMA InitInv == Init => TypeOK /\ ExecutionLogNewestFirst
<1> SUFFICES ASSUME Init PROVE TypeOK /\ ExecutionLogNewestFirst
  OBVIOUS
<1>1. INITIAL_STATE \in OmsState
  <2>1. ASSUME NEW K, NEW V PROVE <<>> \in MapOf(K, V)
    <3>1. <<>> \in [{} -> V]
      OBVIOUS
    <3>. QED
      BY <3>1 DEF MapOf
  <2>2. <<>> \in SeqUpTo(Execution, MaxExecutions)
    BY MaxExecutionsAssumption DEF SeqUpTo
  <2>. QED
    BY <2>1, <2>2 DEF INITIAL_STATE, OmsState
<1>2. Take(NewestFirst(<<>>), MaxExecutions) = <<>>
  BY MaxExecutionsAssumption DEF Take, NewestFirst
<1>. QED
  BY <1>1, <1>2 DEF Init, TypeOK, ExecutionLogNewestFirst, INITIAL_STATE

LEMMA InvStep ==
    ASSUME TypeOK, ExecutionLogNewestFirst, [Next]_vars
    PROVE  TypeOK' /\ ExecutionLogNewestFirst'
<1>0. FeedOrders \subseteq Order /\ FeedSnapshots \subseteq Seq(Order)
      /\ FeedExecs \subseteq Execution
  BY FeedAssumption
<1>1. ASSUME NEW list \in FeedSnapshots, OrderSnapshot(list)
      PROVE  TypeOK' /\ ExecutionLogNewestFirst'
  <2> DEFINE a == [type |-> "ORDER_SNAPSHOT", data |-> list]
  <2>1. a \in OmsAction
    BY <1>0 DEF OmsAction
  <2>2. store' = omsReducer(store, a) /\ received' = received /\ applied' = list
    BY <1>1 DEF OrderSnapshot, Feed
  <2>3. store' \in OmsState /\ store'.executions = store.executions
    BY <2>1, <2>2, ReducerTyped, OrderActionKeepsLog DEF TypeOK
  <2>4. applied' \in Seq(Order)
    BY <1>0, <2>2
  <2>. QED
    BY <2>2, <2>3, <2>4 DEF TypeOK, ExecutionLogNewestFirst
<1>2. ASSUME NEW o \in FeedOrders, OrderUpdate(o)
      PROVE  TypeOK' /\ ExecutionLogNewestFirst'
  <2> DEFINE a == [type |-> "ORDER_UPDATE", data |-> o]
  <2>1. a \in OmsAction
    BY <1>0 DEF OmsAction
  <2>2. store' = omsReducer(store, a) /\ received' = received
        /\ applied' = Append(applied, o)
    BY <1>2 DEF OrderUpdate, Feed
  <2>3. store' \in OmsState /\ store'.executions = store.executions
    BY <2>1, <2>2, ReducerTyped, OrderActionKeepsLog DEF TypeOK
  <2>4. applied' \in Seq(Order)
    BY <1>0, <2>2 DEF TypeOK
  <2>. QED
    BY <2>2, <2>3, <2>4 DEF TypeOK, ExecutionLogNewestFirst
<1>3. ASSUME NEW e \in FeedExecs, ExecutionReport(e)
      PROVE  TypeOK' /\ ExecutionLogNewestFirst'
  <2> DEFINE a == [type |-> "EXECUTION_REPORT", data |-> e]
  <2>1. a \in OmsAction
    BY <1>0 DEF OmsAction
  <2>2. store' = omsReducer(store, a) /\ received' = Append(received, e)
        /\ applied' = applied
    BY <1>3 DEF ExecutionReport, Feed
  <2>3. store' \in OmsState
    BY <2>1, <2>2, ReducerTyped DEF TypeOK
  <2>4. store'.executions = PrependExecution(store.executions, e)
    BY <2>2 DEF omsReducer, TypeOK, OmsState
  <2>5. PrependExecution(store.executions, e)
          = Take(<<e>> \o NewestFirst(received), MaxExecutions)
    <3>1. NewestFirst(received) \in Seq(FeedExecs)
      BY NewestFirstType DEF TypeOK
    <3>2. PrependExecution(Take(NewestFirst(received), MaxExecutions), e)
            = Take(<<e>> \o NewestFirst(received), MaxExecutions)
      BY <3>1, PrependExecutionOfTake, Zenon
    <3>3. store.executions = Take(NewestFirst(received), MaxExecutions)
      BY DEF ExecutionLogNewestFirst
    <3>. QED
      BY <3>2, <3>3
  <2>6. NewestFirst(received') = <<e>> \o NewestFirst(received)
    BY <2>2, NewestFirstAppend DEF TypeOK
  <2>7. received' \in Seq(FeedExecs)
    BY <2>2 DEF TypeOK
  <2>. QED
    BY <2>2, <2>3, <2>4, <2>5, <2>6, <2>7 DEF TypeOK, ExecutionLogNewestFirst
<1>4. CASE UNCHANGED vars
  BY <1>4 DEF vars, TypeOK, ExecutionLogNewestFirst
<1>. QED
  BY <1>1, <1>2, <1>3, <1>4 DEF Next

(* For every cap and feed, the stored log is the MAX_EXECUTIONS most       *)
(* recently received reports, newest first (spec 8): EXECUTION_REPORT's    *)
(* prepend-then-slice never keeps an older report in place of a newer one. *)
THEOREM LogNewestFirst == Spec => [](TypeOK /\ ExecutionLogNewestFirst)
BY InitInv, InvStep, PTL DEF Spec

(* For every cap and feed the store stays a well-typed OmsState: in        *)
(* particular the log never holds more than MAX_EXECUTIONS reports.        *)
LEMMA FeedTyped == Spec => []TypeOK
BY LogNewestFirst, PTL

-----------------------------------------------------------------------------
(* OrderMapCorrect.  The order map is the latest-entry map of the orders   *)
(* applied since the last snapshot: a snapshot's map is the latest-entry   *)
(* map of its list (SnapshotOrdersLastWins), and Map.set of an update on   *)
(* a copy is the latest-entry map of the history with the update appended. *)

(* Every id of a sequence has a latest entry.                              *)
LEMMA LatestExists ==
    ASSUME NEW ev \in Seq(Order), NEW id \in {ev[i].orderId : i \in 1..Len(ev)}
    PROVE  \E i \in 1..Len(ev) : IsLatest(ev, id, i)
<1>1. PICK i \in 1..Len(ev) :
          /\ ev[i].orderId = id
          /\ \A j \in i + 1..Len(ev) : ev[j].orderId # id
  BY LastIndexExists
<1>2. ASSUME NEW j \in 1..Len(ev), ev[j].orderId = id PROVE j <= i
  <2>1. Len(ev) \in Nat
    OBVIOUS
  <2>2. ~(j \in i + 1..Len(ev))
    BY <1>1, <1>2
  <2>. QED
    BY <2>1, <2>2
<1>3. IsLatest(ev, id, i)
  BY <1>1, <1>2 DEF IsLatest
<1>. QED
  BY <1>3

(* The latest entry of an id is unique.                                    *)
LEMMA LatestUnique ==
    ASSUME NEW ev \in Seq(Order), NEW id,
           NEW i \in 1..Len(ev), NEW k \in 1..Len(ev),
           IsLatest(ev, id, i), IsLatest(ev, id, k)
    PROVE  i = k
BY DEF IsLatest

(* LatestById maps an id to its latest entry.                              *)
LEMMA LatestValue ==
    ASSUME NEW ev \in Seq(Order), NEW id,
           NEW i \in 1..Len(ev), IsLatest(ev, id, i)
    PROVE  /\ id \in DOMAIN LatestById(ev)
           /\ LatestById(ev)[id] = ev[i]
<1> DEFINE k == CHOOSE x \in 1..Len(ev) : IsLatest(ev, id, x)
<1>1. id \in {ev[x].orderId : x \in 1..Len(ev)}
  BY DEF IsLatest
<1>2. k \in 1..Len(ev) /\ IsLatest(ev, id, k)
  BY <1>1, LatestExists
<1>3. k = i
  BY <1>2, LatestUnique
<1>4. LatestById(ev)[id] = ev[k]
  BY <1>1 DEF LatestById
<1>. QED
  BY <1>1, <1>3, <1>4 DEF LatestById

(* LatestValue, stated for every sequence, id and index.                   *)
LEMMA LatestValueAll ==
    \A ev \in Seq(Order) : \A id : \A i \in 1..Len(ev) :
        IsLatest(ev, id, i) => LatestById(ev)[id] = ev[i]
<1> SUFFICES ASSUME NEW ev \in Seq(Order), NEW id, NEW i \in 1..Len(ev),
                    IsLatest(ev, id, i)
             PROVE  LatestById(ev)[id] = ev[i]
  OBVIOUS
<1>. QED
  BY LatestValue

(* The ORDER_SNAPSHOT loop builds the latest-entry map of its list.        *)
LEMMA SnapshotIsLatest ==
    ASSUME NEW data \in Seq(Order)
    PROVE  SnapshotOrders(data) = LatestById(data)
<1> DEFINE ids == {data[i].orderId : i \in 1..Len(data)}
<1>1. DOMAIN SnapshotOrders(data) = ids /\ DOMAIN LatestById(data) = ids
  BY SnapshotOrdersLastWins DEF LatestById
<1>2. ASSUME NEW id \in ids PROVE SnapshotOrders(data)[id] = LatestById(data)[id]
  <2>1. PICK i \in 1..Len(data) :
            /\ SnapshotOrders(data)[id] = data[i]
            /\ data[i].orderId = id
            /\ \A j \in i + 1..Len(data) : data[j].orderId # id
    BY <1>1, SnapshotOrdersLastWins
  <2>2. IsLatest(data, id, i)
    BY <2>1 DEF IsLatest
  <2>. QED
    BY <2>1, <2>2, LatestValue
<1>3. SnapshotOrders(data) = [id \in ids |-> SnapshotOrders(data)[id]]
  BY <1>1 DEF SnapshotOrders
<1>4. LatestById(data) = [id \in ids |-> LatestById(data)[id]]
  BY DEF LatestById
<1>. QED
  BY <1>2, <1>3, <1>4

(* Applying one more order: the latest-entry map of the longer history is *)
(* Map.set of the order on a copy of the map before it.                    *)
LEMMA LatestAppend ==
    ASSUME NEW ev \in Seq(Order), NEW o \in Order
    PROVE  LatestById(Append(ev, o)) = MapSet(LatestById(ev), o.orderId, o)
<1> DEFINE ev2 == Append(ev, o)
           n == Len(ev)
           ids == {ev[i].orderId : i \in 1..n}
           ids2 == {ev2[i].orderId : i \in 1..n + 1}
<1>1. ev2 \in Seq(Order) /\ Len(ev2) = n + 1 /\ ev2[n + 1] = o
      /\ \A j \in 1..n : ev2[j] = ev[j]
  OBVIOUS
<1>2. ids2 = ids \cup {o.orderId}
  BY <1>1
<1>3. DOMAIN LatestById(ev2) = ids \cup {o.orderId}
  BY <1>1, <1>2 DEF LatestById
<1>4. DOMAIN MapSet(LatestById(ev), o.orderId, o) = ids \cup {o.orderId}
  BY DEF MapSet, LatestById
<1>5. LatestById(ev2)[o.orderId] = o
  <2>1. PICK k \in 1..Len(ev2) : k = n + 1
    BY <1>1
  <2>2. IsLatest(ev2, o.orderId, k)
    BY <1>1, <2>1 DEF IsLatest
  <2>3. LatestById(ev2)[o.orderId] = ev2[k]
    BY <1>1, <2>1, <2>2, LatestValueAll
  <2>. QED
    BY <1>1, <2>1, <2>3
<1>6. ASSUME NEW id \in ids, id # o.orderId
      PROVE  LatestById(ev2)[id] = LatestById(ev)[id]
  <2>1. PICK i \in 1..n : IsLatest(ev, id, i)
    BY <1>6, LatestExists
  <2>2. IsLatest(ev2, id, i)
    BY <1>1, <1>6, <2>1 DEF IsLatest
  <2>3. i \in 1..Len(ev2)
    BY <1>1
  <2>4. LatestById(ev2)[id] = ev2[i]
    BY <1>1, <2>2, <2>3, LatestValue, Zenon
  <2>5. LatestById(ev)[id] = ev[i]
    BY <2>1, LatestValue, Zenon
  <2>. QED
    BY <1>1, <2>4, <2>5
<1>7. ASSUME NEW id \in ids \cup {o.orderId}
      PROVE  LatestById(ev2)[id] = MapSet(LatestById(ev), o.orderId, o)[id]
  <2>1. MapSet(LatestById(ev), o.orderId, o)[id]
          = IF id = o.orderId THEN o ELSE LatestById(ev)[id]
    BY <1>4 DEF MapSet
  <2>. QED
    BY <1>5, <1>6, <2>1
<1>8. LatestById(ev2) = [id \in ids \cup {o.orderId} |-> LatestById(ev2)[id]]
  BY <1>3 DEF LatestById
<1>9. MapSet(LatestById(ev), o.orderId, o)
        = [id \in ids \cup {o.orderId} |-> MapSet(LatestById(ev), o.orderId, o)[id]]
  BY <1>4 DEF MapSet
<1>. QED
  BY <1>7, <1>8, <1>9

(* One feed step keeps the order map equal to the latest-entry map of the  *)
(* orders applied since the last snapshot.                                 *)
LEMMA LastWriteWinsStep ==
    ASSUME TypeOK, OrderMapLastWriteWins, [Next]_vars
    PROVE  OrderMapLastWriteWins'
<1>0. FeedOrders \subseteq Order /\ FeedSnapshots \subseteq Seq(Order)
  BY FeedAssumption
<1>1. ASSUME NEW list \in FeedSnapshots, OrderSnapshot(list)
      PROVE  OrderMapLastWriteWins'
  <2>1. store'.orders = SnapshotOrders(list) /\ applied' = list
    BY <1>1 DEF OrderSnapshot, Feed, omsReducer, TypeOK, OmsState
  <2>2. SnapshotOrders(list) = LatestById(list)
    BY <1>0, SnapshotIsLatest
  <2>. QED
    BY <2>1, <2>2 DEF OrderMapLastWriteWins
<1>2. ASSUME NEW o \in FeedOrders, OrderUpdate(o)
      PROVE  OrderMapLastWriteWins'
  <2>1. store'.orders = MapSet(store.orders, o.orderId, o)
        /\ applied' = Append(applied, o)
    BY <1>2 DEF OrderUpdate, Feed, omsReducer, TypeOK, OmsState
  <2>2. LatestById(Append(applied, o)) = MapSet(LatestById(applied), o.orderId, o)
    BY <1>0, LatestAppend DEF TypeOK
  <2>. QED
    BY <2>1, <2>2 DEF OrderMapLastWriteWins
<1>3. ASSUME NEW e \in FeedExecs, ExecutionReport(e)
      PROVE  OrderMapLastWriteWins'
  <2>1. store'.orders = store.orders /\ applied' = applied
    BY <1>3 DEF ExecutionReport, Feed, omsReducer, TypeOK, OmsState
  <2>. QED
    BY <2>1 DEF OrderMapLastWriteWins
<1>4. CASE UNCHANGED vars
  BY <1>4 DEF vars, OrderMapLastWriteWins
<1>. QED
  BY <1>1, <1>2, <1>3, <1>4 DEF Next

(* Spec 8, for every feed and every bound: the order map held by the store *)
(* has exactly one entry per distinct orderId of the orders applied since  *)
(* the last ORDER_SNAPSHOT, the most recently applied one; the snapshot    *)
(* loop of omsReducer lets a later entry of a repeated id win, and         *)
(* ORDER_UPDATE sets its entry on a copy of the map.                       *)
THEOREM OrderMapCorrect == Spec => [](TypeOK /\ OrderMapLastWriteWins)
<1>1. Init => OrderMapLastWriteWins
  <2> SUFFICES ASSUME Init PROVE INITIAL_STATE.orders = LatestById(<<>>)
    BY DEF Init, OrderMapLastWriteWins
  <2>1. INITIAL_STATE.orders = <<>>
    BY DEF INITIAL_STATE
  <2>2. LatestById(<<>>) = <<>>
    BY DEF LatestById
  <2>. QED
    BY <2>1, <2>2
<1>2. TypeOK /\ OrderMapLastWriteWins /\ [Next]_vars => OrderMapLastWriteWins'
  BY LastWriteWinsStep
<1>. QED
  BY <1>1, <1>2, FeedTyped, InitInv, PTL DEF Spec

=============================================================================
