-------------------------- MODULE OmsReducerProofs --------------------------
(***************************************************************************)
(* Facts about the State Store reducer: every reducer step maps a          *)
(* well-typed OmsState to a well-typed OmsState, whatever action it is     *)
(* given.  In particular the execution log never exceeds MAX_EXECUTIONS    *)
(* and the order map built from a snapshot list is well defined even when  *)
(* the list repeats an order id.                                           *)
(***************************************************************************)
EXTENDS OmsReducer, WellFoundedInduction, TLAPS

(* Map.set on a copy keeps a map from K to V a map from K to V.           *)
LEMMA MapSetType ==
    ASSUME NEW K, NEW V, NEW m \in MapOf(K, V), NEW k \in K, NEW v \in V
    PROVE  MapSet(m, k, v) \in MapOf(K, V)
<1>1. PICK D \in SUBSET K : m \in [D -> V]
  BY DEF MapOf
<1>2. MapSet(m, k, v) \in [D \cup {k} -> V]
  BY <1>1 DEF MapSet
<1>3. D \cup {k} \in SUBSET K
  OBVIOUS
<1>. QED
  BY <1>2, <1>3 DEF MapOf

(* Every id that occurs in a list occurs a last time in it.                *)
LEMMA LastIndexExists ==
    ASSUME NEW S, NEW data \in Seq(S),
           NEW id \in {data[i].orderId : i \in 1..Len(data)}
    PROVE  \E i \in 1..Len(data) :
              /\ data[i].orderId = id
              /\ \A j \in i + 1..Len(data) : data[j].orderId # id
<1> DEFINE n == Len(data)
           Idx == {i \in 1..n : data[i].orderId = id}
           T == {n - i : i \in Idx}
           R == OpToRel(<, Nat)
<1>1. n \in Nat
  OBVIOUS
<1>2. T \subseteq Nat /\ T # {}
  BY <1>1
<1>3. PICK x \in T : \A y \in T : ~(<<y, x>> \in R)
  BY <1>2, NatLessThanWellFounded, WFMin
<1>4. PICK i \in Idx : x = n - i
  OBVIOUS
<1>5. ASSUME NEW j \in i + 1..n, data[j].orderId = id
      PROVE  FALSE
  <2>1. n - j \in T /\ n - j < x
    BY <1>1, <1>4, <1>5
  <2>2. <<n - j, x>> \in R
    BY <2>1, <1>2 DEF OpToRel
  <2>. QED
    BY <2>1, <2>2, <1>3
<1>. QED
  BY <1>4, <1>5

(* The ORDER_SNAPSHOT loop builds a map from order ids to orders.          *)
LEMMA SnapshotOrdersType ==
    ASSUME NEW data \in Seq(Order)
    PROVE  SnapshotOrders(data) \in MapOf(OrderIds, Order)
<1> DEFINE ids == {data[i].orderId : i \in 1..Len(data)}
           last(id) == CHOOSE i \in 1..Len(data) :
                           /\ data[i].orderId = id
                           /\ \A j \in i + 1..Len(data) : data[j].orderId # id
<1>1. ASSUME NEW id \in ids PROVE data[last(id)] \in Order
  <2>1. \E i \in 1..Len(data) :
           /\ data[i].orderId = id
           /\ \A j \in i + 1..Len(data) : data[j].orderId # id
    BY <1>1, LastIndexExists
  <2>2. last(id) \in 1..Len(data)
    BY <2>1
  <2>. QED
    BY <2>2
<1>2. ids \in SUBSET OrderIds
  <2>1. ASSUME NEW i \in 1..Len(data) PROVE data[i] \in Order
    OBVIOUS
  <2>. QED
    BY <2>1 DEF Order
<1>3. SnapshotOrders(data) = [id \in ids |-> data[last(id)]]
  BY DEF SnapshotOrders
<1>4. [id \in ids |-> data[last(id)]] \in [ids -> Order]
  BY <1>1
<1>. QED
  BY <1>2, <1>3, <1>4 DEF MapOf

(* The ORDER_SNAPSHOT loop keeps the last order of the list for each id    *)
(* (a later Map.set overwrites an earlier one): the map's keys are the     *)
(* list's ids, and each maps to an entry with no later entry of its id.    *)
LEMMA SnapshotOrdersLastWins ==
    ASSUME NEW data \in Seq(Order)
    PROVE  /\ DOMAIN SnapshotOrders(data) = {data[i].orderId : i \in 1..Len(data)}
           /\ \A id \in DOMAIN SnapshotOrders(data) :
                 \E i \in 1..Len(data) :
                    /\ SnapshotOrders(data)[id] = data[i]
                    /\ data[i].orderId = id
                    /\ \A j \in i + 1..Len(data) : data[j].orderId # id
<1> DEFINE ids == {data[i].orderId : i \in 1..Len(data)}
           last(id) == CHOOSE i \in 1..Len(data) :
                           /\ data[i].orderId = id
                           /\ \A j \in i + 1..Len(data) : data[j].orderId # id
<1>1. SnapshotOrders(data) = [id \in ids |-> data[last(id)]]
  BY DEF SnapshotOrders
<1>2. ASSUME NEW id \in ids
      PROVE  /\ last(id) \in 1..Len(data)
             /\ data[last(id)].orderId = id
             /\ \A j \in last(id) + 1..Len(data) : data[j].orderId # id
  <2>1. \E i \in 1..Len(data) :
           /\ data[i].orderId = id
           /\ \A j \in i + 1..Len(data) : data[j].orderId # id
    BY LastIndexExists
  <2>. QED
    BY <2>1, Zenon
<1>3. DOMAIN SnapshotOrders(data) = ids
  BY <1>1
<1>4. ASSUME NEW id \in DOMAIN SnapshotOrders(data)
      PROVE  \E i \in 1..Len(data) :
                /\ SnapshotOrders(data)[id] = data[i]
                /\ data[i].orderId = id
                /\ \A j \in i + 1..Len(data) : data[j].orderId # id
  <2>1. id \in ids /\ SnapshotOrders(data)[id] = data[last(id)]
    BY <1>1, <1>3
  <2>. QED
    BY <2>1, <1>2
<1>. QED
  BY <1>3, <1>4

(* The EXECUTION_REPORT step keeps the log within MAX_EXECUTIONS.          *)
LEMMA PrependExecutionType ==
    ASSUME NEW execs \in SeqUpTo(Execution, MaxExecutions), NEW e \in Execution
    PROVE  PrependExecution(execs, e) \in SeqUpTo(Execution, MaxExecutions)
<1>1. <<e>> \o execs \in Seq(Execution)
  BY DEF SeqUpTo
<1>. QED
  BY <1>1, MaxExecutionsAssumption DEF PrependExecution, Take, SeqUpTo

(* omsReducer maps a well-typed state and action to a well-typed state.    *)
LEMMA ReducerTyped ==
    ASSUME NEW st \in OmsState, NEW a \in OmsAction
    PROVE  omsReducer(st, a) \in OmsState
<1>1. CASE a.type \in {"CONNECTED", "DISCONNECTED"}
  BY <1>1 DEF omsReducer, OmsState
<1>2. CASE a.type = "INSTRUMENT_LIST"
  BY <1>2 DEF omsReducer, OmsState, OmsAction
<1>3. CASE a.type = "ACCOUNT_LIST"
  BY <1>3 DEF omsReducer, OmsState, OmsAction
<1>4. CASE a.type = "ORDER_SNAPSHOT"
  <2>1. a.data \in Seq(Order)
    BY <1>4 DEF OmsAction
  <2>. QED
    BY <1>4, <2>1, SnapshotOrdersType DEF omsReducer, OmsState
<1>5. CASE a.type = "ORDER_UPDATE"
  <2>1. a.data \in Order
    BY <1>5 DEF OmsAction
  <2>2. MapSet(st.orders, a.data.orderId, a.data) \in MapOf(OrderIds, Order)
    BY <2>1, MapSetType DEF OmsState, Order
  <2>. QED
    BY <1>5, <2>2 DEF omsReducer, OmsState
<1>6. CASE a.type = "EXECUTION_REPORT"
  <2>1. a.data \in Execution
    BY <1>6 DEF OmsAction
  <2>2. PrependExecution(st.executions, a.data) \in SeqUpTo(Execution, MaxExecutions)
    BY <2>1, PrependExecutionType DEF OmsState
  <2>. QED
    BY <1>6, <2>2 DEF omsReducer, OmsState
<1>7. CASE a.type = "BOOK_UPDATE"
  <2>1. a.data \in OrderBookSnapshot
    BY <1>7 DEF OmsAction
  <2>2. MapSet(st.bookData, a.data.symbol, a.data) \in MapOf(Symbols, OrderBookSnapshot)
    BY <2>1, MapSetType DEF OmsState, OrderBookSnapshot
  <2>. QED
    BY <1>7, <2>2 DEF omsReducer, OmsState
<1>. QED
  BY <1>1, <1>2, <1>3, <1>4, <1>5, <1>6, <1>7 DEF OmsAction
-----------------------------------------------------------------------------
(* Only ORDER_SNAPSHOT removes an order from the map: every other action   *)
(* keeps each key (ORDER_UPDATE's Map.set works on a copy), and a snapshot *)
(* replaces the map by the one its list builds: spec 4.3's invariant of    *)
(* the order map, for one reducer step.                                    *)
LEMMA OrdersShrinkOnlyBySnapshot ==
    ASSUME NEW st \in OmsState, NEW a \in OmsAction
    PROVE  \/ DOMAIN st.orders \subseteq DOMAIN omsReducer(st, a).orders
           \/ /\ a.type = "ORDER_SNAPSHOT"
              /\ omsReducer(st, a).orders = SnapshotOrders(a.data)
<1>1. CASE a.type = "ORDER_SNAPSHOT"
  BY <1>1 DEF omsReducer, OmsState
<1>2. CASE a.type = "ORDER_UPDATE"
  <2>1. omsReducer(st, a).orders = MapSet(st.orders, a.data.orderId, a.data)
    BY <1>2 DEF omsReducer, OmsState
  <2>. QED
    BY <2>1 DEF MapSet
<1>3. CASE a.type \notin {"ORDER_SNAPSHOT", "ORDER_UPDATE"}
  <2>1. omsReducer(st, a).orders = st.orders
    BY <1>3 DEF omsReducer, OmsState, OmsAction
  <2>. QED
    BY <2>1
<1>. QED
  BY <1>1, <1>2, <1>3

(* Prepending a report to the capped log and capping again gives the same *)
(* log as prepending it to the whole history and capping once: the slice  *)
(* of an earlier EXECUTION_REPORT never loses a report a later one would   *)
(* keep.  This is the step of StoreFeed's ExecutionLogNewestFirst.         *)
LEMMA PrependExecutionOfTake ==
    ASSUME NEW S, NEW hist \in Seq(S), NEW e
    PROVE  PrependExecution(Take(hist, MaxExecutions), e)
              = Take(<<e>> \o hist, MaxExecutions)
<1> DEFINE n == MaxExecutions
           m == IF Len(hist) < n THEN Len(hist) ELSE n
           lhs == Take(<<e>> \o SubSeq(hist, 1, m), n)
           rhs == Take(<<e>> \o hist, n)
<1>1. n \in Nat \ {0} /\ m \in 0..Len(hist)
  BY MaxExecutionsAssumption
<1>2. Take(hist, n) = SubSeq(hist, 1, m)
  BY DEF Take
<1>3. Len(lhs) = Len(rhs)
  BY <1>1 DEF Take
<1>4. ASSUME NEW i \in 1..Len(rhs) PROVE lhs[i] = rhs[i]
  BY <1>1, <1>3 DEF Take
<1>5. lhs = rhs
  BY <1>1, <1>3, <1>4 DEF Take
<1>. QED
  BY <1>2, <1>5 DEF PrependExecution
=============================================================================
