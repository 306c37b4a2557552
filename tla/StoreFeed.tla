------------------------------ MODULE StoreFeed ------------------------------
(***************************************************************************)
(* The State Store as the server's order and execution feed drives it:    *)
(* the orders and executions the feed leaves in it (the positions derived *)
(* from them are in StoreFeedPositions).                                   *)
(* Each step dispatches one ORDER_SNAPSHOT, ORDER_UPDATE or               *)
(* EXECUTION_REPORT action into omsReducer (the path ws.onmessage takes in *)
(* OmsSession, here without the socket so that longer feeds fit).  The     *)
(* history variable received records every execution report in receipt   *)
(* order, and applied the orders applied since the last snapshot (the     *)
(* snapshot's list first); the code keeps no such record.                  *)
(***************************************************************************)
EXTENDS OmsReducer

CONSTANTS
    FeedOrders,     \* orders order_update may carry
    FeedSnapshots,  \* order lists order_snapshot may carry
    FeedExecs,      \* reports execution_report may carry
    FeedBound,      \* the number of execution reports a run delivers
    UpdateBound     \* the order updates a run delivers between snapshots

ASSUME FeedAssumption ==
    /\ FeedOrders \subseteq Order
    /\ FeedSnapshots \subseteq Seq(Order)
    /\ FeedExecs \subseteq Execution
    /\ FeedBound \in Nat
    /\ UpdateBound \in Nat

VARIABLES
    store,      \* the useReducer state
    received,   \* history: every execution report dispatched, oldest first
    applied     \* history: the orders applied since the last snapshot

vars == <<store, received, applied>>

TypeOK ==
    /\ store \in OmsState
    /\ received \in Seq(FeedExecs)
    /\ applied \in Seq(Order)

Init ==
    /\ store = INITIAL_STATE
    /\ received = <<>>
    /\ applied = <<>>

Feed(action) == store' = omsReducer(store, action)

OrderSnapshot(list) ==
    /\ Feed([type |-> "ORDER_SNAPSHOT", data |-> list])
    /\ applied' = list
    /\ UNCHANGED received

OrderUpdate(o) ==
    /\ Len(applied) < UpdateBound
    /\ Feed([type |-> "ORDER_UPDATE", data |-> o])
    /\ applied' = Append(applied, o)
    /\ UNCHANGED received

ExecutionReport(e) ==
    /\ Len(received) < FeedBound
    /\ Feed([type |-> "EXECUTION_REPORT", data |-> e])
    /\ received' = Append(received, e)
    /\ UNCHANGED applied

Next ==
    \/ \E list \in FeedSnapshots : OrderSnapshot(list)
    \/ \E o \in FeedOrders : OrderUpdate(o)
    \/ \E e \in FeedExecs : ExecutionReport(e)

Spec == Init /\ [][Next]_vars

-----------------------------------------------------------------------------
(* The reports received, newest first (Reverse of SequencesExt, written    *)
(* as a function so that the module stays within the prover's reach).    *)
NewestFirst(s) == [i \in 1..Len(s) |-> s[Len(s) - i + 1]]

(* Spec 8: the stored log holds the MAX_EXECUTIONS most recently received  *)
(* reports, newest first.  Broken by a reducer that appends, that slices   *)
(* off by one, or that slices before prepending.                           *)
ExecutionLogNewestFirst ==
    store.executions = Take(NewestFirst(received), MaxExecutions)

(* The entry of events that was applied last for id: no later entry       *)
(* carries the same id.                                                    *)
IsLatest(events, id, i) ==
    /\ events[i].orderId = id
    /\ \A j \in 1..Len(events) : events[j].orderId = id => j <= i

(* Spec 8: the map holding, for each id of events, its latest entry.      *)
LatestById(events) ==
    [id \in {events[i].orderId : i \in 1..Len(events)} |->
        events[CHOOSE i \in 1..Len(events) : IsLatest(events, id, i)]]

(* Spec 8: after any sequence of order snapshots and updates the order map *)
(* holds exactly one entry per distinct orderId of the orders applied      *)
(* since the last snapshot, the most recently applied one.  Broken by an   *)
(* update that rebuilt the map, or a snapshot that kept an earlier entry   *)
(* of a repeated id.                                                       *)
OrderMapLastWriteWins ==
    store.orders = LatestById(applied)
=============================================================================
