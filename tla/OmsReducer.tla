----------------------------- MODULE OmsReducer -----------------------------
(***************************************************************************)
(* The State Store of the OMS dashboard: the records the wire protocol     *)
(* carries (types/index.ts, types/websocket.ts) and the pure reducer       *)
(* omsReducer with its INITIAL_STATE (hooks/useOmsWebSocket.ts).          *)
(*                                                                         *)
(* Data is abstracted to what the properties tell apart: an order keeps    *)
(* its id, symbol, side and status; an execution report its id, order id,  *)
(* type, fill quantity and price; an order-book snapshot its symbol and a  *)
(* stamp standing for the levels and timestamp.  Instrument and account    *)
(* lists are kept as the sets of symbols and account names they carry.     *)
(* The module declares no variables: the component that owns the store    *)
(* (OmsSession) holds it in one record-valued variable.                   *)
(***************************************************************************)
EXTENDS Naturals, Sequences, FiniteSets

CONSTANTS
    OrderIds,       \* order ids the server may use
    ExecIds,        \* execution ids the server may use
    Symbols,        \* instrument symbols
    AccountNames,   \* account names
    Qtys,           \* fill quantities (lastQty)
    Pxs,            \* fill prices (lastPx), in price ticks
    BookStamps,     \* stand-ins for the content of one book snapshot
    MaxExecutions   \* MAX_EXECUTIONS, the cap of the execution log

ASSUME MaxExecutionsAssumption == MaxExecutions \in Nat \ {0}

(* enums.ts: OrderType, Side, OrderStatus, ExecType                        *)
OrderType == {"MARKET", "LIMIT", "STOP", "STOPLIMIT"}

Side == {"BUY", "SELL", "BUY_MINUS", "SELL_PLUS", "SELL_SHORT", "CROSS"}

OrderStatus == {"RECEIVED_NEW", "PENDING_NEW", "PENDING_REPLACE", "NEW",
                "PARTIAL_FILL", "FILLED", "EXPIRED", "DONE_FOR_DAY",
                "SUSPENDED", "REPLACED", "CANCELED", "REJECTED"}

ExecType == {"NEW", "TRADE", "DFD", "CORRECT", "CANCEL", "REJECT", "REPLACE",
             "EXPIRED", "SUSPENDED", "STATUS", "RESTATED", "PEND_CANCEL",
             "PEND_REPLACE"}

(* constants.ts: the statuses in which the blotter offers cancel/replace. *)
CANCELABLE_STATUSES == {"NEW", "PARTIAL_FILL", "SUSPENDED"}

(* index.ts: interface Order, abstracted to the fields a property reads.   *)
Order == [orderId : OrderIds, symbol : Symbols, side : Side,
          status : OrderStatus]

(* index.ts: ExecutionReport and its variants, one record whose lastQty    *)
(* and lastPx are those of TRADE and CORRECT reports.                      *)
Execution == [execId : ExecIds, orderId : OrderIds, type : ExecType,
              lastQty : Qtys, lastPx : Pxs]

(* index.ts: OrderBookSnapshot.                                            *)
OrderBookSnapshot == [symbol : Symbols, stamp : BookStamps]

(* A JavaScript Map with keys in K and values in V.                        *)
MapOf(K, V) == UNION {[D -> V] : D \in SUBSET K}

(* Mutant: Map.set(k, v) on a new, empty Map instead of a copy of m.     *)
MapSetFresh(m, k, v) == [x \in {k} |-> v]

(* Map.set(k, v) on a copy of m.                                           *)
MapSet(m, k, v) == [x \in DOMAIN m \cup {k} |-> IF x = k THEN v ELSE m[x]]

(* Array.prototype.slice(0, n).                                            *)
Take(s, n) == SubSeq(s, 1, IF Len(s) < n THEN Len(s) ELSE n)

(* Sequences of length at most n.                                          *)
SeqUpTo(S, n) == {s \in Seq(S) : Len(s) <= n}

(* interface OmsState.                                                     *)
OmsState == [connected : BOOLEAN,
             instruments : SUBSET Symbols,
             accounts : SUBSET AccountNames,
             orders : MapOf(OrderIds, Order),
             executions : SeqUpTo(Execution, MaxExecutions),
             bookData : MapOf(Symbols, OrderBookSnapshot)]

(* type OmsAction.                                                         *)
OmsAction ==
         [type : {"CONNECTED", "DISCONNECTED"}]
    \cup [type : {"INSTRUMENT_LIST"}, data : SUBSET Symbols]
    \cup [type : {"ACCOUNT_LIST"}, data : SUBSET AccountNames]
    \cup [type : {"ORDER_SNAPSHOT"}, data : Seq(Order)]
    \cup [type : {"ORDER_UPDATE"}, data : Order]
    \cup [type : {"EXECUTION_REPORT"}, data : Execution]
    \cup [type : {"BOOK_UPDATE"}, data : OrderBookSnapshot]

INITIAL_STATE ==
    [connected |-> FALSE, instruments |-> {}, accounts |-> {},
     orders |-> <<>>, executions |-> <<>>, bookData |-> <<>>]

(* The map the ORDER_SNAPSHOT loop builds: for each orderId in the list,   *)
(* the last order of the list with that id (a later Map.set overwrites).   *)
SnapshotOrders(data) ==
    LET ids == {data[i].orderId : i \in 1..Len(data)}
        last(id) == CHOOSE i \in 1..Len(data) :
                        /\ data[i].orderId = id
                        /\ \A j \in i + 1..Len(data) : data[j].orderId # id
    IN  [id \in ids |-> data[last(id)]]

(* Mutant: the report is prepended without slice(0, MAX_EXECUTIONS).     *)
PrependExecutionUncapped(executions, e) == <<e>> \o executions

(* Mutant: the report is appended, so the slice keeps the oldest ones.     *)
AppendExecution(executions, e) == Take(executions \o <<e>>, MaxExecutions)

(* EXECUTION_REPORT: prepend, then keep the MAX_EXECUTIONS newest.         *)
PrependExecution(executions, e) == Take(<<e>> \o executions, MaxExecutions)

(* function omsReducer(state, action).                                     *)
omsReducer(state, action) ==
    CASE action.type = "CONNECTED" ->
            [state EXCEPT !.connected = TRUE]
      [] action.type = "DISCONNECTED" ->
            [state EXCEPT !.connected = FALSE]
      [] action.type = "INSTRUMENT_LIST" ->
            [state EXCEPT !.instruments = action.data]
      [] action.type = "ACCOUNT_LIST" ->
            [state EXCEPT !.accounts = action.data]
      [] action.type = "ORDER_SNAPSHOT" ->
            [state EXCEPT !.orders = SnapshotOrders(action.data)]
      [] action.type = "ORDER_UPDATE" ->
            [state EXCEPT !.orders =
                MapSet(state.orders, action.data.orderId, action.data)]
      [] action.type = "EXECUTION_REPORT" ->
            [state EXCEPT !.executions =
                PrependExecution(state.executions, action.data)]
      [] action.type = "BOOK_UPDATE" ->
            [state EXCEPT !.bookData =
                MapSet(state.bookData, action.data.symbol, action.data)]
      [] OTHER -> state
=============================================================================
