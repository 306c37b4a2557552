--------------------------- MODULE MCOmsSession ---------------------------
(***************************************************************************)
(* Model-checking instance of OmsSession: the constants are given small    *)
(* values here and in the .cfg files.                                      *)
(***************************************************************************)
EXTENDS OmsSession

(* The instrument list of both symbols, one order (working or filled, so  *)
(* that the blotter's cancel guard matters), one execution report,         *)
(* one book snapshot: enough data for every dispatch path and for the book *)
(* panel to switch between two symbols; the properties checked here are    *)
(* about the sockets, the timers, the flags and the subscriptions, not the *)
(* payloads.                                                               *)
MCOrder == [orderId |-> "o1", symbol |-> "EURUSD", side |-> "BUY",
            status |-> "NEW"]

MCExec == [execId |-> "e1", orderId |-> "o1", type |-> "TRADE",
           lastQty |-> 40, lastPx |-> 12]

MCServerMsgs ==
    { [type |-> "instrument_list", data |-> {"EURUSD", "GBPUSD"}],
      [type |-> "order_update", data |-> MCOrder],
      [type |-> "order_update", data |-> [MCOrder EXCEPT !.status = "FILLED"]],
      [type |-> "execution_report", data |-> MCExec],
      [type |-> "book_update", data |-> [symbol |-> "EURUSD", stamp |-> "b1"]] }
=============================================================================
