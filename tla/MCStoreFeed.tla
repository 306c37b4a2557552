---------------------------- MODULE MCStoreFeed ----------------------------
(***************************************************************************)
(* Model-checking instance of StoreFeedPositions.  Two orders of          *)
(* different symbols and sides (one buy-class BUY_MINUS, one SELL_SHORT); *)
(* a TRADE of each, a zero-quantity CORRECT (the VWAP guard) and a CANCEL; *)
(* a snapshot that drops the first order and one that repeats it with two *)
(* statuses (the later must win), and an update of o1 to PARTIAL_FILL.    *)
(* Three reports against a log of two make the log evict its oldest.     *)
(***************************************************************************)
EXTENDS StoreFeedPositions

MCO1 == [orderId |-> "o1", symbol |-> "EURUSD", side |-> "BUY_MINUS", status |-> "NEW"]
MCO2 == [orderId |-> "o2", symbol |-> "GBPUSD", side |-> "SELL_SHORT", status |-> "NEW"]

MCO1F == [MCO1 EXCEPT !.status = "PARTIAL_FILL"]

MCFeedOrders == {MCO1, MCO1F, MCO2}

MCFeedSnapshots == {<<MCO2>>, <<MCO1F, MCO2, MCO1>>}

MCFeedExecs ==
    { [execId |-> "e1", orderId |-> "o1", type |-> "TRADE", lastQty |-> 40, lastPx |-> 12],
      [execId |-> "e2", orderId |-> "o1", type |-> "CORRECT", lastQty |-> 0, lastPx |-> 13],
      [execId |-> "e3", orderId |-> "o2", type |-> "TRADE", lastQty |-> 40, lastPx |-> 13],
      [execId |-> "e4", orderId |-> "o2", type |-> "CANCEL", lastQty |-> 0, lastPx |-> 12] }
=============================================================================
