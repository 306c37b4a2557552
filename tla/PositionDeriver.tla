--------------------------- MODULE PositionDeriver ---------------------------
(***************************************************************************)
(* The Position Deriver: the useMemo of PositionSummary                    *)
(* (components/PositionSummary.tsx), a fold over the execution log that    *)
(* resolves each execution's order, skips executions of unknown orders and *)
(* accumulates per symbol the signed net quantity, the trade count and the *)
(* cost and quantity sums of TRADE and CORRECT executions, with the VWAP   *)
(* avgPx = totalCost / totalQty.                                           *)
(*                                                                         *)
(* Prices and quantities are integers (price ticks), so sums are exact;    *)
(* the code's doubles are not modelled.  avgPx is kept as the fraction     *)
(* <<totalCost, totalQty>> the division is applied to (<<0, 1>> for 0).    *)
(* The final Array.from(...).sort by symbol is represented by the map from *)
(* symbol to position, which is that array up to its order; lastTradeTime  *)
(* is left out (the model's executions carry no transactTime).            *)
(***************************************************************************)
EXTENDS OmsReducer, Integers, SequencesExt

(* interface Position.                                                     *)
ZeroPosition ==
    [netQty |-> 0, avgPx |-> <<0, 1>>, tradeCount |-> 0,
     totalCost |-> 0, totalQty |-> 0]

(* +1 for a buy-class side (BUY, BUY_MINUS), -1 otherwise.                 *)
direction(order) == IF order.side = "BUY" \/ order.side = "BUY_MINUS" THEN 1 ELSE -1

(* Mutant: a CORRECT execution is counted as a trade.                      *)
ApplyExecCountsCorrect(p, exec, order) ==
    LET signedQty == exec.lastQty * direction(order)
        q == IF exec.type \in {"TRADE", "CORRECT"}
               THEN [p EXCEPT !.netQty = @ + signedQty,
                              !.tradeCount = @ + 1,
                              !.totalCost = @ + exec.lastPx * exec.lastQty,
                              !.totalQty = @ + exec.lastQty]
               ELSE p
    IN  IF q.totalQty > 0 THEN [q EXCEPT !.avgPx = <<q.totalCost, q.totalQty>>] ELSE q

(* The body of the loop for one execution of a known order: the TRADE and *)
(* CORRECT branches (CANCEL is a placeholder that changes nothing), then   *)
(* the VWAP update when totalQty > 0.                                      *)
ApplyExec(p, exec, order) ==
    LET signedQty == exec.lastQty * direction(order)
        q == CASE exec.type = "TRADE" ->
                    [p EXCEPT !.netQty = @ + signedQty,
                              !.tradeCount = @ + 1,
                              !.totalCost = @ + exec.lastPx * exec.lastQty,
                              !.totalQty = @ + exec.lastQty]
               [] exec.type = "CORRECT" ->
                    [p EXCEPT !.netQty = @ + signedQty,
                              !.totalCost = @ + exec.lastPx * exec.lastQty,
                              !.totalQty = @ + exec.lastQty]
               [] OTHER -> p
    IN  IF q.totalQty > 0 THEN [q EXCEPT !.avgPx = <<q.totalCost, q.totalQty>>] ELSE q

(* One iteration: skip an execution whose order is not in the map;        *)
(* otherwise start the symbol's position at zero if it has none and set    *)
(* it to the updated position (for every execution type).                  *)
PositionStep(posMap, exec, orders) ==
    IF exec.orderId \notin DOMAIN orders
      THEN posMap
      ELSE LET order == orders[exec.orderId]
               existing == IF order.symbol \in DOMAIN posMap
                             THEN posMap[order.symbol] ELSE ZeroPosition
           IN  MapSet(posMap, order.symbol, ApplyExec(existing, exec, order))

(* for (const exec of executions) ..., from an empty posMap.              *)
Positions(executions, orders) ==
    FoldLeft(LAMBDA m, e : PositionStep(m, e, orders), <<>>, executions)

-----------------------------------------------------------------------------
(* The reference: spec 4.4 stated as sums over the log rather than a fold. *)
(* A symbol has a row when some execution of the log belongs to a known   *)
(* order of that symbol; its figures are sums over the TRADE and CORRECT   *)
(* executions among them, with buy-class sides counted positive.           *)
BuySides == {"BUY", "BUY_MINUS"}

KnownIdx(executions, orders) ==
    {i \in 1..Len(executions) : executions[i].orderId \in DOMAIN orders}

SymbolOf(executions, orders, i) == orders[executions[i].orderId].symbol

FillIdx(executions, orders, sym) ==
    {i \in KnownIdx(executions, orders) :
        SymbolOf(executions, orders, i) = sym /\
        executions[i].type \in {"TRADE", "CORRECT"}}

RefPosition(executions, orders, sym) ==
    LET F == FillIdx(executions, orders, sym)
        qty(i) == executions[i].lastQty
        sgn(i) == IF orders[executions[i].orderId].side \in BuySides THEN 1 ELSE -1
        cost == MapThenSumSet(LAMBDA i : executions[i].lastPx * qty(i), F)
        total == MapThenSumSet(qty, F)
    IN  [netQty |-> MapThenSumSet(LAMBDA i : sgn(i) * qty(i), F),
         avgPx |-> IF total > 0 THEN <<cost, total>> ELSE <<0, 1>>,
         tradeCount |-> Cardinality({i \in F : executions[i].type = "TRADE"}),
         totalCost |-> cost,
         totalQty |-> total]

RefPositions(executions, orders) ==
    [sym \in {SymbolOf(executions, orders, i) : i \in KnownIdx(executions, orders)} |->
        RefPosition(executions, orders, sym)]
=============================================================================
