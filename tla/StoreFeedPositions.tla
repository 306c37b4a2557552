------------------------- MODULE StoreFeedPositions -------------------------
(***************************************************************************)
(* The positions PositionSummary derives on each render from the store     *)
(* the feed of StoreFeed drives.                                           *)
(***************************************************************************)
EXTENDS StoreFeed, PositionDeriver

(* Spec 4.4: the positions table PositionSummary renders from the store    *)
(* equals the per-symbol sums over the log's TRADE and CORRECT executions  *)
(* of known orders, whatever order the feed delivered them in and however  *)
(* order updates and snapshots interleave with them.                       *)
PositionsMatchReference ==
    Positions(store.executions, store.orders)
        = RefPositions(store.executions, store.orders)

=============================================================================
