---------------------------- MODULE MCBookView ----------------------------
(***************************************************************************)
(* Model-checking instance of BookView.  The clock runs in 1-second steps *)
(* for 40 s, past the 30 s stale threshold plus one tick; a book update    *)
(* arrives at once or 1 s after it was produced.  MCBookView.cfg takes the *)
(* two clocks as equal; MCBookView_skew.cfg lets the server's clock run    *)
(* 10 s ahead of the browser's.                                            *)
(***************************************************************************)
EXTENDS BookView

MCTimeStep == 1000
MCMaxClock == 40000
MCLatencies == {0, 1000}
MCNoSkew == 0
MCServerAhead == 10000
=============================================================================
