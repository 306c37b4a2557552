---------------------------- MODULE MCCsvExport ----------------------------
(***************************************************************************)
(* Model-checking instance of CsvExport: two columns, up to two rows, and  *)
(* cells drawn from every string of at most one character over            *)
(* {a , " LF CR} and the two-character strings that mix a quote or a line *)
(* break with other characters.                                            *)
(***************************************************************************)
EXTENDS CsvExport

MCFields ==
    {<<>>, <<"a">>, <<",">>, <<Q>>, <<LF>>, <<CR>>,
     <<Q, Q>>, <<"a", Q>>, <<Q, "a">>, <<LF, ",">>, <<CR, LF>>}

MCHeaders == <<<<"a">>, <<"a">>>>
=============================================================================
