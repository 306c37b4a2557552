------------------------------ MODULE CsvExport ------------------------------
(***************************************************************************)
(* The CSV export of the execution blotter (utils/csv.ts, called from      *)
(* ExecutionBlotter handleExport): escapeCsvField quotes a field that      *)
(* contains a comma, a quote, LF or CR and doubles its quotes; downloadCsv *)
(* joins the escaped fields of a line with commas and the lines with LF.   *)
(* A field is a sequence of one-character strings, so that the escaping is *)
(* modelled by what it does; the cells of the export are any such fields.  *)
(*                                                                         *)
(* The blotter's log grows one row at a time (AddRow) and the user exports *)
(* it (ExportCsv); the reference decoder is RFC 4180's reading of a file.  *)
(* The Blob, the object URL and the download link are left out.            *)
(***************************************************************************)
EXTENDS Naturals, Sequences, SequencesExt

CONSTANTS
    Fields,     \* the cell values a row may hold
    Headers,    \* the header row
    NCols,      \* the number of columns of every row
    MaxRows     \* the number of rows the log reaches

Q == "\""
LF == "\n"
CR == "\r"

ASSUME CsvAssumption ==
    /\ NCols \in Nat \ {0}
    /\ MaxRows \in Nat
    /\ Headers \in [1..NCols -> Fields]

Row == [1..NCols -> Fields]

VARIABLES
    table,      \* the rows the blotter shows, one per execution
    exported    \* the last export: its text and the rows it was made from

vars == <<table, exported>>

NoExport == [text |-> <<>>, rows |-> <<>>]

(* Mutant: the test for LF is left out of the condition.                  *)
EscapeNoNewline(str) ==
    IF \E i \in 1..Len(str) : str[i] \in {",", Q, CR}
      THEN <<Q>> \o FlattenSeq([i \in 1..Len(str) |->
                      IF str[i] = Q THEN <<Q, Q>> ELSE <<str[i]>>]) \o <<Q>>
      ELSE str

(* escapeCsvField: String(value ?? ''), then quote and double the quotes  *)
(* when the field contains a comma, a quote, LF or CR.                     *)
escapeCsvField(str) ==
    IF \E i \in 1..Len(str) : str[i] \in {",", Q, LF, CR}
      THEN <<Q>> \o FlattenSeq([i \in 1..Len(str) |->
                      IF str[i] = Q THEN <<Q, Q>> ELSE <<str[i]>>]) \o <<Q>>
      ELSE str

(* Array.prototype.join(sep) of a sequence of strings.                     *)
JoinWith(parts, sep) ==
    IF parts = <<>> THEN <<>>
    ELSE FoldLeft(LAMBDA acc, p : acc \o sep \o p, Head(parts), Tail(parts))

EscapeLine(row) == JoinWith([i \in DOMAIN row |-> escapeCsvField(row[i])], <<",">>)

(* The text downloadCsv puts in the Blob: the header line, LF, the data    *)
(* lines joined with LF.                                                   *)
downloadCsv(headers, rows) ==
    EscapeLine(headers) \o <<LF>> \o
        JoinWith([r \in DOMAIN rows |-> EscapeLine(rows[r])], <<LF>>)

Init ==
    /\ table = <<>>
    /\ exported = NoExport

(* A new execution appears in the blotter as one row.                      *)
AddRow(row) ==
    /\ Len(table) < MaxRows
    /\ table' = Append(table, row)
    /\ UNCHANGED exported

(* The Export CSV button, shown only while the log is not empty.           *)
ExportCsv ==
    /\ table # <<>>
    /\ exported' = [text |-> downloadCsv(Headers, table), rows |-> table]
    /\ UNCHANGED table

Next ==
    \/ \E row \in Row : AddRow(row)
    \/ ExportCsv

Spec == Init /\ [][Next]_vars

-----------------------------------------------------------------------------
(* The reference decoder: RFC 4180 read character by character.  st is    *)
(* "start" (a field begins), "plain" (inside an unquoted field), "quoted"  *)
(* (inside quotes) or "closing" (a quote seen inside quotes: the field    *)
(* ends or the quote was doubled).  Malformed input yields "error".        *)
RECURSIVE ParseFrom(_, _, _, _, _, _)
ParseFrom(s, i, st, fld, rec, recs) ==
    IF i > Len(s)
      THEN IF st = "quoted" THEN "error" ELSE Append(recs, Append(rec, fld))
      ELSE LET c == s[i] IN
        CASE st = "start" /\ c = Q ->
               ParseFrom(s, i + 1, "quoted", fld, rec, recs)
          [] st \in {"start", "plain", "closing"} /\ c = "," ->
               ParseFrom(s, i + 1, "start", <<>>, Append(rec, fld), recs)
          [] st \in {"start", "plain", "closing"} /\ c = LF ->
               ParseFrom(s, i + 1, "start", <<>>, <<>>, Append(recs, Append(rec, fld)))
          [] st \in {"start", "plain"} /\ c # Q ->
               ParseFrom(s, i + 1, "plain", Append(fld, c), rec, recs)
          [] st = "quoted" /\ c = Q ->
               ParseFrom(s, i + 1, "closing", fld, rec, recs)
          [] st = "quoted" ->
               ParseFrom(s, i + 1, "quoted", Append(fld, c), rec, recs)
          [] st = "closing" /\ c = Q ->
               ParseFrom(s, i + 1, "quoted", Append(fld, Q), rec, recs)
          [] OTHER -> "error"

ParseCsv(s) == ParseFrom(s, 1, "start", <<>>, <<>>, <<>>)

(* Spec 8: decoding an export by standard CSV rules recovers the header    *)
(* and every cell of every row, whatever commas, quotes and line breaks    *)
(* the cells hold.  Broken by an escape that misses one of the characters  *)
(* or forgets to double a quote, or by a join that loses a separator.      *)
ExportRoundTrips ==
    exported # NoExport => ParseCsv(exported.text) = <<Headers>> \o exported.rows
=============================================================================
