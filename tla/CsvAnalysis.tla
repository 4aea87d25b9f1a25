----------------------------- MODULE CsvAnalysis -----------------------------
(* The csv_analysis tool: one file under the configured root is opened, its   *)
(* header checked, its rows read up to a limit, and every column summarised.  *)
(* A cell is what the analysis makes of its text: nothing, an integer, ...    *)
EXTENDS Integers, FiniteSets, Sequences, FiniteSetsExt, SequencesExt

CONSTANTS Columns,      \* the columns of the file
          Cells,        \* kinds of cells, among those of CellKinds
          MaxRows,      \* max_rows_scanned
          PreviewRows,  \* rows of the preview
          MaxFileRows   \* bound: rows of the file

CellKinds == {"blank", "boolean", "integer", "number", "infinite", "text", "huge", "long", "absent"}

VARIABLES place,      \* idle, reading or done
          file,       \* history variable: the rows the reader has delivered
          values,     \* per column, the kinds of its non-blank cells in order
          missing,    \* per column, how many cells were blank
          preview,    \* rows kept for the preview
          scanned,    \* rows counted
          truncated,  \* rows were left in the file
          summaries,  \* per column, its inferred type and the cells its numbers are of
          outcome     \* none, ok, the reason of a refusal, or escaped

csvVars == <<place, file, values, missing, preview, scanned, truncated, summaries, outcome>>

Reasons == {"not_found", "file_too_large", "empty_file", "unknown_delimiter", "invalid_columns",
            "invalid_shape", "field_too_large", "invalid_file"}
Types == {"empty", "integer", "number", "boolean", "text", "mixed"}

TypeOK ==
  /\ place \in {"idle", "reading", "done"} /\ Len(file) <= MaxFileRows
  /\ values \in [Columns -> Seq(CellKinds)] /\ missing \in [Columns -> 0..MaxRows]
  /\ Len(preview) <= PreviewRows /\ scanned \in 0..MaxRows /\ truncated \in BOOLEAN
  /\ summaries = <<>> \/ \A c \in Columns : summaries[c].type \in Types
  /\ outcome \in Reasons \cup {"none", "ok", "escaped"}

Init ==
  /\ place = "idle" /\ file = <<>> /\ values = [c \in Columns |-> <<>>]
  /\ missing = [c \in Columns |-> 0] /\ preview = <<>> /\ scanned = 0
  /\ truncated = FALSE /\ summaries = <<>> /\ outcome = "none"

(* ------------------------------------------------------------------------ *)
(* The summary of a column.                                                   *)

\* A word is a boolean, an integer, a finite number, or text; infinities and
\* what is no number are text.
Kind(cell) == IF cell = "infinite" THEN "text" ELSE IF cell = "huge" THEN "integer" ELSE cell
Kinds(cells) == {Kind(cells[i]) : i \in DOMAIN cells}

InferredType(cells) ==
  CASE cells = <<>>                               -> "empty"
    [] Kinds(cells) = {"integer"}                 -> "integer"
    [] Kinds(cells) \in {{"number"}, {"integer", "number"}} -> "number"
    [] Kinds(cells) \in {{"boolean"}, {"text"}}   -> CHOOSE kind \in Kinds(cells) : TRUE
    [] OTHER                                      -> "mixed"

\* An integer too large for a float raises an OverflowError, which no handler names.
Overflows(cells) == "huge" \in Range(cells)

Summary(c) ==
  [type |-> InferredType(values[c]), nonNull |-> Len(values[c]), missing |-> missing[c],
   numbers |-> IF InferredType(values[c]) \in {"integer", "number"} THEN Len(values[c]) ELSE 0]

(* ------------------------------------------------------------------------ *)
(* The analysis.                                                              *)

Ends(result) == place' = "done" /\ outcome' = result

\* The path, the size, the sample and the header are looked at before a row is
\* read; duplicate names are those that are equal once trimmed.
Refuse(reason) ==
  /\ place = "idle"
  /\ reason \in {"not_found", "file_too_large", "empty_file", "unknown_delimiter",
                 "invalid_columns", "invalid_file"}
  /\ Ends(reason)
  /\ UNCHANGED <<file, values, missing, preview, scanned, truncated, summaries>>

\* An encoding that Python does not know raises a LookupError, which no handler names.
UnknownEncoding ==
  /\ place = "idle" /\ Ends("escaped")
  /\ UNCHANGED <<file, values, missing, preview, scanned, truncated, summaries>>

Open ==
  /\ place = "idle" /\ place' = "reading"
  /\ UNCHANGED <<file, values, missing, preview, scanned, truncated, summaries, outcome>>

Keep(row) ==
  /\ values' = [c \in Columns |-> IF row[c] \in {"blank", "absent"} THEN values[c]
                                  ELSE Append(values[c], row[c])]
  /\ missing' = [c \in Columns |-> IF row[c] \in {"blank", "absent"} THEN missing[c] + 1
                                   ELSE missing[c]]

\* Mutant: the limit is looked at after the row was counted.
RowThenLimit(row) ==
  /\ place = "reading" /\ ~truncated /\ Len(file) < MaxFileRows
  /\ file' = Append(file, row) /\ Keep(row) /\ scanned' = scanned + 1
  /\ preview' = IF Len(preview) < PreviewRows THEN Append(preview, row) ELSE preview
  /\ truncated' = (scanned + 1 >= MaxRows)
  /\ UNCHANGED <<place, summaries, outcome>>

\* The next row: the one after the limit only says that there is more.
Row(row) ==
  /\ place = "reading" /\ ~truncated /\ Len(file) < MaxFileRows
  /\ file' = Append(file, row)
  /\ IF scanned >= MaxRows
     THEN truncated' = TRUE /\ UNCHANGED <<place, values, missing, preview, scanned, outcome>>
     ELSE IF "long" \in Range(row)
     THEN Ends("field_too_large") /\ UNCHANGED <<values, missing, preview, scanned, truncated>>
     ELSE /\ Keep(row) /\ scanned' = scanned + 1
          /\ preview' = IF Len(preview) < PreviewRows THEN Append(preview, row) ELSE preview
          /\ UNCHANGED <<place, truncated, outcome>>
  /\ UNCHANGED summaries

\* A row with more cells than the header, or bytes the encoding does not know.
BadRow(reason) ==
  /\ place = "reading" /\ ~truncated /\ reason \in {"invalid_shape", "invalid_file"}
  /\ reason = "invalid_shape" => scanned < MaxRows
  /\ Ends(reason)
  /\ UNCHANGED <<file, values, missing, preview, scanned, truncated, summaries>>

Summarise ==
  /\ place = "reading"
  /\ IF \E c \in Columns : Overflows(values[c])
     THEN Ends("escaped") /\ UNCHANGED summaries
     ELSE Ends("ok") /\ summaries' = [c \in Columns |-> Summary(c)]
  /\ UNCHANGED <<file, values, missing, preview, scanned, truncated>>

Next ==
  \/ \E reason \in Reasons : Refuse(reason) \/ BadRow(reason)
  \/ Open \/ UnknownEncoding \/ Summarise
  \/ \E row \in [Columns -> Cells] : Row(row)

Spec == Init /\ [][Next]_csvVars

(* ------------------------------------------------------------------------ *)
(* Properties.                                                                *)

Blank(cell) == cell \in {"blank", "absent"}
Analysed == SubSeq(file, 1, Min({Len(file), MaxRows}))

\* An answer describes the first rows of the file, as many as the limit allows,
\* and says truncated exactly when there were more: every cell of them is either
\* missing or a value of its column, the preview is their beginning, and a column
\* has numbers only if each of its values is one.  The analysis is lost only to
\* an unknown encoding or to an integer no float holds.
SummaryAccounts ==
  /\ outcome = "escaped" => file = <<>> \/ \E i \in DOMAIN Analysed : "huge" \in Range(Analysed[i])
  /\ outcome = "ok" =>
    /\ truncated <=> Len(file) > MaxRows
    /\ scanned = Len(Analysed) /\ preview = SubSeq(file, 1, Min({Len(Analysed), PreviewRows}))
    /\ \A c \in Columns :
         /\ summaries[c].nonNull + summaries[c].missing = scanned
         /\ summaries[c].missing = Cardinality({i \in DOMAIN Analysed : Blank(Analysed[i][c])})
         /\ summaries[c].numbers > 0 =>
              \A i \in DOMAIN Analysed :
                Blank(Analysed[i][c]) \/ Analysed[i][c] \in {"integer", "number"}
=============================================================================
