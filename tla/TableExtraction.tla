--------------------------- MODULE TableExtraction ---------------------------
(* From the pages of a filing to the line items of two years: the reading of *)
(* rows by DocumentParser (parser.py), and what ingest_pdf makes of them     *)
(* (tools/ingestion.py).                                                     *)
(*                                                                           *)
(* A row of a page is a line item, perhaps the number of a note, and its     *)
(* cells, each a number under a column of the header; a dash is no cell.     *)
(* Scale, currency and the spelling of labels and numbers are left out.      *)
EXTENDS Integers, Sequences, FiniteSets, SequencesExt

CONSTANTS
    Rows,     \* [item, note, cells, restated, known, traced]: what a page may hold
    Headers,  \* years of the columns, in order; << >> if no row names two of them
    Year,     \* the fiscal year asked for
    MaxRows   \* bound

\* A row without a note, and a cell that looks like a number and is none.
NoNote == -1
Garbled == -2

ASSUME TableAssumption ==
    /\ \A row \in Rows :
        /\ {"item", "note", "cells", "restated", "known", "traced"} \subseteq DOMAIN row
        /\ row.note \in Int
        /\ row.cells \in Seq((Nat \ {0}) \X Int)
        /\ {row.restated, row.known, row.traced} \subseteq BOOLEAN
    /\ Headers \subseteq Seq(Int)
    /\ Year \in Int

VARIABLES
    header,
    document,  \* the rows read so far
    extracted, \* what extract_values has found in them
    ingested   \* the answer of ingest_pdf; << >> before, Refused if it raised

tableVars == << header, document, extracted, ingested >>

Refused == << << >> >>

-----------------------------------------------------------------------------
(* DocumentParser.extract_values *)

Numbers(row) == (IF row.note # NoNote THEN << row.note >> ELSE << >>)
                \o [i \in DOMAIN row.cells |-> row.cells[i][2]]

\* As many years as there are numbers, if there are not more.
ColumnYears(raws) == SubSeq(header, 1, Min({Len(raws), Len(header)}))

\* The last numbers of the row, under the first years of the header; without a
\* header the first number, under the year asked for.
Candidates(row) ==
    LET raws == Numbers(row)
        years == ColumnYears(raws)
        found == IF header = << >> THEN SubSeq(raws, 1, Min({1, Len(raws)}))
                 ELSE SubSeq(raws, Len(raws) - Len(years) + 1, Len(raws))
    IN [i \in DOMAIN found |->
            [item |-> row.item,
             value |-> found[i],
             year |-> IF header = << >> THEN Year ELSE years[i],
             restated |-> row.restated,
             known |-> row.known,
             traced |-> row.traced]]

-----------------------------------------------------------------------------
(* ingest_pdf *)

\* The confidence of a candidate is that of its statement.
Rank(c) == (IF c.restated THEN 2 ELSE 0) + (IF c.known THEN 1 ELSE 0)

\* The candidates, by their places in the document.
Group(item, year) ==
    {i \in DOMAIN extracted : extracted[i].item = item /\ extracted[i].year = year}

TopRanked(group) ==
    {i \in group : \A j \in group : Rank(extracted[j]) <= Rank(extracted[i])}

Parsed(group) == {i \in TopRanked(group) : extracted[i].value # Garbled}
Usable(group) == {extracted[i].value : i \in Parsed(group)}

\* The first of the candidates with the value that is handed on.
Selected(group) == extracted[CHOOSE i \in Parsed(group) : \A j \in Parsed(group) : i <= j]

\* A mutant: a row of no known statement counts as verified.
Reconciled_Traced(c) == c.traced

\* The row is found on its page word by word, and belongs to a statement.
Reconciled(c) == c.traced /\ c.known

\* The year before is used only if it is the latest of the earlier years.
PriorYears ==
    LET earlier == {c.year : c \in ToSet(extracted)} \cap 0 .. Year - 1 IN
    IF earlier # {} /\ Max(earlier) = Year - 1 THEN {Year - 1} ELSE {}

Ingested ==
    LET keys == {k \in {<< c.item, c.year >> : c \in ToSet(extracted)} :
                    k[2] \in {Year} \cup PriorYears}
        usable == [k \in keys |-> Usable(Group(k[1], k[2]))]
        taken == {k \in keys : \E value \in usable[k] : usable[k] = {value}}
        issues == {k \in keys : \E value, other \in usable[k] : value # other}
        values == [k \in taken |-> Selected(Group(k[1], k[2]))]
    IN IF ~ \E k \in taken : k[2] = Year THEN Refused
       ELSE << [values |-> values,
                verified |-> {k \in taken : Reconciled(values[k])},
                issues |-> issues,
                reviewRequired |-> issues # {} \/ \E k \in taken : ~Reconciled(values[k])] >>

-----------------------------------------------------------------------------

TableInit ==
    /\ header \in Headers
    /\ document = << >>
    /\ extracted = << >>
    /\ ingested = << >>

\* The cells of a row are in the columns of its table.
ReadRow(row) ==
    /\ ingested = << >>
    /\ Len(document) < MaxRows
    /\ \A i \in DOMAIN row.cells : row.cells[i][1] <= Max({1, Len(header)})
    /\ document' = Append(document, row)
    /\ extracted' = extracted \o Candidates(row)
    /\ UNCHANGED << header, ingested >>

Ingest ==
    /\ ingested = << >>
    /\ ingested' = Ingested
    /\ UNCHANGED << header, document, extracted >>

TableNext == Ingest \/ \E row \in Rows : ReadRow(row)

TableSpec == TableInit /\ [][TableNext]_tableVars

-----------------------------------------------------------------------------
(* Properties *)

Answered == ingested \notin {<< >>, Refused}
Taken == DOMAIN ingested[1].values

(***************************************************************************)
(* A filing that is handed on without a review has nothing to review: every*)
(* value is on a row that was found again in a known statement, no other   *)
(* such row that is marked restated (if this one is not), or marked as     *)
(* this one is, gives another value for the line item and the year.        *)
(***************************************************************************)
ReviewIsAsked ==
    Answered /\ ~ingested[1].reviewRequired =>
        \A k \in Taken :
            \E c \in ToSet(extracted) :
                /\ << c.item, c.year >> = k /\ c = ingested[1].values[k]
                /\ c.known /\ c.traced
                /\ ~ \E d \in ToSet(extracted) :
                        /\ << d.item, d.year >> = k /\ d.known
                        /\ d.restated \/ ~c.restated
                        /\ d.value \notin {c.value, Garbled}

(***************************************************************************)
(* What the comment at parser.py:88 says, and the test                     *)
(* test_document_parser_uses_local_year_columns_not_note_number: the       *)
(* number of a note is metadata, and the numbers of a row are aligned with *)
(* the years above them.  Asked of what is handed on as verified.          *)
(***************************************************************************)
ColumnsKeepTheirYear ==
    Answered =>
        \A k \in ingested[1].verified :
            \E i \in DOMAIN document : \E j \in DOMAIN header :
                /\ document[i].item = k[1]
                /\ header[j] = k[2]
                /\ << j, ingested[1].values[k].value >> \in ToSet(document[i].cells)
=============================================================================
