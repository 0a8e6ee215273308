----------------------------- MODULE EsxcliTable -----------------------------
(***************************************************************************)
(* What FormatAndSave (pkg/vsphere_api/esxcli_worker.go) makes of an       *)
(* answer of the esxcli executor.  An answer has                           *)
(*                                                                         *)
(*   table   its hint says that it is a table                              *)
(*   fields  the fields that hint names                                    *)
(*   rows    its rows, each a function from some keys to values            *)
(*                                                                         *)
(* Keys and fields are numbers in the byte order of their names.  That a   *)
(* value is a list of strings, joined by "AND", is left out.               *)
(***************************************************************************)
EXTENDS Naturals, Sequences, SequencesExt

CONSTANTS
  Blank,  \* the cell of a key the row does not have
  KeyOf   \* the key whose values a field is the title of

\* Only with a field to write is a table written as CSV.
IsCsv(a) == a.table /\ a.fields # <<>>

Header(a) == SortSeq(a.fields, <)

\* The columns are the keys of the first row; later rows add none.
Columns(a) == SetToSortSeq(DOMAIN Head(a.rows), <)

\* The faulty program that leaves out a cell the row does not have.
LineWithoutBlanks(a, row) ==
  LET here == SelectSeq(Columns(a), LAMBDA k : k \in DOMAIN row)
  IN  [i \in DOMAIN here |-> row[here[i]]]

Line(a, row) ==
  [i \in DOMAIN Columns(a) |->
     IF Columns(a)[i] \in DOMAIN row THEN row[Columns(a)[i]] ELSE Blank]

\* The lines of the file: a header and the cells, or the rows as JSON.
Content(a) ==
  IF IsCsv(a)
    THEN <<Header(a)>> \o [r \in DOMAIN a.rows |-> Line(a, a.rows[r])]
    ELSE a.rows

-----------------------------------------------------------------------------

\* What the two independent sorts need to agree on: the fields name the keys
\* of the first row, and in the same order.
Aligned(a) ==
  LET titles == [i \in DOMAIN Header(a) |-> KeyOf[Header(a)[i]]]
  IN  titles = Columns(a)

=============================================================================
