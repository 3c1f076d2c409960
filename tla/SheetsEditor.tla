---------------------------- MODULE SheetsEditor ----------------------------
(***************************************************************************)
(* Encrypted tables (renderer/apps/LabSuiteSheets.jsx): the table that is  *)
(* open, the files of the app in the cloud, and the recovery copies in the *)
(* Documents folder.  Styles, sizes and the search are left out.           *)
(*                                                                         *)
(* Opening, saving and deleting are calls that answer later; what is open  *)
(* by then is replaced, whatever happened in between.                      *)
(***************************************************************************)
EXTENDS Naturals, Sequences, SequencesExt

CONSTANTS Names,        \* names a user gives to tables
          MaxRows, MaxColumns,
          MinRows,      \* DEFAULT_ROW_COUNT
          MaxEdits,     \* bound: edits
          Waits         \* the user does nothing while a call is under way

SheetsAssumption ==
  /\ Names # {} /\ MaxRows \in Nat \ {0} /\ MaxColumns \in Nat \ {0} /\ MaxEdits \in Nat
  /\ MinRows \in 1 .. MaxRows /\ Waits \in BOOLEAN

Texts   == 0 .. 1               \* 0: the empty cell
Columns == 1 .. MaxColumns      \* the ids of columns
NoFile  == "no file"
NoTable == [columns |-> <<>>, rows |-> <<>>]

VARIABLES
  tables,       \* the tables in the cloud, by file
  activeTable, activeFileName, dirty,
  call,         \* the call that is under way: what, its file, what it sends
  cutOff,       \* (ghost) the last deletion took the file and was cut off after that
  recovery,     \* the recovery copies
  edits

sheetsVars == <<tables, activeTable, activeFileName, dirty, call, cutOff, recovery, edits>>

IsTable(t) ==
  /\ Range(t.columns) \subseteq Columns /\ IsInjective(t.columns) /\ Len(t.rows) <= MaxRows
  /\ \A i \in DOMAIN t.rows : t.rows[i] \in [Range(t.columns) -> Texts]

NoCall == [kind |-> "none", file |-> NoFile, sent |-> NoTable]

TypeOK ==
  /\ DOMAIN tables \subseteq Names /\ \A f \in DOMAIN tables : IsTable(tables[f])
  /\ IsTable(activeTable) /\ activeFileName \in Names \cup {NoFile} /\ dirty \in BOOLEAN
  /\ call.kind \in {"none", "open", "save", "delete"} /\ IsTable(call.sent) /\ cutOff \in BOOLEAN
  /\ DOMAIN recovery \subseteq Names /\ edits \in 0 .. MaxEdits

Row(columns) == [c \in Range(columns) |-> 0]
CreateBlankTable == [columns |-> <<1>>, rows |-> [i \in 1 .. MinRows |-> Row(<<1>>)]]

Padded(columns, rows, n) ==
  rows \o [i \in 1 .. (IF Len(rows) < n THEN n - Len(rows) ELSE 0) |-> Row(columns)]

\* normalizeTableData, of what serializeTable wrote: too few rows are filled up.
NormalizeTableData(t) == [t EXCEPT !.rows = Padded(t.columns, t.rows, MinRows)]

Init ==
  /\ tables = <<>> /\ activeTable = NoTable /\ activeFileName = NoFile /\ dirty = FALSE
  /\ call = NoCall /\ cutOff = FALSE /\ recovery = <<>> /\ edits = 0

Free == Waits => call = NoCall
Open == activeTable # NoTable

-----------------------------------------------------------------------------
(* Edits. *)

Edit(t) ==
  /\ Open /\ Free /\ edits < MaxEdits
  /\ activeTable' = t /\ dirty' = TRUE /\ edits' = edits + 1
  /\ UNCHANGED <<tables, activeFileName, call, cutOff, recovery>>

UpdateCell(i, c, v) == Edit([activeTable EXCEPT !.rows[i][c] = v])

\* The button is off while a save is under way.
AddRow ==
  /\ call.kind # "save" /\ Len(activeTable.rows) < MaxRows
  /\ Edit([activeTable EXCEPT !.rows = Append(@, Row(activeTable.columns))])

DeleteRow(i) ==
  Len(activeTable.rows) > 1 /\ Edit([activeTable EXCEPT !.rows = RemoveAt(@, i)])

\* Mutant: the first row alone gets a cell.
WithColumnOfFirstRow(t, c) ==
  [columns |-> Append(t.columns, c),
   rows    |-> [i \in DOMAIN t.rows |->
                  IF i > 1 THEN t.rows[i]
                  ELSE [d \in Range(t.columns) \cup {c} |-> IF d = c THEN 0 ELSE t.rows[i][d]]]]

WithColumn(t, c) ==
  [columns |-> Append(t.columns, c),
   rows    |-> [i \in DOMAIN t.rows |->
                  [d \in Range(t.columns) \cup {c} |-> IF d = c THEN 0 ELSE t.rows[i][d]]]]

AddColumn(c) ==
  /\ call.kind # "save" /\ c \notin Range(activeTable.columns)
  /\ Edit(WithColumn(activeTable, c))

DeleteColumn(c) ==
  /\ Len(activeTable.columns) > 1
  /\ Edit([columns |-> SelectSeq(activeTable.columns, LAMBDA d : d # c),
           rows |-> [i \in DOMAIN activeTable.rows |->
                       [d \in Range(activeTable.columns) \ {c} |-> activeTable.rows[i][d]]]])

\* clearSelectedCells: all, a column, a row or a cell.
ClearSelectedCells(rows, columns) ==
  Edit([activeTable EXCEPT !.rows = [i \in DOMAIN @ |->
          [c \in DOMAIN @[i] |-> IF i \in rows /\ c \in columns THEN 0 ELSE @[i][c]]]])

\* sortByColumn keeps the order of equal rows.
SortByColumn(c, order) ==
  Edit([activeTable EXCEPT !.rows =
          FoldLeft(LAMBDA sorted, v : sorted \o SelectSeq(@, LAMBDA r : r[c] = v), <<>>, order)])

\* handleCellPaste of one line of two cells into a cell of row i: a column is added
\* where the line is longer than the table is wide.
Paste(i, k, c, line) ==
  /\ \/ k < Len(activeTable.columns) /\ c = activeTable.columns[k + 1]
     \/ k = Len(activeTable.columns) /\ c \notin Range(activeTable.columns)
  /\ LET wide == IF k = Len(activeTable.columns) THEN WithColumn(activeTable, c) ELSE activeTable
     IN  Edit([wide EXCEPT !.rows[i][activeTable.columns[k]] = line[1], !.rows[i][c] = line[2]])

EditTable ==
  \/ AddRow
  \/ \E i \in DOMAIN activeTable.rows : DeleteRow(i)
  \/ \E i \in DOMAIN activeTable.rows, c \in Range(activeTable.columns), v \in Texts :
       UpdateCell(i, c, v)
  \/ \E c \in Columns : AddColumn(c)
  \/ \E c \in Range(activeTable.columns) : DeleteColumn(c)
  \/ \E rows \in {{i} : i \in DOMAIN activeTable.rows} \cup {DOMAIN activeTable.rows},
        columns \in {{c} : c \in Range(activeTable.columns)} \cup {Range(activeTable.columns)} :
       ClearSelectedCells(rows, columns)
  \/ \E c \in Range(activeTable.columns), order \in {<<0, 1>>, <<1, 0>>} : SortByColumn(c, order)
  \/ \E i \in DOMAIN activeTable.rows, k \in DOMAIN activeTable.columns, c \in Columns,
        line \in [1 .. 2 -> Texts] : Paste(i, k, c, line)

-----------------------------------------------------------------------------
(* Files.  The user may discard unsaved changes. *)

Close ==
  /\ activeTable' = NoTable /\ activeFileName' = NoFile /\ dirty' = FALSE

CloseActiveTable ==
  Open /\ Free /\ Close /\ UNCHANGED <<tables, call, cutOff, recovery, edits>>

\* Also under the name of a file that exists.
ConfirmCreateTable(f) ==
  /\ ~Open /\ Free
  /\ activeTable' = CreateBlankTable /\ activeFileName' = f /\ dirty' = TRUE
  /\ UNCHANGED <<tables, call, cutOff, recovery, edits>>

OpenTable(f) ==
  /\ ~Open /\ call = NoCall /\ f \in DOMAIN tables
  /\ call' = [kind |-> "open", file |-> f, sent |-> NoTable]
  /\ UNCHANGED <<tables, activeTable, activeFileName, dirty, cutOff, recovery, edits>>

SaveTable ==
  /\ Open /\ activeFileName # NoFile /\ call = NoCall
  /\ call' = [kind |-> "save", file |-> activeFileName, sent |-> activeTable]
  /\ UNCHANGED <<tables, activeTable, activeFileName, dirty, cutOff, recovery, edits>>

DeleteActiveTable ==
  /\ Open /\ activeFileName # NoFile /\ call = NoCall
  /\ call' = [kind |-> "delete", file |-> activeFileName, sent |-> NoTable]
  /\ UNCHANGED <<tables, activeTable, activeFileName, dirty, cutOff, recovery, edits>>

Without(files, f) == [g \in DOMAIN files \ {f} |-> files[g]]

SentFile == [f \in DOMAIN tables \cup {call.file} |-> IF f = call.file THEN call.sent ELSE tables[f]]

Opened ==
  /\ call.kind = "open"
  /\ activeTable' = NormalizeTableData(tables[call.file])
  /\ activeFileName' = call.file /\ dirty' = FALSE /\ cutOff' = FALSE
  /\ UNCHANGED <<tables, recovery, edits>>

\* Mutant: the answer leaves the file in the cloud as it was.
SavedNothing ==
  /\ call.kind = "save"
  /\ activeTable' = NormalizeTableData(call.sent) /\ dirty' = FALSE
  /\ UNCHANGED <<tables, activeFileName, cutOff, recovery, edits>>

\* The upload is done: what was sent is shown, and counts as saved.
Saved ==
  /\ call.kind = "save"
  /\ tables' = SentFile /\ cutOff' = FALSE
  /\ activeTable' = NormalizeTableData(call.sent) /\ dirty' = FALSE
  /\ UNCHANGED <<activeFileName, recovery, edits>>

Deleted ==
  /\ call.kind = "delete" /\ call.file \in DOMAIN tables /\ Close
  /\ tables' = Without(tables, call.file) /\ recovery' = Without(recovery, call.file)
  /\ UNCHANGED <<cutOff, edits>>

Answer == (Opened \/ Saved \/ Deleted) /\ call' = NoCall

\* An error is shown.  A call that was cut off, after 12 or 20 s, may have had its effect.
Fails ==
  /\ call # NoCall /\ call' = NoCall
  /\ \/ UNCHANGED <<tables, cutOff>>
     \/ call.kind = "save" /\ tables' = SentFile /\ cutOff' = FALSE
     \/ call.kind = "delete" /\ tables' = Without(tables, call.file)
        /\ cutOff' = (cutOff \/ call.file \in DOMAIN tables)
  /\ UNCHANGED <<activeTable, activeFileName, dirty, recovery, edits>>

\* 500 ms after the last change of the table.
WriteLocalRecovery ==
  /\ Open /\ activeFileName # NoFile
  /\ recovery' = [f \in DOMAIN recovery \cup {activeFileName} |->
                    IF f = activeFileName THEN activeTable ELSE recovery[f]]
  /\ UNCHANGED <<tables, activeTable, activeFileName, dirty, call, cutOff, edits>>

Next ==
  \/ EditTable \/ CloseActiveTable \/ SaveTable \/ DeleteActiveTable
  \/ Answer \/ Fails \/ WriteLocalRecovery
  \/ \E f \in Names : ConfirmCreateTable(f) \/ OpenTable(f)

Spec == Init /\ [][Next]_sheetsVars

-----------------------------------------------------------------------------

\* A table that does not show as changed is the one in its file, over any sequence of
\* edits, saves that fail, files opened and files deleted, unless a deletion was cut
\* off after it had taken the file.  It relies on the user waiting for a call: the
\* answer of a save reverts the edits made since, and one that was left behind by
\* Back shows its table again, without a file.
CleanIsSaved ==
  Open /\ ~dirty /\ call = NoCall =>
    /\ activeFileName \in DOMAIN tables \/ cutOff
    /\ activeFileName \in DOMAIN tables => activeTable = NormalizeTableData(tables[activeFileName])
=============================================================================
