-------------------------- MODULE SummaryLogParser --------------------------
(***************************************************************************)
(* The reading of a summary-log workbook                                   *)
(* (adapters/parsers/summary-logs/exceljs-parser.js).                      *)
(*                                                                         *)
(* The rows of its worksheets are streamed once, in order.  A cell holding *)
(* a data marker opens a section whose headers are the cells to its right; *)
(* the rows below are collected, for every open section at once, until a   *)
(* row with nothing in the columns of the section.  A cell holding a       *)
(* metadata marker names the next cell that is read.  Nothing looks back:  *)
(* what has been streamed is gone, and `worksheets` remembers it only for  *)
(* the properties.                                                         *)
(*                                                                         *)
(* Cells are tokens.  Null is a cell with a style and no value, or none;   *)
(* Blank one with content and no text: an empty string, a formula without  *)
(* a result, an error.  Workbooks are read at validation and again, from   *)
(* the same file, when the log is submitted; both readings leave the rows  *)
(* of the template out (data-syntax.js, sync-from-summary-log.js).         *)
(***************************************************************************)
EXTENDS Integers, Sequences, FiniteSets, SequencesExt, FiniteSetsExt

CONSTANTS
  Templates,        \* sets of rows: a workbook is made of those of one
  SectionNames,     \* what a data marker opens; the marker is the name
  MetaNames,        \* what a metadata marker names
  Placeholders,     \* [header -> what counts as unfilled below it]
  RowIdHeader,      \* the header of the row ids of every table
  RequiredHeaders,  \* the headers every table must have
  Tables,           \* the sections that have a schema
  RejectedValues,   \* the values no schema accepts
  MaxEmptyRows,     \* MAX_CONSECUTIVE_EMPTY_ROWS
  MaxEmptyColumns,  \* MAX_CONSECUTIVE_EMPTY_COLUMNS
  MaxRowsPerSheet,  \* limits of PARSE_DEFAULTS
  MaxColumnsPerSheet,
  MaxWorksheets,
  MaxRows           \* bound on the rows of a workbook

Null == "null"
Blank == ""
SkipColumn == "skip column"
Example == "Example"
Description == "Row ID"

None == "none"

ASSUME LimitsAssumption ==
  {MaxEmptyRows, MaxEmptyColumns, MaxRowsPerSheet, MaxColumnsPerSheet, MaxWorksheets}
    \subseteq Nat \ {0}

VARIABLES
  template,         \* the rows the workbook is made of
  worksheets,       \* the rows streamed so far, of every worksheet so far
  sections,         \* the open sections (activeCollections)
  metadataContext,  \* the metadata marker whose value is awaited
  found,            \* the result: [data, meta]
  emptyRows,        \* consecutiveEmptyRows; MaxEmptyRows is phantomRowsTripped
  reading           \* how far the parse is

vars == <<template, worksheets, sections, metadataContext, found, emptyRows, reading>>

-----------------------------------------------------------------------------
(* Cells and rows.                                                         *)

IsCellEmpty(cell) == cell \in {Null, Blank}

RowIsStructurallyEmpty(row) == \A i \in DOMAIN row : row[i] = Null

\* Without the phantom columns: what follows a run of empty cells is not read,
\* nor is the last cell of the run.
CollectCellsFromRow(row) ==
  LET EndsRun(i) == i >= MaxEmptyColumns
                    /\ \A j \in (i - MaxEmptyColumns + 1) .. i : IsCellEmpty(row[j])
      ends == {i \in DOMAIN row : EndsRun(i)}
  IN IF ends = {} THEN row ELSE SubSeq(row, 1, Min(ends) - 1)

RowHasContent(row) ==
  \E i \in DOMAIN CollectCellsFromRow(row) : ~IsCellEmpty(row[i])

NormaliseCellValue(cell, header) ==
  IF IsCellEmpty(cell) \/ (header \in DOMAIN Placeholders /\ cell \in Placeholders[header])
  THEN Null ELSE cell

-----------------------------------------------------------------------------
(* One cell, for what is being read.  `at` is [sheet, row, column].        *)

\* Variant: an empty cell is passed over and the marker keeps waiting.
ProcessCellForMetadata(state, cell, at) ==
  IF state.context = None
  THEN IF cell \notin MetaNames THEN state
       ELSE IF cell \in DOMAIN state.meta THEN [state EXCEPT !.malformed = TRUE]
       ELSE [state EXCEPT !.context = cell]
  ELSE IF cell \in MetaNames THEN [state EXCEPT !.malformed = TRUE]
       ELSE [state EXCEPT !.context = None,
                          !.meta = [m \in DOMAIN @ \cup {state.context} |->
                                      IF m = state.context THEN [value |-> cell, at |-> at]
                                      ELSE @[m]]]

ProcessDataMarker(state, cell, at) ==
  IF cell \notin SectionNames THEN state
  ELSE [state EXCEPT !.sections =
          Append(@, [name |-> cell, inHeaders |-> TRUE, headers |-> <<>>, rows |-> <<>>,
                     currentRow |-> <<>>, complete |-> FALSE,
                     at |-> [at EXCEPT !.column = @ + 1]])]

ProcessHeaderCell(section, cell) ==
  IF IsCellEmpty(cell) THEN [section EXCEPT !.inHeaders = FALSE]
  ELSE [section EXCEPT !.headers = Append(@, IF cell = SkipColumn THEN Null ELSE cell)]

UpdateCollectionWithCell(section, cell, column) ==
  LET index == column - section.at.column + 1
  IN IF index >= 1 /\ section.inHeaders THEN ProcessHeaderCell(section, cell)
     ELSE IF index \in DOMAIN section.headers /\ ~section.inHeaders
     THEN [section EXCEPT !.currentRow =
             Append(@, NormaliseCellValue(cell, section.headers[index]))]
     ELSE section

ProcessCell(state, cell, at) ==
  LET marked == ProcessDataMarker(ProcessCellForMetadata(state, cell, at), cell, at)
  IN [marked EXCEPT !.sections =
        [i \in DOMAIN @ |-> UpdateCollectionWithCell(@[i], cell, at.column)]]

-----------------------------------------------------------------------------
(* The end of a row, and of a section.                                     *)

ShouldSkipRow(headers, values) ==
  \E i \in DOMAIN values : headers[i] = Null /\ values[i] = Example

FinalizeRowForCollection(section, row) ==
  LET values == section.currentRow
      next == [section EXCEPT !.currentRow = <<>>]
  IN IF section.inHeaders THEN [next EXCEPT !.inHeaders = FALSE]
     ELSE IF values = <<>> THEN section
     ELSE IF \A i \in DOMAIN values : values[i] = Null THEN [section EXCEPT !.complete = TRUE]
     ELSE IF ShouldSkipRow(section.headers, values) THEN next
     ELSE [next EXCEPT !.rows = Append(@, [row |-> row, values |-> values])]

\* Variant: a namesake replaces the section already in the result.
\* emitCollectionsToResult, in the order the sections were opened.
EmitCollections(state, emitted) ==
  LET Emit(sofar, section) ==
        IF section.name \in DOMAIN sofar.data THEN [sofar EXCEPT !.malformed = TRUE]
        ELSE [sofar EXCEPT !.data =
                [s \in DOMAIN @ \cup {section.name} |->
                   IF s = section.name
                   THEN [headers |-> section.headers, rows |-> section.rows, at |-> section.at]
                   ELSE @[s]]]
  IN FoldLeft(Emit, state, emitted)

ProcessRow(state, cells, sheet, row) ==
  LET Complete(section) == section.complete
      Incomplete(section) == ~section.complete
      Fresh(section) == [section EXCEPT !.currentRow = <<>>]
      begun == [state EXCEPT !.sections = [i \in DOMAIN @ |-> Fresh(@[i])]]
      Cell(sofar, column) ==
        ProcessCell(sofar, cells[column], [sheet |-> sheet, row |-> row, column |-> column])
      read == FoldLeft(Cell, begun, [column \in 1 .. Len(cells) |-> column])
      ended == [i \in DOMAIN read.sections |-> FinalizeRowForCollection(read.sections[i], row)]
  IN [EmitCollections(read, SelectSeq(ended, Complete)) EXCEPT
        !.sections = SelectSeq(ended, Incomplete)]

-----------------------------------------------------------------------------
State == [sections |-> sections, context |-> metadataContext,
          data |-> found.data, meta |-> found.meta, malformed |-> FALSE]

\* An error ends the parse; nothing of what was read is returned.
Becomes(state) ==
  IF state.malformed
  THEN reading' = "malformed" /\ UNCHANGED <<sections, metadataContext, found>>
  ELSE /\ sections' = state.sections
       /\ metadataContext' = state.context
       /\ found' = [data |-> state.data, meta |-> state.meta]
       /\ UNCHANGED reading

ParserInit ==
  /\ template \in Templates
  /\ worksheets = <<<<>>>>
  /\ sections = <<>>
  /\ metadataContext = None
  /\ found = [data |-> <<>>, meta |-> <<>>]
  /\ emptyRows = 0
  /\ reading = "sheet"

RowsStreamed == FoldLeft(LAMBDA n, sheet : n + Len(sheet), 0, worksheets)

Stream(row) ==
  worksheets' = [worksheets EXCEPT ![Len(worksheets)] = Append(@, row)]

CurrentRow == Len(Last(worksheets)) + 1

\* Variant: a row without values is read where a section is open.
\* What processRowAgainstPhantomState counts instead of reading.
CountsAsEmpty(row) ==
  RowIsStructurallyEmpty(row) \/ (sections = <<>> /\ ~RowHasContent(row))

\* A row is streamed (streamWorksheet, processRowAgainstPhantomState).
StreamRow(row) ==
  /\ reading = "sheet"
  /\ RowsStreamed < MaxRows
  /\ Stream(row)
  /\ UNCHANGED template
  /\ IF CurrentRow > MaxRowsPerSheet
     THEN reading' = "refused" /\ UNCHANGED <<sections, metadataContext, found, emptyRows>>
     ELSE IF emptyRows = MaxEmptyRows
     THEN UNCHANGED <<sections, metadataContext, found, emptyRows, reading>>
     ELSE IF CountsAsEmpty(row)
     THEN emptyRows' = emptyRows + 1 /\ UNCHANGED <<sections, metadataContext, found, reading>>
     ELSE /\ emptyRows' = 0
          /\ IF \E i \in DOMAIN row : i > MaxColumnsPerSheet /\ row[i] # Null
             THEN reading' = "refused" /\ UNCHANGED <<sections, metadataContext, found>>
             ELSE Becomes(ProcessRow(State, CollectCellsFromRow(row),
                                     Len(worksheets), CurrentRow))

\* Variant: a section that no empty row ended is dropped with its worksheet.
EndWorksheetDroppingOpen ==
  /\ reading = "sheet"
  /\ sections' = <<>>
  /\ reading' = "between"
  /\ UNCHANGED <<template, worksheets, metadataContext, found, emptyRows>>

\* The stream of a worksheet ends: the sections still open are emitted.
EndWorksheet ==
  /\ reading = "sheet"
  /\ LET emitted == [EmitCollections(State, sections) EXCEPT !.sections = <<>>]
     IN IF emitted.malformed THEN Becomes(emitted)
        ELSE /\ sections' = <<>>
             /\ found' = [data |-> emitted.data, meta |-> emitted.meta]
             /\ reading' = "between"
             /\ UNCHANGED metadataContext
  /\ UNCHANGED <<template, worksheets, emptyRows>>

\* The next worksheet of the workbook; their number was checked on loading.
NextWorksheet ==
  /\ reading = "between"
  /\ Len(worksheets) < MaxWorksheets
  /\ worksheets' = Append(worksheets, <<>>)
  /\ emptyRows' = 0
  /\ reading' = "sheet"
  /\ UNCHANGED <<template, sections, metadataContext, found>>

\* After the last worksheet the result is returned.
ReturnResult ==
  /\ reading = "between"
  /\ reading' = "parsed"
  /\ UNCHANGED <<template, worksheets, sections, metadataContext, found, emptyRows>>

ParserNext ==
  \/ \E row \in template : StreamRow(row)
  \/ EndWorksheet
  \/ NextWorksheet
  \/ ReturnResult

-----------------------------------------------------------------------------
(* What the two readers of a parsed table make of its rows.                *)

\* Headers that are not null, by the last column that has them; markers are
\* not headers of data.
HeaderToIndex(headers) ==
  LET names == ToSet(headers) \ ({Null} \cup SectionNames \cup MetaNames)
  IN [h \in names |-> Max({i \in DOMAIN headers : headers[i] = h})]

\* A cell past the end of a short row is undefined, which reads as null.
Value(values, index) == IF index \in DOMAIN values THEN values[index] ELSE Null

RowObject(headers, values) ==
  LET index == HeaderToIndex(headers)
  IN [h \in DOMAIN index |-> Value(values, index[h])]

IsTemplateRow(rowId) == rowId \in {Null, Description}

\* validateHeaders.
MissingHeaders(headers) == RequiredHeaders \ DOMAIN HeaderToIndex(headers)

\* validateRows: the rows that are classified.
ValidatedRows(table) ==
  LET Kept(object) == ~IsTemplateRow(object[RowIdHeader])
  IN SelectSeq([i \in DOMAIN table.rows |-> RowObject(table.headers, table.rows[i].values)], Kept)

\* validateTable: [fatal, rows], the rows only of a table without fatal issues.
ValidateTable(table) ==
  IF MissingHeaders(table.headers) # {} THEN [fatal |-> TRUE, rows |-> <<>>]
  ELSE LET rows == ValidatedRows(table)
           fatal == \E i \in DOMAIN rows : \E h \in DOMAIN rows[i] : rows[i][h] \in RejectedValues
       IN [fatal |-> fatal, rows |-> IF fatal THEN <<>> ELSE rows]

\* A log with a table of no schema, or a fatal issue, is not accepted.
ValidateData(data) ==
  [accepted |-> \A name \in DOMAIN data : name \in Tables /\ ~ValidateTable(data[name]).fatal,
   tables   |-> [name \in DOMAIN data \cap Tables |-> ValidateTable(data[name]).rows]]

\* Variant: only rows without an id are left out, the descriptions are stored.
PrepareRowsWithDescriptions(table) ==
  LET index == HeaderToIndex(table.headers)
      Kept(row) == RowIdHeader \in DOMAIN index => Value(row.values, index[RowIdHeader]) # Null
      kept == SelectSeq(table.rows, Kept)
  IN [i \in DOMAIN kept |-> RowObject(table.headers, kept[i].values)]

\* prepareRows, of the submission.
PrepareRows(table) ==
  LET index == HeaderToIndex(table.headers)
      Kept(row) ==
        RowIdHeader \in DOMAIN index => ~IsTemplateRow(Value(row.values, index[RowIdHeader]))
      kept == SelectSeq(table.rows, Kept)
  IN [i \in DOMAIN kept |-> RowObject(table.headers, kept[i].values)]

\* prepareRowsForTransformation; tables without a schema are not transformed.
PrepareData(data) == [name \in DOMAIN data \cap Tables |-> PrepareRows(data[name])]

-----------------------------------------------------------------------------
(* The same reading, by the places of the cells.                           *)

CellsAt(sheet, row) == CollectCellsFromRow(worksheets[sheet][row])

\* From a place to its right, to the first empty cell or the end of the row.
LaidOutHeaders(at) ==
  LET cells == CellsAt(at.sheet, at.row)
      columns == {c \in at.column .. Len(cells) :
                    \A d \in at.column .. c : ~IsCellEmpty(cells[d])}
  IN [i \in 1 .. Cardinality(columns) |->
        LET cell == cells[at.column + i - 1] IN IF cell = SkipColumn THEN Null ELSE cell]

\* What a row has below the headers laid out there.
Below(at, headers, row) ==
  LET cells == CellsAt(at.sheet, row)
      columns == {i \in DOMAIN headers : at.column + i - 1 <= Len(cells)}
  IN [i \in 1 .. Cardinality(columns) |->
        NormaliseCellValue(cells[at.column + i - 1], headers[i])]

\* Rows with no cell of content, so many that the rest is not read.
PhantomRun(sheet, first, last, Empty(_)) ==
  \E r \in (first + MaxEmptyRows - 1) .. last :
    \A q \in (r - MaxEmptyRows + 1) .. r : Empty(worksheets[sheet][q])

\* Down to the first row with content and none of it below the headers.
RowsUnder(at, headers) ==
  LET sheet == worksheets[at.sheet]
      Ends(r) == /\ ~RowIsStructurallyEmpty(sheet[r])
                 /\ LET values == Below(at, headers, r)
                    IN values # <<>> /\ \A i \in DOMAIN values : values[i] = Null
  IN {r \in (at.row + 1) .. Len(sheet) :
        /\ \A q \in (at.row + 1) .. r : ~Ends(q)
        /\ ~PhantomRun(at.sheet, at.row + 1, r, RowIsStructurallyEmpty)
        /\ ~RowIsStructurallyEmpty(sheet[r])
        /\ LET values == Below(at, headers, r)
           IN values # <<>> /\ ~ShouldSkipRow(headers, values)}

-----------------------------------------------------------------------------
(* Properties.                                                             *)

(* A section returned by the parse has the headers that stand to the right *)
(* of its marker and every row below them, in order, up to the first that  *)
(* has content and none in its columns: whatever other sections were open  *)
(* beside it, were opened or ended meanwhile, and whatever metadata stands *)
(* between, the one pass over the cells (processRow) loses and invents no  *)
(* row.                                                                    *)
SectionsReadAsLaidOut ==
  \A name \in DOMAIN found.data :
    LET section == found.data[name]
        rows == {section.rows[i].row : i \in DOMAIN section.rows}
    IN /\ section.headers = LaidOutHeaders(section.at)
       /\ rows = RowsUnder(section.at, section.headers)
       /\ \A i, j \in DOMAIN section.rows : i < j => section.rows[i].row < section.rows[j].row
       /\ \A i \in DOMAIN section.rows :
            section.rows[i].values = Below(section.at, section.headers, section.rows[i].row)

(* When a worksheet has been read, every data marker of it that was not    *)
(* beyond the phantom limits is a section of the result, at its own place: *)
(* none is left open at the end, shadowed by a namesake or swallowed by a  *)
(* section it stands in.                                                   *)
NoSectionLost ==
  reading \in {"between", "parsed"} =>
    \A sheet \in DOMAIN worksheets : \A r \in DOMAIN worksheets[sheet] :
      LET Empty(row) == ~RowHasContent(row)
          cells == CellsAt(sheet, r)
      IN ~PhantomRun(sheet, 1, r - 1, Empty) =>
           \A c \in DOMAIN cells : cells[c] \in SectionNames =>
             /\ cells[c] \in DOMAIN found.data
             /\ found.data[cells[c]].at = [sheet |-> sheet, row |-> r, column |-> c + 1]

(* A metadata value is the cell after its marker: the next of the row, or, *)
(* after a marker that ends its row, the first of a later row with nothing *)
(* but empty rows, and rows beyond a phantom run, between.                 *)
MetadataFollowsMarker ==
  \A name \in DOMAIN found.meta :
    LET at == found.meta[name].at
        cells == CellsAt(at.sheet, at.row)
        Before(sheet, r) == sheet < at.sheet \/ (sheet = at.sheet /\ r < at.row)
        IsBare(row) == ~RowHasContent(row)
        EndsRow(sheet, r) == LET read == CellsAt(sheet, r) IN read # <<>> /\ Last(read) = name
    IN /\ found.meta[name].value = cells[at.column]
       /\ at.column > 1 => cells[at.column - 1] = name
       /\ at.column = 1 =>
            \E sheet \in DOMAIN worksheets : \E r \in DOMAIN worksheets[sheet] :
              /\ Before(sheet, r) /\ EndsRow(sheet, r)
              /\ \A s \in DOMAIN worksheets : \A q \in DOMAIN worksheets[s] :
                   /\ Before(s, q)
                   /\ s > sheet \/ (s = sheet /\ q > r)
                   => ~RowHasContent(worksheets[s][q]) \/ PhantomRun(s, 1, q - 1, IsBare)

(* The submission stores the rows that were validated: of an accepted log, *)
(* the rows prepared for every table (sync-from-summary-log.js) are those  *)
(* the validation classified (data-syntax.js), which the preview, the      *)
(* continuity check and the reports were shown.                            *)
SubmittedRowsAreTheValidated ==
  LET validated == ValidateData(found.data)
  IN validated.accepted => PrepareData(found.data) = validated.tables
=============================================================================
