------------------------------ MODULE TableGrid ------------------------------
(***************************************************************************)
(* The tables of aipkg/rag/split/util.go.  A table is a sequence of rows,  *)
(* a row a sequence of cells [text, rows, cols] in the order of the HTML,  *)
(* where rows and cols are the spans of the cell; it is laid out on a grid *)
(* and read off as rows of Markdown or of JSON.  NoText is no text.         *)
(***************************************************************************)
EXTENDS Integers, Sequences, SequencesExt, FiniteSetsExt

CONSTANT NoText

\* Every <tr> that has a cell.
RowsOf(table) == SelectSeq(table, LAMBDA row : row # <<>>)

\* The widest row, counting what its cells span.
WidthOf(rows) ==
    Max({FoldLeft(LAMBDA n, cell : n + cell.cols, 0, rows[r]) : r \in DOMAIN rows})

(***************************************************************************)
(* A cell goes to the first column of its row that no cell of an earlier   *)
(* row reaches down to; its text is in the first of the columns it spans.  *)
(***************************************************************************)
Place(s, r, cell, height, width) ==
    LET free == {c \in s.col..width : <<r, c>> \notin s.taken}
        col == Min(free)
        below == (r + 1)..Min({r + cell.rows - 1, height})
        across == col..Min({col + cell.cols - 1, width})
    IN IF free = {} THEN s
       ELSE [text |-> [s.text EXCEPT ![r, col] = cell.text],
             taken |-> s.taken \union (below \X across),
             col |-> col + cell.cols]

FillGrid(rows, width) ==
    LET height == Len(rows)
        PlaceRow(s, r) == FoldLeft(LAMBDA u, cell : Place(u, r, cell, height, width),
                                   [s EXCEPT !.col = 1], rows[r])
        blank == [text |-> [p \in (1..height) \X (1..width) |-> NoText], taken |-> {}, col |-> 1]
    IN FoldLeft(PlaceRow, blank, [r \in 1..height |-> r]).text

GridRows(grid, height, width) ==
    SelectSeq([r \in 1..height |-> [c \in 1..width |-> grid[r, c]]],
              LAMBDA row : \E c \in 1..width : row[c] # NoText)

\* tableToMarkdown: the first row is the header, rows without a text are left out.
MarkdownRows(table) ==
    LET rows == RowsOf(table)
        width == WidthOf(rows)
        grid == FillGrid(rows, width)
    IN IF rows = <<>> \/ width = 0 THEN <<>>
       ELSE <<[c \in 1..width |-> grid[1, c]]>>
              \o Tail(GridRows([grid EXCEPT ![1, 1] = 0], Len(rows), width))

\* tableToJSONLines: the texts of the first row are the keys of the others; a
\* row has one value for each of them.
JSONRows(table) ==
    LET rows == RowsOf(table)
        width == Len(rows[1])
    IN IF Len(rows) < 2 THEN <<>>
       ELSE GridRows(FillGrid(Tail(rows), width), Len(rows) - 1, width)
=============================================================================
