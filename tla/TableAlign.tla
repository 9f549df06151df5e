------------------------------ MODULE TableAlign ------------------------------
(* The alignment of table columns (package adf). A product knows no alignment *)
(* of a column, only a mark that aligns a block. Before a document is sent,   *)
(* every block in the cells of an aligned column gets the mark (LowerTable);  *)
(* on the way back the marks of a column decide what its alignment is, and    *)
(* the blocks that agree lose theirs (LiftTable). A node is a record of its   *)
(* kind k, attributes at, children c and marks; a table holds rows, a row     *)
(* cells, a cell blocks. Columns are counted from 1.                          *)
EXTENDS Integers, Sequences, FiniteSets, SequencesExt

\* Where the cells of a table stand: the first column of each, row by row. What
\* a cell of an earlier row still covers is counted down with every row.
AtLeastOne(v) == IF v < 1 THEN 1 ELSE v
CellSpan(cell) == AtLeastOne(cell.at.colspan)
RowSpans(row) ==
    [j \in DOMAIN row.c |-> [cols |-> CellSpan(row.c[j]), rows |-> AtLeastOne(row.c[j].at.rowspan)]]
Spans(table) == [i \in DOMAIN table.c |-> RowSpans(table.c[i])]

Furthest(a, b) == IF a < b THEN b ELSE a
FreeFrom(covered, col) ==
    Min({c \in col..Furthest(Len(covered) + 1, col) : c > Len(covered) \/ covered[c] = 0})
CellColumn(acc) == FreeFrom(acc.covered, acc.next)
PutCell(acc, span) ==
    LET end == CellColumn(acc) + span.cols - 1
    IN  [next |-> end + 1,
         covered |-> [c \in 1..Furthest(Len(acc.covered), end) |->
                         IF c \in CellColumn(acc)..end THEN span.rows ELSE acc.covered[c]]]
FilledRow(covered, spans) ==
    LET put[n \in 0..Len(spans)] ==
            IF n = 0 THEN [next |-> 1, covered |-> covered] ELSE PutCell(put[n - 1], spans[n])
    IN  put
RowColumns(covered, spans) ==
    LET put == FilledRow(covered, spans) IN [j \in DOMAIN spans |-> CellColumn(put[j - 1])]
NextRow(covered, spans) ==
    LET held == FilledRow(covered, spans)[Len(spans)].covered
    IN  [c \in DOMAIN held |-> IF held[c] > 0 THEN held[c] - 1 ELSE 0]
CoveredAfter(spans) ==
    LET covered[n \in 0..Len(spans)] == IF n = 0 THEN <<>> ELSE NextRow(covered[n - 1], spans[n])
    IN  covered
Columns(spans) ==
    LET covered == CoveredAfter(spans) IN [i \in DOMAIN spans |-> RowColumns(covered[i - 1], spans[i])]
TableCellColumns(table) == Columns(Spans(table))

\* The mark of a block: the first of its marks that aligns.
Alignable(block) == block.k \in {"paragraph", "heading"}
Aligns(mark) == mark.m = "alignment"
AlignmentMark(v) == [m |-> "alignment", v |-> v, w |-> ""]
AlignMarks(block) == {i \in DOMAIN block.marks : Aligns(block.marks[i])}
BlockAlignMark(block) == IF AlignMarks(block) = {} THEN "" ELSE block.marks[Min(AlignMarks(block))].v

\* The two alignments a mark can say; left is no mark.
MarkForAlign == [center |-> "center", right |-> "end"]
AlignForMark == [center |-> "center", end |-> "right"]
AlignMark(align) == IF align \in DOMAIN MarkForAlign THEN MarkForAlign[align] ELSE ""
GfmAlign(mark) == IF mark \in DOMAIN AlignForMark THEN AlignForMark[mark] ELSE ""
ColumnMark(align, col) == IF col \in DOMAIN align THEN AlignMark(align[col]) ELSE ""

\* Forms the code could have had instead; each breaks a property of a run.
FirstColumnMark(align, col, span) == ColumnMark(align, 1)

\* A cell that spans columns gets the mark they agree on.
SpannedAlignMark(align, col, span) ==
    IF \A c \in col..(col + span - 1) : ColumnMark(align, c) = ColumnMark(align, col)
    THEN ColumnMark(align, col) ELSE ""
MarkBlock(block, mark) ==
    IF mark # "" /\ Alignable(block) /\ BlockAlignMark(block) = ""
    THEN [block EXCEPT !.marks = Append(@, AlignmentMark(mark))] ELSE block
MarkCellBlocks(cell, mark) == [cell EXCEPT !.c = [b \in DOMAIN @ |-> MarkBlock(@[b], mark)]]
LowerRow(row, align, columns) ==
    [row EXCEPT !.c = [j \in DOMAIN @ |-> MarkCellBlocks(@[j], SpannedAlignMark(align, columns[j], CellSpan(@[j])))]]
LowerRows(rows, align, columns) == [i \in DOMAIN rows |-> LowerRow(rows[i], align, columns[i])]
LowerTable(table) ==
    IF table.at.align = <<>> THEN table
    ELSE [table EXCEPT !.at.align = <<>>, !.c = LowerRows(@, table.at.align, TableCellColumns(table))]

\* Back: every block of a column votes with its mark, also with none, unless it
\* is empty or its cell spans columns; the first one met wins a tie. A block is
\* found by its row, its cell and its place there.
BlocksOf(row, i) == UNION {{<<i, j, b>> : b \in DOMAIN row.c[j].c} : j \in DOMAIN row.c}
BlockPlaces(table) == UNION {BlocksOf(table.c[i], i) : i \in DOMAIN table.c}
CellIn(table, p) == table.c[p[1]].c[p[2]]
BlockIn(table, p) == CellIn(table, p).c[p[3]]
Before(p, q) == p[1] < q[1] \/ (p[1] = q[1] /\ (p[2] < q[2] \/ (p[2] = q[2] /\ p[3] < q[3])))

IsSingle(table, p) == CellSpan(CellIn(table, p)) = 1
Voters(table, columns, col) ==
    {p \in BlockPlaces(table) :
        columns[p[1]][p[2]] = col /\ IsSingle(table, p) /\ Alignable(BlockIn(table, p)) /\ BlockIn(table, p).c # <<>>}
ColumnVotes(table, columns, col) ==
    [p \in Voters(table, columns, col) |-> BlockAlignMark(BlockIn(table, p))]
Count(votes, mark) == Cardinality({p \in DOMAIN votes : votes[p] = mark})
Beats(votes, p, q) ==
    \/ Count(votes, votes[q]) < Count(votes, votes[p])
    \/ Count(votes, votes[q]) = Count(votes, votes[p]) /\ ~Before(q, p)
Winner(votes) ==
    IF DOMAIN votes = {} THEN "" ELSE votes[CHOOSE p \in DOMAIN votes : \A q \in DOMAIN votes : Beats(votes, p, q)]

SingleColumns(rows, columns) ==
    UNION {{columns[i][j] : j \in {k \in DOMAIN rows[i].c : CellSpan(rows[i].c[k]) = 1}} : i \in DOMAIN rows}
ColumnsVoted(table, columns) ==
    [col \in UNION {1..last : last \in SingleColumns(table.c, columns)} |->
        GfmAlign(Winner(ColumnVotes(table, columns, col)))]
LiftedColumns(table) == ColumnsVoted(table, TableCellColumns(table))

\* The blocks of a column that said what it won lose their marks.
InOrder(s, kept) ==
    [n \in 1..Cardinality(kept) |-> s[CHOOSE i \in kept : Cardinality({k \in kept : k <= i}) = n]]
UnmarkBlock(block, won) ==
    IF won # "" /\ Alignable(block) /\ BlockAlignMark(block) = won
    THEN [block EXCEPT !.marks = InOrder(@, DOMAIN @ \ AlignMarks(block))] ELSE block
UnmarkCellBlocks(cell, won) == [cell EXCEPT !.c = [b \in DOMAIN @ |-> UnmarkBlock(@[b], won)]]
UnmarkRow(row, align, columns) ==
    [row EXCEPT !.c = [j \in DOMAIN @ |-> IF CellSpan(@[j]) = 1 THEN UnmarkCellBlocks(@[j], ColumnMark(align, columns[j]))
                                          ELSE @[j]]]
UnmarkRows(rows, align, columns) == [i \in DOMAIN rows |-> UnmarkRow(rows[i], align, columns[i])]
WithColumns(table, align) ==
    IF table.at.align # <<>> \/ \A col \in DOMAIN align : align[col] = "" THEN table
    ELSE [table EXCEPT !.at.align = align, !.c = UnmarkRows(@, align, TableCellColumns(table))]
LiftTable(table) == WithColumns(table, LiftedColumns(table))
===============================================================================
