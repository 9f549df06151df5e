--------------------------- MODULE TableAlignProofs ---------------------------
(* Theorems about the alignment of table columns. A table that an author      *)
(* aligned comes back aligned; a table of a product loses no mark to being    *)
(* pulled and pushed, and is pushed again as it was; its cells stand side by  *)
(* side and clear of the ones that span down to them. They hold for any       *)
(* number of rows, cells and blocks, any spans of cells and any marks.        *)
EXTENDS TableAlign, Numbers, SequenceTheorems, FiniteSetTheorems

(* Tables, as the decoder and the encoder build them. *)
IsSequence(s) == Len(s) \in Nat /\ s = [i \in 1..Len(s) |-> s[i]]
IsNode(n) == n = [k |-> n.k, at |-> n.at, c |-> n.c, marks |-> n.marks]
IsBlock(block) == IsNode(block) /\ IsSequence(block.marks)
IsCell(cell) == IsNode(cell) /\ IsSequence(cell.c) /\ \A b \in DOMAIN cell.c : IsBlock(cell.c[b])
IsRow(row) == IsNode(row) /\ IsSequence(row.c) /\ \A j \in DOMAIN row.c : IsCell(row.c[j])
IsTable(table) ==
    /\ IsNode(table) /\ IsSequence(table.c) /\ \A i \in DOMAIN table.c : IsRow(table.c[i])
    /\ table.at = [key \in DOMAIN table.at |-> table.at[key]] /\ "align" \in DOMAIN table.at

(* Two tables that differ at most in their alignment and the marks of their blocks. *)
SameBlock(a, b) == a.k = b.k /\ a.at = b.at /\ a.c = b.c
SameCell(a, b) ==
    /\ a.k = b.k /\ a.at = b.at /\ a.marks = b.marks /\ DOMAIN a.c = DOMAIN b.c
    /\ \A i \in DOMAIN a.c : SameBlock(a.c[i], b.c[i])
SameRow(a, b) ==
    /\ a.k = b.k /\ a.at = b.at /\ a.marks = b.marks /\ DOMAIN a.c = DOMAIN b.c
    /\ \A j \in DOMAIN a.c : SameCell(a.c[j], b.c[j])
SameTable(a, b) ==
    /\ a.k = b.k /\ a.marks = b.marks /\ DOMAIN a.c = DOMAIN b.c
    /\ \A i \in DOMAIN a.c : SameRow(a.c[i], b.c[i])

------------------------------------------------------------------------------
(* Sequences. *)

\* A sequence changed member by member is one of the same length.
LEMMA Mapped ==
    ASSUME NEW s, IsSequence(s), NEW t, DOMAIN t = DOMAIN s, t = [i \in DOMAIN s |-> t[i]]
    PROVE  IsSequence(t) /\ Len(t) = Len(s)
<1>1. Len(s) \in Nat /\ DOMAIN s = 1..Len(s)
  BY DEF IsSequence
<1>2. t \in Seq({t[i] : i \in 1..Len(s)})
  BY <1>1
<1>3. Len(t) = Len(s)
  BY <1>1, <1>2
<1>4. QED
  BY <1>1, <1>3 DEF IsSequence

\* One more member.
LEMMA Appended ==
    ASSUME NEW s, IsSequence(s), NEW e
    PROVE  /\ IsSequence(Append(s, e)) /\ DOMAIN Append(s, e) = 1..(Len(s) + 1)
           /\ Append(s, e)[Len(s) + 1] = e /\ \A i \in 1..Len(s) : Append(s, e)[i] = s[i]
           /\ DOMAIN s = 1..Len(s) /\ Len(s) \in Nat
<1> DEFINE S == {s[i] : i \in 1..Len(s)} \cup {e}
<1>1. Len(s) \in Nat /\ DOMAIN s = 1..Len(s) /\ s \in [1..Len(s) -> S]
  BY DEF IsSequence
<1>2. s \in Seq(S) /\ e \in S
  BY <1>1
<1> HIDE DEF S
<1>3. /\ Append(s, e) \in Seq(S) /\ Len(Append(s, e)) = Len(s) + 1
      /\ \A i \in 1..Len(s) : Append(s, e)[i] = s[i] /\ Append(s, e)[Len(s) + 1] = e
  BY <1>2, AppendProperties
<1>4. DOMAIN Append(s, e) = 1..(Len(s) + 1) /\ Append(s, e) = [i \in 1..(Len(s) + 1) |-> Append(s, e)[i]]
  <2>1. Append(s, e) \in [1..(Len(s) + 1) -> S]
    BY <1>1, <1>3, LenProperties
  <2>2. QED
    BY <2>1
<1>5. Append(s, e)[Len(s) + 1] = e
  BY <1>2, AppendProperties
<1>6. QED
  BY <1>1, <1>3, <1>4, <1>5 DEF IsSequence

\* The members at some places, in order: all of them are at those places.
LEMMA InOrderFrom ==
    ASSUME NEW s, IsSequence(s), NEW kept \in SUBSET (DOMAIN s)
    PROVE  /\ IsSequence(InOrder(s, kept))
           /\ \A n \in DOMAIN InOrder(s, kept) : \E i \in kept : InOrder(s, kept)[n] = s[i]
<1> DEFINE upTo(i) == {k \in kept : k <= i}
           N == Cardinality(kept)
           place(n) == CHOOSE i \in kept : Cardinality(upTo(i)) = n
<1>1. Len(s) \in Nat /\ kept \in SUBSET (1..Len(s)) /\ IsFiniteSet(kept) /\ N \in Nat
  <2>1. Len(s) \in Nat /\ kept \in SUBSET (1..Len(s))
    BY DEF IsSequence
  <2>2. IsFiniteSet(1..Len(s))
    BY <2>1, FS_Interval
  <2>3. QED
    BY <2>1, <2>2, FS_Subset, FS_CardinalityType
<1>2. \A i \in Nat : IsFiniteSet(upTo(i)) /\ Cardinality(upTo(i)) \in Nat
  BY <1>1, FS_Subset, FS_CardinalityType
<1>3. ASSUME NEW n \in 1..N
      PROVE  \E i \in kept : Cardinality(upTo(i)) = n
  <2> DEFINE enough == {i \in Nat : n <= Cardinality(upTo(i))}
             first == Min(enough)
  <2>1. upTo(Len(s)) = kept
    BY <1>1
  <2>2. Len(s) \in enough
    BY <1>1, <2>1
  <2>3. first \in enough /\ \A i \in enough : first <= i
    BY <2>2, Least
  <2> HIDE DEF first
  <2>4. upTo(0) = {}
    BY <1>1
  <2>5. first # 0
    BY <2>3, <2>4, FS_EmptySet
  <2>6. first - 1 \in Nat /\ first \in Nat /\ first - 1 \notin enough
    BY <2>3, <2>5
  <2>7. Cardinality(upTo(first - 1)) < n /\ n <= Cardinality(upTo(first))
    BY <1>2, <2>3, <2>6
  <2>8. first \in kept
    <3>1. CASE first \notin kept
      <4>1. upTo(first) = upTo(first - 1)
        BY <1>1, <2>6, <3>1
      <4>2. QED
        BY <1>2, <2>6, <2>7, <4>1
    <3>2. QED
      BY <3>1
  <2>9. upTo(first) = upTo(first - 1) \cup {first} /\ first \notin upTo(first - 1)
    BY <1>1, <2>6, <2>8
  <2>10. Cardinality(upTo(first)) = Cardinality(upTo(first - 1)) + 1
    BY <1>2, <2>6, <2>9, FS_AddElement
  <2>11. Cardinality(upTo(first)) = n
    BY <1>2, <2>6, <2>7, <2>10
  <2>12. QED
    BY <2>8, <2>11
<1>4. \A n \in 1..N : place(n) \in kept
  BY <1>3
<1>5. InOrder(s, kept) = [n \in 1..N |-> s[place(n)]]
  BY DEF InOrder
<1> HIDE DEF place, N
<1>6. DOMAIN InOrder(s, kept) = 1..N /\ \A n \in 1..N : InOrder(s, kept)[n] = s[place(n)]
  BY <1>5
<1>7. IsSequence(InOrder(s, kept))
  <2>1. InOrder(s, kept) \in Seq({s[i] : i \in kept})
    BY <1>1, <1>4, <1>5
  <2>2. Len(InOrder(s, kept)) = N
    BY <1>1, <1>6, <2>1
  <2>3. QED
    BY <1>1, <1>5, <1>6, <2>2 DEF IsSequence
<1>8. QED
  BY <1>4, <1>6, <1>7

\* The members up to one, in order, are the sequence up to it.
LEMMA InOrderFront ==
    ASSUME NEW s, IsSequence(s), NEW e
    PROVE  InOrder(Append(s, e), 1..Len(s)) = s
<1> DEFINE more == Append(s, e)
<1>1. Len(s) \in Nat /\ s = [i \in 1..Len(s) |-> s[i]] /\ \A i \in 1..Len(s) : more[i] = s[i]
  BY Appended DEF IsSequence
<1> HIDE DEF more
<1>0. ASSUME NEW n \in Nat
      PROVE  Cardinality(1..n) = n
  <2>1. Cardinality(1..n) = IF 1 > n THEN 0 ELSE n - 1 + 1
    BY FS_Interval
  <2>2. QED
    BY <2>1
<1>2. ASSUME NEW i \in 1..Len(s)
      PROVE  Cardinality({k \in 1..Len(s) : k <= i}) = i
  <2> DEFINE upTo == {k \in 1..Len(s) : k <= i}
  <2>1. upTo = 1..i /\ i \in Nat
    BY <1>1
  <2> HIDE DEF upTo
  <2>2. Cardinality(upTo) = i
    BY <1>0, <2>1
  <2>3. QED
    BY <2>2 DEF upTo
<1>3. Cardinality(1..Len(s)) = Len(s)
  BY <1>0, <1>1
<1>4. ASSUME NEW n \in 1..Len(s)
      PROVE  (CHOOSE i \in 1..Len(s) : Cardinality({k \in 1..Len(s) : k <= i}) = n) = n
  BY <1>2
<1>5. InOrder(more, 1..Len(s)) = [n \in 1..Len(s) |-> s[n]]
  BY <1>1, <1>3, <1>4 DEF InOrder
<1>6. QED
  BY <1>1, <1>5 DEF more

------------------------------------------------------------------------------
(* Blocks. *)

\* Where the marks that align a block stand, and that they are marks of it.
LEMMA AlignMarksOf ==
    ASSUME NEW block, IsBlock(block)
    PROVE  /\ AlignMarks(block) \in SUBSET (1..Len(block.marks)) /\ DOMAIN block.marks = 1..Len(block.marks)
           /\ AlignMarks(block) \in SUBSET Nat /\ Len(block.marks) \in Nat
  BY DEF IsBlock, IsSequence, AlignMarks

Says(block, mark, new) ==
    IF mark # "" /\ Alignable(block) /\ AlignMarks(block) = {} THEN BlockAlignMark(new) = mark
    ELSE BlockAlignMark(new) = BlockAlignMark(block)

\* A block that aligns itself keeps its mark, and any other one aligns as it is told.
LEMMA MarkedBlock ==
    ASSUME NEW block, IsBlock(block), NEW mark, NEW new, new = MarkBlock(block, mark)
    PROVE  /\ IsBlock(new) /\ SameBlock(block, new)
           /\ BlockAlignMark(block) # "" \/ mark = "" \/ ~Alignable(block) => new = block
           /\ ~(BlockAlignMark(block) # "" \/ mark = "" \/ ~Alignable(block)) =>
                 new.marks = Append(block.marks, AlignmentMark(mark))
           /\ Says(block, mark, new)
<1> DEFINE stays == BlockAlignMark(block) # "" \/ mark = "" \/ ~Alignable(block)
           more == Append(block.marks, AlignmentMark(mark))
           last == Len(block.marks) + 1
<1>1. CASE stays
  <2>1. new = block
    BY <1>1 DEF MarkBlock
  <2>2. ~(mark # "" /\ Alignable(block) /\ AlignMarks(block) = {})
    BY <1>1 DEF BlockAlignMark
  <2>3. QED
    BY <1>1, <2>1, <2>2 DEF SameBlock, Says
<1>2. CASE ~stays
  <2>1. new = [block EXCEPT !.marks = more]
    BY <1>2 DEF MarkBlock
  <2>2. /\ IsSequence(more) /\ DOMAIN more = 1..last /\ more[last] = AlignmentMark(mark)
        /\ \A i \in 1..Len(block.marks) : more[i] = block.marks[i]
        /\ DOMAIN block.marks = 1..Len(block.marks) /\ Len(block.marks) \in Nat
    BY Appended DEF IsBlock
  <2> HIDE DEF more
  <2>3. new = [k |-> block.k, at |-> block.at, c |-> block.c, marks |-> more]
    BY <2>1 DEF IsBlock, IsNode
  <2>4. IsBlock(new) /\ SameBlock(block, new) /\ new.marks = more
    BY <2>2, <2>3 DEF IsBlock, IsNode, SameBlock
  <2>5. Aligns(AlignmentMark(mark)) /\ AlignmentMark(mark).v = mark
    BY DEF Aligns, AlignmentMark
  <2>6. AlignMarks(new) = AlignMarks(block) \cup {last}
    BY <2>2, <2>4, <2>5 DEF AlignMarks
  <2>7. CASE AlignMarks(block) = {}
    <3>1. AlignMarks(new) = {last} /\ Min({last}) = last
      BY <2>6, <2>7 DEF Min
    <3>2. BlockAlignMark(new) = mark
      BY <2>2, <2>4, <2>5, <3>1 DEF BlockAlignMark
    <3>3. QED
      BY <1>2, <2>4, <2>7, <3>2 DEF more, Says
  <2>8. CASE AlignMarks(block) # {}
    <3>1. AlignMarks(block) \in SUBSET (1..Len(block.marks)) /\ AlignMarks(block) \in SUBSET Nat
      BY AlignMarksOf
    <3>2. /\ Min(AlignMarks(block)) \in AlignMarks(block)
          /\ \A i \in AlignMarks(block) : Min(AlignMarks(block)) <= i
      BY <2>8, <3>1, Least
    <3>3. AlignMarks(new) \in SUBSET Nat /\ AlignMarks(new) # {}
      BY <2>2, <2>6, <3>1
    <3>4. Min(AlignMarks(new)) \in AlignMarks(new) /\ \A i \in AlignMarks(new) : Min(AlignMarks(new)) <= i
      BY <3>3, Least
    <3>5. Min(AlignMarks(new)) = Min(AlignMarks(block))
      <4> DEFINE first == Min(AlignMarks(new))
                 old == Min(AlignMarks(block))
      <4>1. old \in 1..Len(block.marks) /\ first \in Nat /\ old \in Nat
        BY <3>1, <3>2, <3>3, <3>4
      <4>2. first <= old /\ (first \in AlignMarks(block) => old <= first) /\ first \in AlignMarks(block) \cup {last}
        BY <2>6, <3>2, <3>4
      <4> HIDE DEF first, old
      <4>3. first = old
        BY <2>2, <4>1, <4>2
      <4>4. QED
        BY <4>3 DEF first, old
    <3>6. BlockAlignMark(new) = BlockAlignMark(block)
      BY <2>2, <2>4, <2>6, <2>8, <3>1, <3>2, <3>3, <3>5 DEF BlockAlignMark
    <3>7. QED
      BY <1>2, <2>4, <2>8, <3>6 DEF more, Says
  <2>9. QED
    BY <2>7, <2>8
<1>3. QED
  BY <1>1, <1>2

\* Marking changes nothing of a block but its marks.
LEMMA MarkedStays ==
    ASSUME NEW block, IsBlock(block), NEW mark, NEW new, new = MarkBlock(block, mark)
    PROVE  IsBlock(new) /\ SameBlock(block, new)
  BY MarkedBlock

LEMMA MarkedSays ==
    ASSUME NEW block, IsBlock(block), NEW mark, NEW new, new = MarkBlock(block, mark)
    PROVE  \/ BlockAlignMark(new) = BlockAlignMark(block)
           \/ mark # "" /\ BlockAlignMark(new) = mark
<1>1. Says(block, mark, new)
  BY MarkedBlock
<1>2. QED
  BY <1>1 DEF Says

\* A block that says what its column won says nothing after that, and others stay as they are.
LEMMA UnmarkedBlock ==
    ASSUME NEW block, IsBlock(block), NEW won, NEW new, new = UnmarkBlock(block, won)
    PROVE  /\ IsBlock(new) /\ SameBlock(block, new)
           /\ ~(won # "" /\ Alignable(block) /\ BlockAlignMark(block) = won) => new = block
           /\ won # "" /\ Alignable(block) /\ BlockAlignMark(block) = won =>
                 AlignMarks(new) = {} /\ BlockAlignMark(new) = ""
                 /\ new.marks = InOrder(block.marks, DOMAIN block.marks \ AlignMarks(block))
<1>1. CASE ~(won # "" /\ Alignable(block) /\ BlockAlignMark(block) = won)
  BY <1>1 DEF UnmarkBlock, SameBlock
<1>2. CASE won # "" /\ Alignable(block) /\ BlockAlignMark(block) = won
  <2> DEFINE kept == DOMAIN block.marks \ AlignMarks(block)
             left == InOrder(block.marks, kept)
  <2>1. new = [block EXCEPT !.marks = left]
    BY <1>2 DEF UnmarkBlock
  <2>2. IsSequence(left) /\ \A n \in DOMAIN left : \E i \in kept : left[n] = block.marks[i]
    BY InOrderFrom DEF IsBlock
  <2>3. \A i \in kept : ~Aligns(block.marks[i])
    BY DEF AlignMarks
  <2> HIDE DEF left, kept
  <2>4. new = [k |-> block.k, at |-> block.at, c |-> block.c, marks |-> left]
    BY <2>1 DEF IsBlock, IsNode
  <2>5. IsBlock(new) /\ SameBlock(block, new) /\ new.marks = left
    BY <2>2, <2>4 DEF IsBlock, IsNode, SameBlock
  <2>6. AlignMarks(new) = {}
    BY <2>2, <2>3, <2>5 DEF AlignMarks
  <2>7. BlockAlignMark(new) = ""
    BY <2>6 DEF BlockAlignMark
  <2>8. QED
    BY <1>2, <2>5, <2>6, <2>7 DEF left, kept
<1>3. QED
  BY <1>1, <1>2

------------------------------------------------------------------------------
(* Tables. *)

\* A place of a block is that of a cell, of a row.
LEMMA PlacesOf ==
    ASSUME NEW table, NEW p \in BlockPlaces(table)
    PROVE  /\ p = <<p[1], p[2], p[3]>> /\ p[1] \in DOMAIN table.c /\ p[2] \in DOMAIN table.c[p[1]].c
           /\ p[3] \in DOMAIN CellIn(table, p).c
           /\ IsTable(table) => IsBlock(BlockIn(table, p)) /\ p \in Nat \X Nat \X Nat
<1>0. PICK i \in DOMAIN table.c : p \in BlocksOf(table.c[i], i)
  BY DEF BlockPlaces
<1>1. PICK j \in DOMAIN table.c[i].c : \E b \in DOMAIN table.c[i].c[j].c : p = <<i, j, b>>
  BY <1>0 DEF BlocksOf
<1>2. PICK b \in DOMAIN table.c[i].c[j].c : p = <<i, j, b>>
  BY <1>1
<1>3. p[1] = i /\ p[2] = j /\ p[3] = b
  BY <1>2
<1>4. ASSUME IsTable(table)
      PROVE  IsBlock(BlockIn(table, p)) /\ p \in Nat \X Nat \X Nat
  <2>1. IsSequence(table.c) /\ IsRow(table.c[i])
    BY <1>4 DEF IsTable
  <2>2. IsSequence(table.c[i].c) /\ IsCell(table.c[i].c[j])
    BY <2>1 DEF IsRow
  <2>3. IsSequence(table.c[i].c[j].c) /\ IsBlock(table.c[i].c[j].c[b])
    BY <2>2 DEF IsCell
  <2>4. i \in Nat /\ j \in Nat /\ b \in Nat
    BY <2>1, <2>2, <2>3 DEF IsSequence
  <2>5. QED
    BY <1>2, <1>3, <2>3, <2>4 DEF BlockIn, CellIn
<1>5. QED
  BY <1>2, <1>3, <1>4 DEF CellIn

\* Tables that differ in marks alone have their cells in the same columns and the same voters.
LEMMA SameColumns ==
    ASSUME NEW a, NEW b, SameTable(a, b)
    PROVE  /\ TableCellColumns(b) = TableCellColumns(a) /\ BlockPlaces(b) = BlockPlaces(a)
           /\ \A columns : SingleColumns(b.c, columns) = SingleColumns(a.c, columns)
           /\ \A columns, col : Voters(b, columns, col) = Voters(a, columns, col)
           /\ \A p \in BlockPlaces(a) : /\ CellSpan(CellIn(b, p)) = CellSpan(CellIn(a, p))
                                        /\ SameBlock(BlockIn(a, p), BlockIn(b, p))
<1>1. DOMAIN a.c = DOMAIN b.c /\ \A i \in DOMAIN a.c : SameRow(a.c[i], b.c[i])
  BY DEF SameTable
<1>2. \A i \in DOMAIN a.c : DOMAIN a.c[i].c = DOMAIN b.c[i].c
  BY <1>1 DEF SameRow
<1>3. \A i \in DOMAIN a.c : \A j \in DOMAIN a.c[i].c : SameCell(a.c[i].c[j], b.c[i].c[j])
  BY <1>1 DEF SameRow
<1>4. \A i \in DOMAIN a.c : \A j \in DOMAIN a.c[i].c :
        DOMAIN a.c[i].c[j].c = DOMAIN b.c[i].c[j].c /\ a.c[i].c[j].at = b.c[i].c[j].at
  BY <1>3 DEF SameCell
<1>5. \A i \in DOMAIN a.c : RowSpans(b.c[i]) = RowSpans(a.c[i])
  BY <1>2, <1>4 DEF RowSpans, CellSpan
<1>6. Spans(b) = Spans(a)
  BY <1>1, <1>5 DEF Spans
<1>7. TableCellColumns(b) = TableCellColumns(a)
  BY <1>6 DEF TableCellColumns
<1>8. \A i \in DOMAIN a.c : BlocksOf(b.c[i], i) = BlocksOf(a.c[i], i)
  BY <1>2, <1>4 DEF BlocksOf
<1>9. BlockPlaces(b) = BlockPlaces(a)
  BY <1>1, <1>8 DEF BlockPlaces
<1>10. \A columns : SingleColumns(b.c, columns) = SingleColumns(a.c, columns)
  BY <1>1, <1>2, <1>4 DEF SingleColumns, CellSpan
<1>11. ASSUME NEW p \in BlockPlaces(a)
       PROVE  CellSpan(CellIn(b, p)) = CellSpan(CellIn(a, p)) /\ SameBlock(BlockIn(a, p), BlockIn(b, p))
  <2>1. p[1] \in DOMAIN a.c /\ p[2] \in DOMAIN a.c[p[1]].c /\ p[3] \in DOMAIN CellIn(a, p).c
    BY PlacesOf
  <2>2. SameCell(CellIn(a, p), CellIn(b, p))
    BY <1>3, <2>1 DEF CellIn
  <2>3. QED
    BY <2>1, <2>2 DEF SameCell, CellSpan, BlockIn
<1>12. \A columns, col : Voters(b, columns, col) = Voters(a, columns, col)
  BY <1>9, <1>11 DEF Voters, IsSingle, SameBlock, Alignable
<1>13. QED
  BY <1>7, <1>9, <1>10, <1>11, <1>12

\* Changing the blocks of a cell, the cells of a row, the rows of a table.
LEMMA CellOfBlocks ==
    ASSUME NEW cell, IsCell(cell), NEW blocks, DOMAIN blocks = DOMAIN cell.c, blocks = [b \in DOMAIN cell.c |-> blocks[b]],
           \A b \in DOMAIN cell.c : IsBlock(blocks[b]) /\ SameBlock(cell.c[b], blocks[b]),
           NEW new, new = [cell EXCEPT !.c = blocks]
    PROVE  IsCell(new) /\ SameCell(cell, new) /\ new.c = blocks
<1>1. new = [k |-> cell.k, at |-> cell.at, c |-> blocks, marks |-> cell.marks]
  BY DEF IsCell, IsNode
<1>2. IsSequence(blocks)
  BY Mapped DEF IsCell
<1>3. QED
  BY <1>1, <1>2 DEF IsCell, IsNode, SameCell

LEMMA RowOfCells ==
    ASSUME NEW row, IsRow(row), NEW cells, DOMAIN cells = DOMAIN row.c, cells = [j \in DOMAIN row.c |-> cells[j]],
           \A j \in DOMAIN row.c : IsCell(cells[j]) /\ SameCell(row.c[j], cells[j]),
           NEW new, new = [row EXCEPT !.c = cells]
    PROVE  IsRow(new) /\ SameRow(row, new) /\ new.c = cells
<1>1. new = [k |-> row.k, at |-> row.at, c |-> cells, marks |-> row.marks]
  BY DEF IsRow, IsNode
<1>2. IsSequence(cells)
  BY Mapped DEF IsRow
<1>3. QED
  BY <1>1, <1>2 DEF IsRow, IsNode, SameRow

WithAlign(at, align) == [at EXCEPT !.align = align]
Rewritten(table, align, rows, new) == new = [table EXCEPT !.at.align = align, !.c = rows]
LEMMA TableOfRows ==
    ASSUME NEW table, IsTable(table), NEW rows, DOMAIN rows = DOMAIN table.c, rows = [i \in DOMAIN table.c |-> rows[i]],
           \A i \in DOMAIN table.c : IsRow(rows[i]) /\ SameRow(table.c[i], rows[i]),
           NEW align, NEW new, Rewritten(table, align, rows, new)
    PROVE  /\ IsTable(new) /\ SameTable(table, new) /\ new.c = rows
           /\ new.at = WithAlign(table.at, align) /\ new.at.align = align
<1> DEFINE at == WithAlign(table.at, align)
<1>1. new = [k |-> table.k, at |-> at, c |-> rows, marks |-> table.marks]
  BY DEF IsTable, IsNode, Rewritten, WithAlign
<1>2. IsSequence(rows)
  BY Mapped DEF IsTable
<1>3. at = [key \in DOMAIN at |-> at[key]] /\ DOMAIN at = DOMAIN table.at /\ "align" \in DOMAIN at /\ at.align = align
  BY DEF IsTable, WithAlign
<1> HIDE DEF at
<1>4. new.k = table.k /\ new.at = at /\ new.c = rows /\ new.marks = table.marks /\ IsNode(new)
  <2>1. new.k = table.k /\ new.at = at /\ new.c = rows /\ new.marks = table.marks
    BY <1>1
  <2>2. QED
    BY <1>1, <2>1 DEF IsNode
<1>5. IsTable(new)
  BY <1>2, <1>3, <1>4 DEF IsTable
<1>6. SameTable(table, new)
  BY <1>4 DEF SameTable
<1>7. QED
  BY <1>3, <1>4, <1>5, <1>6 DEF at

\* What lowering makes of each cell, row and table.
LEMMA MarkedCell ==
    ASSUME NEW cell, IsCell(cell), NEW mark, NEW new, new = MarkCellBlocks(cell, mark)
    PROVE  IsCell(new) /\ SameCell(cell, new) /\ \A b \in DOMAIN cell.c : new.c[b] = MarkBlock(cell.c[b], mark)
<1> DEFINE blocks == [b \in DOMAIN cell.c |-> MarkBlock(cell.c[b], mark)]
<1>1. new = [cell EXCEPT !.c = blocks]
  BY DEF MarkCellBlocks
<1>2. DOMAIN blocks = DOMAIN cell.c /\ blocks = [b \in DOMAIN cell.c |-> blocks[b]]
  OBVIOUS
<1>3. \A b \in DOMAIN cell.c : blocks[b] = MarkBlock(cell.c[b], mark)
  OBVIOUS
<1> HIDE DEF blocks
<1>4. ASSUME NEW b \in DOMAIN cell.c
      PROVE  IsBlock(blocks[b]) /\ SameBlock(cell.c[b], blocks[b])
  <2>1. IsBlock(cell.c[b])
    BY DEF IsCell
  <2>2. blocks[b] = MarkBlock(cell.c[b], mark)
    BY <1>3
  <2>3. QED
    BY <2>1, <2>2, MarkedStays
<1>5. IsCell(new) /\ SameCell(cell, new) /\ new.c = blocks
  BY <1>1, <1>2, <1>4, CellOfBlocks
<1>6. QED
  BY <1>3, <1>5

LEMMA LoweredRow ==
    ASSUME NEW row, IsRow(row), NEW align, NEW columns, NEW new, new = LowerRow(row, align, columns)
    PROVE  /\ IsRow(new) /\ SameRow(row, new)
           /\ \A j \in DOMAIN row.c :
                new.c[j] = MarkCellBlocks(row.c[j], SpannedAlignMark(align, columns[j], CellSpan(row.c[j])))
<1> DEFINE cells == [j \in DOMAIN row.c |-> MarkCellBlocks(row.c[j], SpannedAlignMark(align, columns[j], CellSpan(row.c[j])))]
<1>1. new = [row EXCEPT !.c = cells]
  BY DEF LowerRow
<1>2. DOMAIN cells = DOMAIN row.c /\ cells = [j \in DOMAIN row.c |-> cells[j]]
  OBVIOUS
<1>3. \A j \in DOMAIN row.c : cells[j] = MarkCellBlocks(row.c[j], SpannedAlignMark(align, columns[j], CellSpan(row.c[j])))
  OBVIOUS
<1> HIDE DEF cells
<1>4. \A j \in DOMAIN row.c : IsCell(cells[j]) /\ SameCell(row.c[j], cells[j])
  BY <1>3, MarkedCell DEF IsRow
<1>5. IsRow(new) /\ SameRow(row, new) /\ new.c = cells
  BY <1>1, <1>2, <1>4, RowOfCells
<1>6. QED
  BY <1>3, <1>5

LEMMA Lowered ==
    ASSUME NEW table, IsTable(table), table.at.align # <<>>, NEW columns, columns = TableCellColumns(table),
           NEW new, new = LowerTable(table)
    PROVE  /\ IsTable(new) /\ SameTable(table, new) /\ new.at = WithAlign(table.at, <<>>) /\ new.at.align = <<>>
           /\ \A p \in BlockPlaces(table) :
                BlockIn(new, p) = MarkBlock(BlockIn(table, p),
                                            SpannedAlignMark(table.at.align, columns[p[1]][p[2]], CellSpan(CellIn(table, p))))
<1> DEFINE align == table.at.align
           rows == LowerRows(table.c, align, columns)
<1>1. Rewritten(table, <<>>, rows, new)
  BY DEF LowerTable, Rewritten
<1>2. rows = [i \in DOMAIN table.c |-> LowerRow(table.c[i], align, columns[i])]
  BY DEF LowerRows
<1> HIDE DEF rows
<1>3. /\ DOMAIN rows = DOMAIN table.c /\ rows = [i \in DOMAIN table.c |-> rows[i]]
      /\ \A i \in DOMAIN table.c : rows[i] = LowerRow(table.c[i], align, columns[i])
  BY <1>2
<1>4. ASSUME NEW i \in DOMAIN table.c
      PROVE  IsRow(rows[i]) /\ SameRow(table.c[i], rows[i])
  <2>1. IsRow(table.c[i])
    BY DEF IsTable
  <2>2. QED
    BY <1>3, <2>1, LoweredRow
<1>5. /\ IsTable(new) /\ SameTable(table, new) /\ new.c = rows
      /\ new.at = WithAlign(table.at, <<>>) /\ new.at.align = <<>>
  BY <1>1, <1>3, <1>4, TableOfRows
<1>6. ASSUME NEW p \in BlockPlaces(table)
      PROVE  BlockIn(new, p) = MarkBlock(BlockIn(table, p),
                                         SpannedAlignMark(align, columns[p[1]][p[2]], CellSpan(CellIn(table, p))))
  <2>1. p[1] \in DOMAIN table.c /\ p[2] \in DOMAIN table.c[p[1]].c /\ p[3] \in DOMAIN CellIn(table, p).c
    BY PlacesOf
  <2>2. IsRow(table.c[p[1]]) /\ IsCell(CellIn(table, p))
    BY <2>1 DEF IsTable, IsRow, CellIn
  <2>3. rows[p[1]] = LowerRow(table.c[p[1]], align, columns[p[1]])
    BY <1>3, <2>1
  <2>4. rows[p[1]].c[p[2]] =
          MarkCellBlocks(table.c[p[1]].c[p[2]], SpannedAlignMark(align, columns[p[1]][p[2]], CellSpan(table.c[p[1]].c[p[2]])))
    BY <2>1, <2>2, <2>3, LoweredRow
  <2>5. CellIn(new, p) = MarkCellBlocks(CellIn(table, p), SpannedAlignMark(align, columns[p[1]][p[2]], CellSpan(CellIn(table, p))))
    BY <1>5, <2>4 DEF CellIn
  <2>6. QED
    BY <2>1, <2>2, <2>5, MarkedCell DEF BlockIn
<1>7. QED
  BY <1>5, <1>6

\* What lifting makes of them.
LEMMA UnmarkedCell ==
    ASSUME NEW cell, IsCell(cell), NEW won, NEW new, new = UnmarkCellBlocks(cell, won)
    PROVE  IsCell(new) /\ SameCell(cell, new) /\ \A b \in DOMAIN cell.c : new.c[b] = UnmarkBlock(cell.c[b], won)
<1> DEFINE blocks == [b \in DOMAIN cell.c |-> UnmarkBlock(cell.c[b], won)]
<1>1. new = [cell EXCEPT !.c = blocks]
  BY DEF UnmarkCellBlocks
<1>2. DOMAIN blocks = DOMAIN cell.c /\ blocks = [b \in DOMAIN cell.c |-> blocks[b]]
  OBVIOUS
<1>3. \A b \in DOMAIN cell.c : blocks[b] = UnmarkBlock(cell.c[b], won)
  OBVIOUS
<1> HIDE DEF blocks
<1>4. ASSUME NEW b \in DOMAIN cell.c
      PROVE  IsBlock(blocks[b]) /\ SameBlock(cell.c[b], blocks[b])
  <2>1. IsBlock(cell.c[b])
    BY DEF IsCell
  <2>2. QED
    BY <1>3, <2>1, UnmarkedBlock
<1>5. IsCell(new) /\ SameCell(cell, new) /\ new.c = blocks
  BY <1>1, <1>2, <1>4, CellOfBlocks
<1>6. QED
  BY <1>3, <1>5

LEMMA UnmarkedRow ==
    ASSUME NEW row, IsRow(row), NEW align, NEW columns, NEW new, new = UnmarkRow(row, align, columns)
    PROVE  /\ IsRow(new) /\ SameRow(row, new)
           /\ \A j \in DOMAIN row.c :
                new.c[j] = IF CellSpan(row.c[j]) = 1 THEN UnmarkCellBlocks(row.c[j], ColumnMark(align, columns[j])) ELSE row.c[j]
<1> DEFINE cell(j) == IF CellSpan(row.c[j]) = 1 THEN UnmarkCellBlocks(row.c[j], ColumnMark(align, columns[j])) ELSE row.c[j]
           cells == [j \in DOMAIN row.c |-> cell(j)]
<1>1. new = [row EXCEPT !.c = cells]
  BY DEF UnmarkRow
<1>2. DOMAIN cells = DOMAIN row.c /\ cells = [j \in DOMAIN row.c |-> cells[j]]
  OBVIOUS
<1>3. \A j \in DOMAIN row.c : cells[j] = cell(j)
  OBVIOUS
<1> HIDE DEF cells
<1>4. ASSUME NEW j \in DOMAIN row.c
      PROVE  IsCell(cells[j]) /\ SameCell(row.c[j], cells[j])
  <2>1. IsCell(row.c[j])
    BY DEF IsRow
  <2>2. CASE CellSpan(row.c[j]) = 1
    BY <1>3, <2>1, <2>2, UnmarkedCell
  <2>3. CASE CellSpan(row.c[j]) # 1
    BY <1>3, <2>1, <2>3 DEF SameCell, SameBlock
  <2>4. QED
    BY <2>2, <2>3
<1>5. IsRow(new) /\ SameRow(row, new) /\ new.c = cells
  BY <1>1, <1>2, <1>4, RowOfCells
<1>6. QED
  BY <1>3, <1>5

Earns(align) == \E col \in DOMAIN align : align[col] # ""
LEMMA Lifted ==
    ASSUME NEW table, IsTable(table), table.at.align = <<>>, NEW columns, columns = TableCellColumns(table),
           NEW align, align = LiftedColumns(table), Earns(align), NEW new, new = LiftTable(table)
    PROVE  /\ IsTable(new) /\ SameTable(table, new) /\ new.at = WithAlign(table.at, align) /\ new.at.align = align
           /\ \A p \in BlockPlaces(table) :
                BlockIn(new, p) = IF IsSingle(table, p) THEN UnmarkBlock(BlockIn(table, p), ColumnMark(align, columns[p[1]][p[2]]))
                                  ELSE BlockIn(table, p)
<1> DEFINE rows == UnmarkRows(table.c, align, columns)
<1>1. Rewritten(table, align, rows, new)
  BY DEF LiftTable, WithColumns, Earns, Rewritten
<1>2. rows = [i \in DOMAIN table.c |-> UnmarkRow(table.c[i], align, columns[i])]
  BY DEF UnmarkRows
<1> HIDE DEF rows
<1>3. /\ DOMAIN rows = DOMAIN table.c /\ rows = [i \in DOMAIN table.c |-> rows[i]]
      /\ \A i \in DOMAIN table.c : rows[i] = UnmarkRow(table.c[i], align, columns[i])
  BY <1>2
<1>4. ASSUME NEW i \in DOMAIN table.c
      PROVE  IsRow(rows[i]) /\ SameRow(table.c[i], rows[i])
  <2>1. IsRow(table.c[i])
    BY DEF IsTable
  <2>2. QED
    BY <1>3, <2>1, UnmarkedRow
<1>5. /\ IsTable(new) /\ SameTable(table, new) /\ new.c = rows
      /\ new.at = WithAlign(table.at, align) /\ new.at.align = align
  <2>1. DOMAIN rows = DOMAIN table.c /\ rows = [i \in DOMAIN table.c |-> rows[i]]
    BY <1>3
  <2>2. \A i \in DOMAIN table.c : IsRow(rows[i]) /\ SameRow(table.c[i], rows[i])
    BY <1>4
  <2>3. QED
    BY <1>1, <2>1, <2>2, TableOfRows
<1>6. ASSUME NEW p \in BlockPlaces(table)
      PROVE  BlockIn(new, p) = IF IsSingle(table, p) THEN UnmarkBlock(BlockIn(table, p), ColumnMark(align, columns[p[1]][p[2]]))
                               ELSE BlockIn(table, p)
  <2>1. p[1] \in DOMAIN table.c /\ p[2] \in DOMAIN table.c[p[1]].c /\ p[3] \in DOMAIN CellIn(table, p).c
    BY PlacesOf
  <2>2. IsRow(table.c[p[1]]) /\ IsCell(CellIn(table, p))
    BY <2>1 DEF IsTable, IsRow, CellIn
  <2>3. CellIn(new, p) = IF IsSingle(table, p) THEN UnmarkCellBlocks(CellIn(table, p), ColumnMark(align, columns[p[1]][p[2]]))
                         ELSE CellIn(table, p)
    <3>1. rows[p[1]] = UnmarkRow(table.c[p[1]], align, columns[p[1]])
      BY <1>3, <2>1
    <3>2. rows[p[1]].c[p[2]] =
            IF CellSpan(table.c[p[1]].c[p[2]]) = 1
            THEN UnmarkCellBlocks(table.c[p[1]].c[p[2]], ColumnMark(align, columns[p[1]][p[2]]))
            ELSE table.c[p[1]].c[p[2]]
      BY <2>1, <2>2, <3>1, UnmarkedRow
    <3>3. QED
      BY <1>5, <3>2 DEF CellIn, IsSingle
  <2>4. QED
    BY <2>1, <2>2, <2>3, UnmarkedCell DEF BlockIn
<1>7. QED
  BY <1>5, <1>6
------------------------------------------------------------------------------
(* Votes. *)

IsPlaces(S) == S \in SUBSET (Nat \X Nat \X Nat) /\ IsFiniteSet(S)

\* Of any places, one comes before all others; of two places, one comes first.
LEMMA FirstOf ==
    ASSUME NEW S \in SUBSET (Nat \X Nat \X Nat), S # {}
    PROVE  \E p \in S : \A q \in S : ~Before(q, p)
<1> DEFINE I == {p[1] : p \in S}
           row == Min(I)
           J == {p[2] : p \in {q \in S : q[1] = row}}
           cell == Min(J)
           B == {p[3] : p \in {q \in S : q[1] = row /\ q[2] = cell}}
           place == Min(B)
<1>1. I \in SUBSET Nat /\ I # {}
  OBVIOUS
<1>2. row \in I /\ \A i \in I : row <= i
  <2> HIDE DEF I
  <2>1. QED
    BY <1>1, Least
<1> HIDE DEF row
<1>3. J \in SUBSET Nat /\ J # {}
  BY <1>2
<1>4. cell \in J /\ \A j \in J : cell <= j
  <2> HIDE DEF J
  <2>1. QED
    BY <1>3, Least
<1> HIDE DEF cell
<1>5. B \in SUBSET Nat /\ B # {}
  BY <1>4
<1>6. place \in B /\ \A b \in B : place <= b
  <2> HIDE DEF B
  <2>1. QED
    BY <1>5, Least
<1> HIDE DEF place
<1>7. PICK p \in S : p[1] = row /\ p[2] = cell /\ p[3] = place
  BY <1>6
<1>8. ASSUME NEW q \in S
      PROVE  ~Before(q, p)
  <2>1. q[1] \in I /\ (q[1] = row => q[2] \in J) /\ (q[1] = row /\ q[2] = cell => q[3] \in B)
    OBVIOUS
  <2>2. /\ row <= q[1] /\ (q[1] = row => cell <= q[2]) /\ (q[1] = row /\ q[2] = cell => place <= q[3])
    BY <1>2, <1>4, <1>6, <2>1
  <2>3. q[1] \in Nat /\ q[2] \in Nat /\ q[3] \in Nat /\ row \in Nat /\ cell \in Nat /\ place \in Nat
    BY <1>7
  <2> HIDE DEF I, J, B
  <2>4. QED
    BY <1>7, <2>2, <2>3 DEF Before
<1>9. QED
  BY <1>8

LEMMA OneBefore ==
    ASSUME NEW p \in Nat \X Nat \X Nat, NEW q \in Nat \X Nat \X Nat, ~Before(p, q), ~Before(q, p)
    PROVE  p = q
  BY DEF Before

\* How often a mark is voted for is a number, and grows with those who vote for it.
LEMMA Counts ==
    ASSUME NEW votes, IsPlaces(DOMAIN votes), NEW mark
    PROVE  /\ Count(votes, mark) \in Nat
           /\ Count(votes, mark) <= Cardinality(DOMAIN votes) /\ Cardinality(DOMAIN votes) \in Nat
<1> DEFINE for == {p \in DOMAIN votes : votes[p] = mark}
<1>1. for \in SUBSET DOMAIN votes /\ IsFiniteSet(DOMAIN votes)
  BY DEF IsPlaces
<1> HIDE DEF for
<1>2. Cardinality(for) \in Nat /\ Cardinality(for) <= Cardinality(DOMAIN votes) /\ Cardinality(DOMAIN votes) \in Nat
  BY <1>1, FS_Subset, FS_CardinalityType
<1>3. QED
  BY <1>2 DEF for, Count

LEMMA CountGrows ==
    ASSUME NEW a, NEW b, DOMAIN a = DOMAIN b, IsPlaces(DOMAIN b), NEW mark,
           \A p \in DOMAIN a : a[p] = mark => b[p] = mark
    PROVE  Count(a, mark) <= Count(b, mark)
<1> DEFINE forA == {p \in DOMAIN a : a[p] = mark}
           forB == {p \in DOMAIN b : b[p] = mark}
<1>1. forA \in SUBSET forB /\ forB \in SUBSET DOMAIN b /\ IsFiniteSet(DOMAIN b)
  BY DEF IsPlaces
<1> HIDE DEF forA, forB
<1>2. Cardinality(forA) <= Cardinality(forB)
  BY <1>1, FS_Subset
<1>3. QED
  BY <1>2 DEF forA, forB, Count

\* The winner of a vote is the vote of a voter who beats all others.
LEMMA WinnerOf ==
    ASSUME NEW votes, IsPlaces(DOMAIN votes), DOMAIN votes # {}
    PROVE  \E p \in DOMAIN votes : Winner(votes) = votes[p] /\ \A q \in DOMAIN votes : Beats(votes, p, q)
<1> DEFINE D == DOMAIN votes
           against(p) == Cardinality(D) - Count(votes, votes[p])
           A == {against(p) : p \in D}
           least == Min(A)
           best == {p \in D : against(p) = least}
<1>1. \A p \in D : Count(votes, votes[p]) \in Nat /\ against(p) \in Nat /\ Cardinality(D) \in Nat
  BY Counts
<1>2. A \in SUBSET Nat /\ A # {}
  <2> HIDE DEF against
  <2>1. QED
    BY <1>1
<1>3. least \in A /\ \A n \in A : least <= n
  <2> HIDE DEF A
  <2>1. QED
    BY <1>2, Least
<1> HIDE DEF least
<1>4. best \in SUBSET (Nat \X Nat \X Nat) /\ best # {}
  <2> HIDE DEF against
  <2>1. QED
    BY <1>3 DEF IsPlaces
<1>5. PICK p \in best : \A q \in best : ~Before(q, p)
  <2> HIDE DEF best
  <2>1. QED
    BY <1>4, FirstOf
<1>6. ASSUME NEW q \in D
      PROVE  Beats(votes, p, q)
  <2>1. p \in D /\ against(p) = least /\ least <= against(q)
    BY <1>3
  <2>2. Count(votes, votes[q]) <= Count(votes, votes[p])
    BY <1>1, <2>1
  <2>3. Count(votes, votes[q]) = Count(votes, votes[p]) => q \in best
    BY <2>1
  <2>4. QED
    BY <1>1, <1>5, <2>1, <2>2, <2>3 DEF Beats
<1>7. \E r \in DOMAIN votes : \A q \in DOMAIN votes : Beats(votes, r, q)
  BY <1>6
<1>8. QED
  BY <1>7 DEF Winner

\* Those who change their vote to the winner's do not change who wins.
LEMMA WinnerStays ==
    ASSUME NEW votes, NEW new, DOMAIN new = DOMAIN votes, IsPlaces(DOMAIN votes),
           \A p \in DOMAIN votes : new[p] = votes[p] \/ new[p] = Winner(votes)
    PROVE  Winner(new) = Winner(votes)
<1>1. CASE DOMAIN votes = {}
  BY <1>1 DEF Winner
<1>2. CASE DOMAIN votes # {}
  <2>1. PICK p \in DOMAIN votes : Winner(votes) = votes[p] /\ \A q \in DOMAIN votes : Beats(votes, p, q)
    BY <1>2, WinnerOf
  <2>2. PICK r \in DOMAIN new : Winner(new) = new[r] /\ \A q \in DOMAIN new : Beats(new, r, q)
    BY <1>2, WinnerOf
  <2> DEFINE won == Winner(votes)
             other == new[r]
  <2>3. SUFFICES ASSUME other # won
                 PROVE  FALSE
    BY <2>2
  <2>4. votes[r] = other /\ votes[p] = won /\ new[p] = won
    BY <2>1, <2>3
  <2>5. Beats(votes, p, r) /\ Beats(new, r, p)
    BY <2>1, <2>2
  <2>6. Count(votes, won) <= Count(new, won) /\ Count(new, other) <= Count(votes, other)
    <3>1. \A q \in DOMAIN votes : votes[q] = won => new[q] = won
      OBVIOUS
    <3>2. \A q \in DOMAIN new : new[q] = other => votes[q] = other
      BY <2>3
    <3> HIDE DEF won, other
    <3>3. QED
      BY <3>1, <3>2, CountGrows
  <2>7. /\ Count(votes, won) \in Nat /\ Count(new, won) \in Nat
        /\ Count(votes, other) \in Nat /\ Count(new, other) \in Nat
    BY Counts
  <2> HIDE DEF won, other
  <2>8. /\ Count(votes, other) < Count(votes, won) \/ (Count(votes, other) = Count(votes, won) /\ ~Before(r, p))
        /\ Count(new, won) < Count(new, other) \/ (Count(new, won) = Count(new, other) /\ ~Before(p, r))
    BY <2>4, <2>5 DEF Beats, other
  <2>9. ~Before(r, p) /\ ~Before(p, r)
    BY <2>6, <2>7, <2>8
  <2>10. p = r
    BY <2>9, OneBefore DEF IsPlaces
  <2>11. QED
    BY <2>3, <2>4, <2>10
<1>3. QED
  BY <1>1, <1>2
\* What is read off a finite set, member by member, is finite.
LEMMA ReadOff ==
    ASSUME NEW S, IsFiniteSet(S), NEW f, f = [x \in S |-> f[x]]
    PROVE  IsFiniteSet({f[x] : x \in S})
<1> DEFINE T == {f[x] : x \in S}
<1>1. f \in [S -> T] /\ \A y \in T : \E x \in S : f[x] = y
  OBVIOUS
<1> HIDE DEF T
<1>2. f \in Surjection(S, T)
  BY <1>1 DEF Surjection
<1>3. IsFiniteSet(T)
  BY <1>2, FS_Surjection
<1>4. QED
  BY <1>3 DEF T

LEMMA AllOf ==
    ASSUME NEW S, IsFiniteSet(S), NEW f, f = [x \in S |-> f[x]], \A x \in S : IsFiniteSet(f[x])
    PROVE  IsFiniteSet(UNION {f[x] : x \in S})
<1> DEFINE T == {f[x] : x \in S}
<1>1. IsFiniteSet(T)
  BY ReadOff
<1>2. \A t \in T : IsFiniteSet(t)
  OBVIOUS
<1> HIDE DEF T
<1>3. IsFiniteSet(UNION T)
  BY <1>1, <1>2, FS_UNION
<1>4. QED
  BY <1>3 DEF T

LEMMA FiniteDomain ==
    ASSUME NEW s, IsSequence(s)
    PROVE  IsFiniteSet(DOMAIN s)
<1>1. DOMAIN s = 1..Len(s) /\ Len(s) \in Nat
  BY DEF IsSequence
<1>2. QED
  BY <1>1, FS_Interval

\* A table has finitely many blocks, so a column has finitely many voters.
LEMMA VotersOf ==
    ASSUME NEW table, IsTable(table), NEW columns, NEW col
    PROVE  /\ IsPlaces(Voters(table, columns, col)) /\ Voters(table, columns, col) \in SUBSET BlockPlaces(table)
           /\ DOMAIN ColumnVotes(table, columns, col) = Voters(table, columns, col)
<1>1. ASSUME NEW i \in DOMAIN table.c
      PROVE  IsFiniteSet(BlocksOf(table.c[i], i))
  <2> DEFINE row == table.c[i]
             place(j) == [b \in DOMAIN row.c[j].c |-> <<i, j, b>>]
             places == [j \in DOMAIN row.c |-> {place(j)[b] : b \in DOMAIN row.c[j].c}]
  <2>1. IsSequence(row.c) /\ \A j \in DOMAIN row.c : IsSequence(row.c[j].c)
    BY DEF IsTable, IsRow, IsCell
  <2>2. ASSUME NEW j \in DOMAIN row.c
        PROVE  IsFiniteSet({place(j)[b] : b \in DOMAIN row.c[j].c})
    <3>1. IsFiniteSet(DOMAIN row.c[j].c)
      BY <2>1, FiniteDomain
    <3>2. place(j) = [b \in DOMAIN row.c[j].c |-> place(j)[b]]
      OBVIOUS
    <3> HIDE DEF place, row
    <3>3. QED
      BY <3>1, <3>2, ReadOff
  <2>3. IsFiniteSet(DOMAIN row.c)
    BY <2>1, FiniteDomain
  <2>4. places = [j \in DOMAIN row.c |-> places[j]] /\ \A j \in DOMAIN row.c : IsFiniteSet(places[j])
    <3> HIDE DEF place
    <3>1. QED
      BY <2>2
  <2>5. BlocksOf(row, i) = UNION {places[j] : j \in DOMAIN row.c}
    <3>1. \A j \in DOMAIN row.c : places[j] = {<<i, j, b>> : b \in DOMAIN row.c[j].c}
      OBVIOUS
    <3> HIDE DEF places
    <3>2. QED
      BY <3>1 DEF BlocksOf
  <2> HIDE DEF places, row
  <2>6. QED
    BY <2>3, <2>4, <2>5, AllOf DEF row
<1> DEFINE blocks == [i \in DOMAIN table.c |-> BlocksOf(table.c[i], i)]
<1>2. IsFiniteSet(DOMAIN table.c)
  BY FiniteDomain DEF IsTable
<1>3. blocks = [i \in DOMAIN table.c |-> blocks[i]] /\ \A i \in DOMAIN table.c : IsFiniteSet(blocks[i])
  BY <1>1
<1>4. BlockPlaces(table) = UNION {blocks[i] : i \in DOMAIN table.c}
  BY DEF BlockPlaces
<1> HIDE DEF blocks
<1>5. IsFiniteSet(BlockPlaces(table))
  BY <1>2, <1>3, <1>4, AllOf
<1>6. BlockPlaces(table) \in SUBSET (Nat \X Nat \X Nat)
  BY PlacesOf
<1>7. Voters(table, columns, col) \in SUBSET BlockPlaces(table)
  BY DEF Voters
<1>8. IsFiniteSet(Voters(table, columns, col))
  BY <1>5, <1>7, FS_Subset
<1>9. QED
  BY <1>6, <1>7, <1>8 DEF IsPlaces, ColumnVotes

------------------------------------------------------------------------------
(* Marks and alignments. *)

\* A mark that stands for an alignment is the one the alignment stands for.
LEMMA MarksOfAligns ==
    /\ \A mark : GfmAlign(mark) # "" => AlignMark(GfmAlign(mark)) = mark
    /\ \A align : AlignMark(align) # "" => GfmAlign(AlignMark(align)) = align
    /\ GfmAlign("") = "" /\ AlignMark("") = ""
    /\ AlignMark("center") = "center" /\ AlignMark("right") = "end"
<1>1. /\ DOMAIN MarkForAlign = {"center", "right"} /\ MarkForAlign["center"] = "center" /\ MarkForAlign["right"] = "end"
      /\ DOMAIN AlignForMark = {"center", "end"} /\ AlignForMark["center"] = "center" /\ AlignForMark["end"] = "right"
  BY DEF MarkForAlign, AlignForMark
<1>2. AlignMark("center") = "center" /\ AlignMark("right") = "end" /\ AlignMark("") = ""
  BY <1>1 DEF AlignMark
<1>3. GfmAlign("center") = "center" /\ GfmAlign("end") = "right" /\ GfmAlign("") = ""
  BY <1>1 DEF GfmAlign
<1>4. \A mark : GfmAlign(mark) # "" => mark \in {"center", "end"}
  BY <1>1 DEF GfmAlign
<1>5. \A align : AlignMark(align) # "" => align \in {"center", "right"}
  BY <1>1 DEF AlignMark
<1>6. ASSUME NEW mark, GfmAlign(mark) # ""
      PROVE  AlignMark(GfmAlign(mark)) = mark
  <2>1. mark = "center" \/ mark = "end"
    BY <1>4, <1>6
  <2>2. QED
    BY <1>2, <1>3, <2>1
<1>7. ASSUME NEW align, AlignMark(align) # ""
      PROVE  GfmAlign(AlignMark(align)) = align
  <2>1. align = "center" \/ align = "right"
    BY <1>5, <1>7
  <2>2. QED
    BY <1>2, <1>3, <2>1
<1>8. QED
  BY <1>2, <1>3, <1>6, <1>7

\* A cell of one column gets the mark of that column.
LEMMA MarkOfSingle ==
    ASSUME NEW align, NEW col \in Int
    PROVE  SpannedAlignMark(align, col, 1) = ColumnMark(align, col)
  BY DEF SpannedAlignMark

\* The columns of a table that lifting names.
LEMMA ColumnsNamed ==
    ASSUME NEW table, NEW columns, columns = TableCellColumns(table), NEW align, align = LiftedColumns(table)
    PROVE  /\ DOMAIN align = UNION {1..last : last \in SingleColumns(table.c, columns)}
           /\ \A col \in DOMAIN align : col \in Int
           /\ \A col \in DOMAIN align : align[col] = GfmAlign(Winner(ColumnVotes(table, columns, col)))
           /\ \A col : ColumnMark(align, col) # "" => col \in DOMAIN align
<1>1. align = [col \in UNION {1..last : last \in SingleColumns(table.c, columns)} |->
                  GfmAlign(Winner(ColumnVotes(table, columns, col)))]
  BY DEF LiftedColumns, ColumnsVoted
<1>2. DOMAIN align = UNION {1..last : last \in SingleColumns(table.c, columns)}
  BY <1>1
<1>3. \A col \in DOMAIN align : col \in Int
  BY <1>2
<1>4. \A col \in DOMAIN align : align[col] = GfmAlign(Winner(ColumnVotes(table, columns, col)))
  BY <1>1
<1>5. \A col : ColumnMark(align, col) # "" => col \in DOMAIN align
  BY DEF ColumnMark
<1>6. QED
  BY <1>2, <1>3, <1>4, <1>5

\* The mark a column gives its blocks is the one that won it, if it gives one.
LEMMA ColumnWon ==
    ASSUME NEW table, NEW columns, columns = TableCellColumns(table), NEW align, align = LiftedColumns(table), NEW col
    PROVE  ColumnMark(align, col) # "" => ColumnMark(align, col) = Winner(ColumnVotes(table, columns, col)) /\ col \in Int
<1> DEFINE won == Winner(ColumnVotes(table, columns, col))
<1>1. ASSUME ColumnMark(align, col) # ""
      PROVE  ColumnMark(align, col) = won /\ col \in Int
  <2>0. /\ \A c : ColumnMark(align, c) # "" => c \in DOMAIN align
        /\ \A c \in DOMAIN align : c \in Int
        /\ \A c \in DOMAIN align : align[c] = GfmAlign(Winner(ColumnVotes(table, columns, c)))
    BY ColumnsNamed
  <2>1. col \in DOMAIN align /\ col \in Int /\ align[col] = GfmAlign(won)
    BY <1>1, <2>0
  <2> HIDE DEF won
  <2>2. ColumnMark(align, col) = AlignMark(GfmAlign(won))
    BY <2>1 DEF ColumnMark
  <2>3. QED
    BY <1>1, <2>1, <2>2, MarksOfAligns
<1>2. QED
  BY <1>1
------------------------------------------------------------------------------
(* A table of a product, pulled and pushed again. *)

\* A table whose columns earn nothing is pulled and pushed as it is.
LEMMA NothingEarned ==
    ASSUME NEW table, table.at.align = <<>>, ~Earns(LiftedColumns(table))
    PROVE  LiftTable(table) = table /\ LowerTable(table) = table
<1>1. \A col \in DOMAIN LiftedColumns(table) : LiftedColumns(table)[col] = ""
  BY DEF Earns
<1>2. LiftTable(table) = table
  BY <1>1 DEF LiftTable, WithColumns
<1>3. QED
  BY <1>2 DEF LowerTable

\* What becomes of each block of any other table.
PulledAndPushed(table, align, pulled, pushed) ==
    /\ align = LiftedColumns(table) /\ Earns(align)
    /\ pulled = LiftTable(table) /\ pushed = LowerTable(pulled)
BlockMark(table, columns, align, p) == SpannedAlignMark(align, columns[p[1]][p[2]], CellSpan(CellIn(table, p)))
BlockPulledAndPushed(table, columns, align, pulled, pushed, p) ==
    /\ BlockIn(pulled, p) =
         IF IsSingle(table, p) THEN UnmarkBlock(BlockIn(table, p), ColumnMark(align, columns[p[1]][p[2]]))
         ELSE BlockIn(table, p)
    /\ BlockIn(pushed, p) = MarkBlock(BlockIn(pulled, p), BlockMark(table, columns, align, p))
    /\ IsBlock(BlockIn(table, p)) /\ IsBlock(BlockIn(pulled, p)) /\ IsBlock(BlockIn(pushed, p))
LEMMA RoundTrip ==
    ASSUME NEW table, IsTable(table), table.at.align = <<>>, NEW columns, columns = TableCellColumns(table),
           NEW align, NEW pulled, NEW pushed, PulledAndPushed(table, align, pulled, pushed)
    PROVE  /\ IsTable(pulled) /\ IsTable(pushed) /\ SameTable(table, pulled) /\ SameTable(pulled, pushed)
           /\ pulled.at = WithAlign(table.at, align) /\ pulled.at.align = align
           /\ pushed.at = table.at /\ pushed.at.align = <<>>
           /\ \A p \in BlockPlaces(table) : BlockPulledAndPushed(table, columns, align, pulled, pushed, p)
<1>1. align = LiftedColumns(table) /\ Earns(align) /\ pulled = LiftTable(table) /\ pushed = LowerTable(pulled)
  BY DEF PulledAndPushed
<1>2. /\ IsTable(pulled) /\ SameTable(table, pulled)
      /\ pulled.at = WithAlign(table.at, align) /\ pulled.at.align = align
      /\ \A p \in BlockPlaces(table) :
            BlockIn(pulled, p) =
              IF IsSingle(table, p) THEN UnmarkBlock(BlockIn(table, p), ColumnMark(align, columns[p[1]][p[2]]))
              ELSE BlockIn(table, p)
  BY <1>1, Lifted
<1>3. align # <<>>
  <2>1. DOMAIN <<>> = {}
    OBVIOUS
  <2>2. QED
    BY <1>1, <2>1 DEF Earns
<1>4. /\ TableCellColumns(pulled) = columns /\ BlockPlaces(pulled) = BlockPlaces(table)
      /\ \A p \in BlockPlaces(table) : CellSpan(CellIn(pulled, p)) = CellSpan(CellIn(table, p))
  BY <1>2, SameColumns
<1>5. pulled.at.align # <<>>
  BY <1>2, <1>3
<1>6. /\ IsTable(pushed) /\ SameTable(pulled, pushed)
      /\ pushed.at = WithAlign(pulled.at, <<>>) /\ pushed.at.align = <<>>
      /\ \A p \in BlockPlaces(pulled) :
            BlockIn(pushed, p) = MarkBlock(BlockIn(pulled, p),
                                   SpannedAlignMark(pulled.at.align, columns[p[1]][p[2]], CellSpan(CellIn(pulled, p))))
  <2>1. IsTable(pulled) /\ pushed = LowerTable(pulled) /\ columns = TableCellColumns(pulled)
    BY <1>1, <1>2, <1>4
  <2>2. QED
    BY <1>5, <2>1, Lowered
<1>7. \A p \in BlockPlaces(table) : BlockIn(pushed, p) = MarkBlock(BlockIn(pulled, p), BlockMark(table, columns, align, p))
  BY <1>2, <1>4, <1>6 DEF BlockMark
<1>8. pushed.at = table.at
  <2>1. table.at = [key \in DOMAIN table.at |-> table.at[key]]
    BY DEF IsTable
  <2>2. pushed.at = WithAlign(WithAlign(table.at, align), table.at.align)
    BY <1>2, <1>6
  <2>3. QED
    BY <2>1, <2>2 DEF WithAlign
<1>9. BlockPlaces(pushed) = BlockPlaces(pulled)
  BY <1>6, SameColumns
<1>10. \A p \in BlockPlaces(table) :
         IsBlock(BlockIn(table, p)) /\ IsBlock(BlockIn(pulled, p)) /\ IsBlock(BlockIn(pushed, p))
  BY <1>2, <1>4, <1>6, <1>9, PlacesOf
<1>11. \A p \in BlockPlaces(table) : BlockPulledAndPushed(table, columns, align, pulled, pushed, p)
  BY <1>2, <1>7, <1>10 DEF BlockPulledAndPushed
<1>12. QED
  BY <1>2, <1>6, <1>8, <1>11

\* The mark a block of a cell of one column gets is that of the column.
LEMMA MarkOfBlock ==
    ASSUME NEW table, NEW columns, columns = TableCellColumns(table), NEW align, align = LiftedColumns(table),
           NEW p, IsSingle(table, p), ColumnMark(align, columns[p[1]][p[2]]) # ""
    PROVE  BlockMark(table, columns, align, p) = ColumnMark(align, columns[p[1]][p[2]])
<1>1. columns[p[1]][p[2]] \in Int
  BY ColumnWon
<1>2. QED
  BY <1>1, MarkOfSingle DEF BlockMark, IsSingle

\* Reading a page and sending it again loses the alignment of no block: where a
\* column won an alignment, the blocks that said it give theirs up and get it
\* back from the column, and all others keep what they say.
THEOREM NoAlignmentLost ==
    ASSUME NEW table, IsTable(table), table.at.align = <<>>,
           NEW p \in BlockPlaces(table), BlockAlignMark(BlockIn(table, p)) # ""
    PROVE  BlockAlignMark(BlockIn(LowerTable(LiftTable(table)), p)) = BlockAlignMark(BlockIn(table, p))
<1> DEFINE columns == TableCellColumns(table)
           align == LiftedColumns(table)
           pulled == LiftTable(table)
           pushed == LowerTable(pulled)
           block == BlockIn(table, p)
           mark == BlockAlignMark(block)
           won == ColumnMark(align, columns[p[1]][p[2]])
           given == BlockMark(table, columns, align, p)
<1>1. CASE ~Earns(align)
  BY <1>1, NothingEarned
<1>2. CASE Earns(align)
  <2>0. /\ columns = TableCellColumns(table) /\ align = LiftedColumns(table)
        /\ PulledAndPushed(table, align, pulled, pushed)
    BY <1>2 DEF PulledAndPushed
  <2> HIDE DEF columns, align, pulled, pushed
  <2>1. /\ BlockIn(pulled, p) = IF IsSingle(table, p) THEN UnmarkBlock(block, won) ELSE block
        /\ BlockIn(pushed, p) = MarkBlock(BlockIn(pulled, p), given)
        /\ IsBlock(block) /\ IsBlock(BlockIn(pulled, p))
    <3>1. BlockPulledAndPushed(table, columns, align, pulled, pushed, p)
      BY <2>0, RoundTrip
    <3>2. QED
      BY <3>1 DEF BlockPulledAndPushed
  <2> HIDE DEF block
  <2>2. CASE IsSingle(table, p) /\ won # "" /\ Alignable(block) /\ mark = won
    <3>1. /\ AlignMarks(BlockIn(pulled, p)) = {} /\ BlockAlignMark(BlockIn(pulled, p)) = ""
          /\ SameBlock(block, BlockIn(pulled, p))
      BY <2>1, <2>2, UnmarkedBlock
    <3>2. Alignable(BlockIn(pulled, p))
      BY <2>2, <3>1 DEF SameBlock, Alignable
    <3>3. given = won
      BY <2>0, <2>2, MarkOfBlock
    <3> HIDE DEF given, won
    <3>4. BlockAlignMark(BlockIn(pushed, p)) = given
      BY <2>1, <2>2, <3>1, <3>2, <3>3, MarkedBlock DEF Says
    <3>5. QED
      BY <2>2, <3>3, <3>4 DEF block, pushed, pulled
  <2>3. CASE ~(IsSingle(table, p) /\ won # "" /\ Alignable(block) /\ mark = won)
    <3> HIDE DEF given, won
    <3>1. BlockIn(pulled, p) = block
      BY <2>1, <2>3, UnmarkedBlock
    <3>2. BlockIn(pushed, p) = block
      BY <2>1, <3>1 DEF MarkBlock, block
    <3>3. QED
      BY <3>2 DEF block, pushed, pulled
  <2>4. QED
    BY <2>2, <2>3
<1>3. QED
  BY <1>1, <1>2
\* The columns that lifting names are the same after lowering: whoever had no
\* mark and is given one says what the column has won.
LEMMA ColumnsSettle ==
    ASSUME NEW table, IsTable(table), table.at.align = <<>>,
           NEW align, NEW pulled, NEW pushed, PulledAndPushed(table, align, pulled, pushed)
    PROVE  LiftedColumns(pushed) = align
<1> DEFINE columns == TableCellColumns(table)
           votes(col) == ColumnVotes(table, columns, col)
           again(col) == ColumnVotes(pushed, columns, col)
<1>1. /\ align = LiftedColumns(table) /\ pulled = LiftTable(table) /\ pushed = LowerTable(pulled)
      /\ columns = TableCellColumns(table)
  BY DEF PulledAndPushed
<1> HIDE DEF columns
<1>2. /\ IsTable(pushed) /\ SameTable(table, pulled) /\ SameTable(pulled, pushed)
      /\ \A p \in BlockPlaces(table) : BlockPulledAndPushed(table, columns, align, pulled, pushed, p)
  BY <1>1, RoundTrip
<1>3. /\ TableCellColumns(pulled) = columns /\ SingleColumns(pulled.c, columns) = SingleColumns(table.c, columns)
      /\ \A col : Voters(pulled, columns, col) = Voters(table, columns, col)
  BY <1>1, <1>2, SameColumns
<1>4. /\ TableCellColumns(pushed) = columns /\ SingleColumns(pushed.c, columns) = SingleColumns(table.c, columns)
      /\ \A col : Voters(pushed, columns, col) = Voters(table, columns, col)
  BY <1>2, <1>3, SameColumns
<1>5. ASSUME NEW col, NEW p \in Voters(table, columns, col)
      PROVE  again(col)[p] = votes(col)[p] \/ again(col)[p] = Winner(votes(col))
  <2> DEFINE block == BlockIn(table, p)
             given == BlockMark(table, columns, align, p)
             won == ColumnMark(align, col)
  <2>1. p \in BlockPlaces(table) /\ columns[p[1]][p[2]] = col /\ IsSingle(table, p)
    BY DEF Voters
  <2>2. again(col)[p] = BlockAlignMark(BlockIn(pushed, p)) /\ votes(col)[p] = BlockAlignMark(block)
    BY <1>4 DEF ColumnVotes
  <2>3. CASE BlockAlignMark(block) # ""
    BY <1>1, <2>1, <2>2, <2>3, NoAlignmentLost
  <2>4. CASE BlockAlignMark(block) = ""
    <3>1. /\ BlockIn(pulled, p) = UnmarkBlock(block, won) /\ BlockIn(pushed, p) = MarkBlock(BlockIn(pulled, p), given)
          /\ IsBlock(block)
      BY <1>2, <2>1 DEF BlockPulledAndPushed
    <3>2. BlockIn(pulled, p) = block
      BY <2>4, <3>1 DEF UnmarkBlock
    <3>3. given = won \/ given = ""
      BY <2>1 DEF BlockMark, SpannedAlignMark
    <3>4. won # "" => won = Winner(votes(col))
      BY <1>1, ColumnWon
    <3> HIDE DEF given, won, block
    <3>5. \/ BlockAlignMark(BlockIn(pushed, p)) = ""
          \/ given # "" /\ BlockAlignMark(BlockIn(pushed, p)) = given
      BY <2>4, <3>1, <3>2, MarkedSays
    <3>6. QED
      BY <2>2, <2>4, <3>3, <3>4, <3>5
  <2>5. QED
    BY <2>3, <2>4
<1>6. ASSUME NEW col
      PROVE  Winner(again(col)) = Winner(votes(col))
  <2>1. DOMAIN again(col) = DOMAIN votes(col) /\ DOMAIN votes(col) = Voters(table, columns, col)
    BY <1>4 DEF ColumnVotes
  <2>2. IsPlaces(DOMAIN votes(col))
    BY <2>1, VotersOf
  <2>3. \A p \in DOMAIN votes(col) : again(col)[p] = votes(col)[p] \/ again(col)[p] = Winner(votes(col))
    BY <1>5, <2>1
  <2> HIDE DEF again, votes
  <2>4. QED
    BY <2>1, <2>2, <2>3, WinnerStays
<1>7. ColumnsVoted(pushed, columns) = ColumnsVoted(table, columns)
  BY <1>4, <1>6 DEF ColumnsVoted
<1>8. QED
  BY <1>1, <1>4, <1>7 DEF LiftedColumns

\* The alignment an author reads is settled: a page that was read, sent and read
\* again names the same columns with the same alignments as the first time.
THEOREM SameColumnsAgain ==
    ASSUME NEW table, IsTable(table), table.at.align = <<>>
    PROVE  LiftTable(LowerTable(LiftTable(table))).at.align = LiftTable(table).at.align
<1> DEFINE align == LiftedColumns(table)
           pulled == LiftTable(table)
           pushed == LowerTable(pulled)
<1>1. CASE ~Earns(align)
  BY <1>1, NothingEarned
<1>2. CASE Earns(align)
  <2> DEFINE columns == TableCellColumns(table)
             after == TableCellColumns(pushed)
  <2>1. PulledAndPushed(table, align, pulled, pushed) /\ columns = TableCellColumns(table) /\ after = TableCellColumns(pushed)
    BY <1>2 DEF PulledAndPushed
  <2> HIDE DEF align, pulled, pushed, columns, after
  <2>2. pulled.at.align = align /\ IsTable(pushed) /\ pushed.at.align = <<>>
    BY <2>1, RoundTrip
  <2>3. LiftedColumns(pushed) = align
    BY <2>1, ColumnsSettle
  <2>4. LiftTable(pushed).at.align = align
    BY <1>2, <2>1, <2>2, <2>3, Lifted
  <2>5. QED
    BY <2>2, <2>4 DEF pulled, pushed, align
<1>3. QED
  BY <1>1, <1>2
\* One mark more, which is the only one that aligns.
LEMMA OneMark ==
    ASSUME NEW block, IsBlock(block), AlignMarks(block) = {}, NEW mark, Aligns(mark),
           NEW more, more = Append(block.marks, mark)
    PROVE  /\ {i \in DOMAIN more : Aligns(more[i])} = {Len(block.marks) + 1}
           /\ DOMAIN more \ {Len(block.marks) + 1} = 1..Len(block.marks)
<1>1. /\ DOMAIN more = 1..(Len(block.marks) + 1) /\ more[Len(block.marks) + 1] = mark
      /\ \A i \in 1..Len(block.marks) : more[i] = block.marks[i]
      /\ DOMAIN block.marks = 1..Len(block.marks) /\ Len(block.marks) \in Nat
  BY Appended DEF IsBlock
<1>2. \A i \in 1..Len(block.marks) : ~Aligns(more[i])
  BY <1>1 DEF AlignMarks
<1>3. DOMAIN more = 1..Len(block.marks) \cup {Len(block.marks) + 1}
  BY <1>1
<1>4. {i \in DOMAIN more : Aligns(more[i])} = {Len(block.marks) + 1}
  BY <1>1, <1>2, <1>3
<1>5. DOMAIN more \ {Len(block.marks) + 1} = 1..Len(block.marks)
  BY <1>1
<1>6. QED
  BY <1>4, <1>5

\* A block that was given a mark of its column gives it up as it was.
LEMMA MarkTakenBack ==
    ASSUME NEW block, IsBlock(block), Alignable(block), AlignMarks(block) = {}, NEW mark, mark # "",
           NEW new, new = MarkBlock(block, mark)
    PROVE  IsBlock(new) /\ BlockAlignMark(new) = mark /\ UnmarkBlock(new, mark) = block
<1>1. IsBlock(new) /\ SameBlock(block, new)
  BY MarkedStays
<1>2. BlockAlignMark(block) = ""
  BY DEF BlockAlignMark
<1>3. new.marks = Append(block.marks, AlignmentMark(mark)) /\ Says(block, mark, new)
  BY <1>2, MarkedBlock
<1>4. BlockAlignMark(new) = mark /\ Alignable(new)
  BY <1>1, <1>3 DEF Says, SameBlock, Alignable
<1>5. Aligns(AlignmentMark(mark))
  BY DEF Aligns, AlignmentMark
<1>6. DOMAIN new.marks \ AlignMarks(new) = 1..Len(block.marks)
  BY <1>3, <1>5, OneMark DEF AlignMarks
<1> DEFINE back == UnmarkBlock(new, mark)
<1>7. IsBlock(back) /\ SameBlock(new, back) /\ back.marks = InOrder(new.marks, 1..Len(block.marks))
  <2>1. back = UnmarkBlock(new, mark)
    OBVIOUS
  <2> HIDE DEF back
  <2>2. IsBlock(back) /\ SameBlock(new, back) /\ back.marks = InOrder(new.marks, DOMAIN new.marks \ AlignMarks(new))
    BY <1>1, <1>4, <2>1, UnmarkedBlock
  <2>3. QED
    BY <1>6, <2>2
<1>8. back.marks = block.marks
  BY <1>3, <1>7, InOrderFront DEF IsBlock
<1> HIDE DEF back
<1>9. back = block
  BY <1>1, <1>7, <1>8 DEF IsBlock, IsNode, SameBlock
<1>10. QED
  BY <1>1, <1>4, <1>9 DEF back

\* An author's alignment comes back: a column that the author aligned is aligned
\* the same way when the page is read, if it has a block that can say so and none
\* of its blocks was aligned on its own; the blocks come back as they were.
THEOREM AlignmentComesBack ==
    ASSUME NEW table, IsTable(table), IsSequence(table.at.align),
           NEW col \in DOMAIN table.at.align, table.at.align[col] \in {"center", "right"},
           NEW voters, voters = Voters(table, TableCellColumns(table), col), voters # {},
           \A p \in voters : AlignMarks(BlockIn(table, p)) = {},
           NEW back, back = LiftTable(LowerTable(table))
    PROVE  /\ col \in DOMAIN back.at.align /\ back.at.align[col] = table.at.align[col]
           /\ \A p \in voters : BlockIn(back, p) = BlockIn(table, p)
<1> DEFINE columns == TableCellColumns(table)
           align == table.at.align
           sent == LowerTable(table)
           read == LiftedColumns(sent)
           mark == AlignMark(align[col])
           votes == ColumnVotes(sent, columns, col)
<1>0. col \in Nat /\ 1 <= col
  BY DEF IsSequence
<1>1. mark # "" /\ GfmAlign(mark) = align[col] /\ ColumnMark(align, col) = mark
  <2>1. align[col] = "center" \/ align[col] = "right"
    OBVIOUS
  <2>2. mark # ""
    BY <2>1, MarksOfAligns
  <2>3. QED
    BY <2>2, MarksOfAligns DEF ColumnMark
<1>2. align # <<>>
  <2>1. DOMAIN <<>> = {}
    OBVIOUS
  <2>2. QED
    BY <2>1
<1>3. columns = TableCellColumns(table) /\ sent = LowerTable(table) /\ read = LiftedColumns(sent)
  OBVIOUS
<1> HIDE DEF columns, sent, read
<1>4. /\ IsTable(sent) /\ SameTable(table, sent) /\ sent.at.align = <<>>
      /\ \A p \in BlockPlaces(table) : BlockIn(sent, p) = MarkBlock(BlockIn(table, p), BlockMark(table, columns, align, p))
  <2>1. /\ IsTable(sent) /\ SameTable(table, sent) /\ sent.at.align = <<>>
        /\ \A p \in BlockPlaces(table) :
             BlockIn(sent, p) = MarkBlock(BlockIn(table, p),
                                  SpannedAlignMark(table.at.align, columns[p[1]][p[2]], CellSpan(CellIn(table, p))))
    BY <1>2, <1>3, Lowered
  <2>2. QED
    BY <2>1 DEF BlockMark
<1>5. /\ TableCellColumns(sent) = columns /\ SingleColumns(sent.c, columns) = SingleColumns(table.c, columns)
      /\ Voters(sent, columns, col) = voters /\ BlockPlaces(sent) = BlockPlaces(table)
      /\ \A p \in BlockPlaces(table) : CellSpan(CellIn(sent, p)) = CellSpan(CellIn(table, p))
  BY <1>3, <1>4, SameColumns
<1>6. ASSUME NEW p \in voters
      PROVE  /\ BlockAlignMark(BlockIn(sent, p)) = mark /\ UnmarkBlock(BlockIn(sent, p), mark) = BlockIn(table, p)
             /\ p \in BlockPlaces(table) /\ IsSingle(sent, p) /\ columns[p[1]][p[2]] = col
  <2>1. /\ p \in BlockPlaces(table) /\ columns[p[1]][p[2]] = col /\ IsSingle(table, p)
        /\ Alignable(BlockIn(table, p)) /\ AlignMarks(BlockIn(table, p)) = {}
    BY <1>3 DEF Voters
  <2>2. BlockMark(table, columns, align, p) = mark
    <3>1. SpannedAlignMark(align, col, 1) = mark
      <4>1. col \in Int
        BY <1>0
      <4> HIDE DEF align, mark
      <4>2. SpannedAlignMark(align, col, 1) = ColumnMark(align, col)
        BY <4>1, MarkOfSingle, Zenon
      <4>3. QED
        BY <1>1, <4>2
    <3> HIDE DEF align, mark
    <3>2. QED
      BY <2>1, <3>1 DEF BlockMark, IsSingle
  <2>3. IsBlock(BlockIn(table, p)) /\ BlockIn(sent, p) = MarkBlock(BlockIn(table, p), mark)
    BY <1>4, <2>1, <2>2, PlacesOf
  <2> HIDE DEF mark
  <2>4. BlockAlignMark(BlockIn(sent, p)) = mark /\ UnmarkBlock(BlockIn(sent, p), mark) = BlockIn(table, p)
    BY <1>1, <2>1, <2>3, MarkTakenBack
  <2>5. IsSingle(sent, p)
    BY <1>5, <2>1 DEF IsSingle
  <2>6. QED
    BY <2>1, <2>4, <2>5
<1> HIDE DEF mark
<1>7. Winner(votes) = mark
  <2>1. DOMAIN votes = voters /\ IsPlaces(voters)
    BY <1>4, <1>5, VotersOf
  <2>2. \A p \in voters : votes[p] = mark
    BY <1>5, <1>6 DEF ColumnVotes
  <2> HIDE DEF votes
  <2>3. \E p \in DOMAIN votes : Winner(votes) = votes[p]
    BY <2>1, WinnerOf
  <2>4. QED
    BY <2>1, <2>2, <2>3
<1>8. col \in DOMAIN read /\ read[col] = align[col]
  <2>1. /\ DOMAIN read = UNION {1..last : last \in SingleColumns(sent.c, columns)}
        /\ \A c \in DOMAIN read : read[c] = GfmAlign(Winner(ColumnVotes(sent, columns, c)))
    <3>1. columns = TableCellColumns(sent) /\ read = LiftedColumns(sent)
      BY <1>3, <1>5
    <3>2. QED
      BY <3>1, ColumnsNamed
  <2>2. col \in SingleColumns(sent.c, columns)
    <3>1. PICK p \in voters : TRUE
      OBVIOUS
    <3>2. p \in BlockPlaces(sent) /\ IsSingle(sent, p) /\ columns[p[1]][p[2]] = col
      BY <1>5, <1>6
    <3>3. p[1] \in DOMAIN sent.c /\ p[2] \in DOMAIN sent.c[p[1]].c
      BY <3>2, PlacesOf
    <3>4. QED
      BY <3>2, <3>3 DEF SingleColumns, IsSingle, CellIn
  <2>3. col \in 1..col
    BY <1>0
  <2>4. col \in DOMAIN read
    BY <2>1, <2>2, <2>3
  <2>5. QED
    BY <1>1, <1>7, <2>1, <2>4
<1>9. Earns(read)
  <2>1. align[col] # ""
    OBVIOUS
  <2>2. QED
    BY <1>8, <2>1 DEF Earns
<1>10. /\ back.at.align = read
       /\ \A p \in BlockPlaces(sent) :
            BlockIn(back, p) = IF IsSingle(sent, p) THEN UnmarkBlock(BlockIn(sent, p), ColumnMark(read, columns[p[1]][p[2]]))
                               ELSE BlockIn(sent, p)
  <2>1. back = LiftTable(sent) /\ columns = TableCellColumns(sent)
    BY <1>3, <1>5
  <2>2. QED
    BY <1>3, <1>4, <1>9, <2>1, Lifted
<1>11. ColumnMark(read, col) = mark
  BY <1>8 DEF ColumnMark, mark
<1>12. \A p \in voters : BlockIn(back, p) = BlockIn(table, p)
  BY <1>5, <1>6, <1>10, <1>11
<1>13. QED
  BY <1>8, <1>10, <1>12
\* Two tables that differ in marks alone from a third so differ from each other.
LEMMA SameToo ==
    ASSUME NEW a, NEW b, NEW c, SameTable(a, b), SameTable(b, c)
    PROVE  SameTable(a, c)
<1>1. DOMAIN a.c = DOMAIN b.c /\ DOMAIN b.c = DOMAIN c.c /\ a.k = c.k /\ a.marks = c.marks
  BY DEF SameTable
<1>2. ASSUME NEW i \in DOMAIN a.c
      PROVE  SameRow(a.c[i], c.c[i])
  <2> DEFINE q == a.c[i]
             r == b.c[i]
             s == c.c[i]
  <2>1. SameRow(q, r) /\ SameRow(r, s)
    BY <1>1 DEF SameTable
  <2> HIDE DEF q, r, s
  <2>2. ASSUME NEW j \in DOMAIN q.c
        PROVE  SameCell(q.c[j], s.c[j])
    <3> DEFINE d == q.c[j]
               e == r.c[j]
               f == s.c[j]
    <3>1. SameCell(d, e) /\ SameCell(e, f)
      BY <2>1 DEF SameRow
    <3> HIDE DEF d, e, f
    <3>2. SameCell(d, f)
      BY <3>1 DEF SameCell, SameBlock
    <3>3. QED
      BY <3>2 DEF d, f
  <2>3. SameRow(q, s)
    BY <2>1, <2>2 DEF SameRow
  <2>4. QED
    BY <2>3 DEF q, s
<1>3. QED
  BY <1>1, <1>2 DEF SameTable

\* Tables with the same attributes and the same blocks are the same table.
LEMMA SameBlocks ==
    ASSUME NEW a, IsTable(a), NEW b, IsTable(b), SameTable(a, b), a.at = b.at,
           \A p \in BlockPlaces(a) : BlockIn(a, p) = BlockIn(b, p)
    PROVE  a = b
<1>1. /\ a.k = b.k /\ a.marks = b.marks /\ DOMAIN a.c = DOMAIN b.c
      /\ \A i \in DOMAIN a.c : SameRow(a.c[i], b.c[i]) /\ IsRow(a.c[i]) /\ IsRow(b.c[i])
  BY DEF SameTable, IsTable
<1>2. ASSUME NEW i \in DOMAIN a.c
      PROVE  a.c[i] = b.c[i]
  <2> DEFINE r == a.c[i]
             s == b.c[i]
  <2>1. SameRow(r, s) /\ IsRow(r) /\ IsRow(s)
    BY <1>1
  <2>2. ASSUME NEW j \in DOMAIN r.c
        PROVE  r.c[j] = s.c[j]
    <3> DEFINE d == r.c[j]
               e == s.c[j]
    <3>1. SameCell(d, e) /\ IsCell(d) /\ IsCell(e)
      BY <2>1 DEF SameRow, IsRow
    <3>2. ASSUME NEW n \in DOMAIN d.c
          PROVE  d.c[n] = e.c[n]
      <4> DEFINE p == <<i, j, n>>
      <4>1. p \in BlocksOf(r, i)
        BY DEF BlocksOf
      <4>2. p \in BlockPlaces(a)
        BY <4>1 DEF BlockPlaces
      <4>3. BlockIn(a, p) = BlockIn(b, p)
        BY <4>2
      <4>4. BlockIn(a, p) = d.c[n] /\ BlockIn(b, p) = e.c[n]
        BY DEF BlockIn, CellIn
      <4>5. QED
        BY <4>3, <4>4
    <3> HIDE DEF d, e
    <3>3. DOMAIN d.c = DOMAIN e.c /\ d.k = e.k /\ d.at = e.at /\ d.marks = e.marks
      BY <3>1 DEF SameCell
    <3>4. d.c = e.c
      BY <3>1, <3>2, <3>3 DEF IsCell, IsSequence
    <3>5. d = e
      BY <3>1, <3>3, <3>4 DEF IsCell, IsNode
    <3>6. QED
      BY <3>5 DEF d, e
  <2> HIDE DEF r, s
  <2>3. DOMAIN r.c = DOMAIN s.c /\ r.k = s.k /\ r.at = s.at /\ r.marks = s.marks
    BY <2>1 DEF SameRow
  <2>4. r.c = s.c
    BY <2>1, <2>2, <2>3 DEF IsRow, IsSequence
  <2>5. r = s
    BY <2>1, <2>3, <2>4 DEF IsRow, IsNode
  <2>6. QED
    BY <2>5 DEF r, s
<1>3. a.c = b.c
  BY <1>1, <1>2 DEF IsTable, IsSequence
<1>4. QED
  BY <1>1, <1>3 DEF IsTable, IsNode

\* Every mark that aligns a block says which way.
SaysWhere(block) == \A i \in AlignMarks(block) : block.marks[i].v # ""

LEMMA MarkFound ==
    ASSUME NEW block, IsBlock(block), SaysWhere(block), AlignMarks(block) # {}
    PROVE  BlockAlignMark(block) # ""
<1>1. AlignMarks(block) \in SUBSET Nat
  BY AlignMarksOf
<1>2. Min(AlignMarks(block)) \in AlignMarks(block)
  BY <1>1, Least
<1>3. QED
  BY <1>2 DEF BlockAlignMark, SaysWhere

Spoken(block) == AlignMarks(block) # {} => BlockAlignMark(block) # ""
SaysOtherwise(block, won) == ~(won # "" /\ Alignable(block) /\ BlockAlignMark(block) = won)
ReadBack(block, mark, new, won, read) ==
    /\ IsBlock(block) /\ Spoken(block) /\ SaysOtherwise(block, won)
    /\ new = MarkBlock(block, mark) /\ (won = "" \/ won = mark)
    /\ read = UnmarkBlock(new, won) \/ read = new

\* A block that does not say what its column won is sent, read and sent the same way.
LEMMA SentAgain ==
    ASSUME NEW block, NEW mark, NEW new, NEW won, NEW read, ReadBack(block, mark, new, won, read)
    PROVE  MarkBlock(read, mark) = new
<1>0. /\ IsBlock(block) /\ Spoken(block) /\ SaysOtherwise(block, won)
      /\ new = MarkBlock(block, mark) /\ (won = "" \/ won = mark)
      /\ read = UnmarkBlock(new, won) \/ read = new
  BY DEF ReadBack
<1>1. CASE BlockAlignMark(block) # "" \/ mark = "" \/ ~Alignable(block)
  <2>1. new = block
    BY <1>0, <1>1 DEF MarkBlock
  <2>2. read = block
    BY <1>0, <2>1 DEF UnmarkBlock, SaysOtherwise
  <2>3. QED
    BY <1>0, <2>1, <2>2
<1>2. CASE ~(BlockAlignMark(block) # "" \/ mark = "" \/ ~Alignable(block))
  <2>1. BlockAlignMark(block) = "" /\ mark # "" /\ Alignable(block) /\ AlignMarks(block) = {}
    BY <1>0, <1>2 DEF Spoken
  <2>2. BlockAlignMark(new) = mark /\ UnmarkBlock(new, mark) = block
    BY <1>0, <2>1, MarkTakenBack
  <2>3. MarkBlock(new, mark) = new
    BY <2>1, <2>2 DEF MarkBlock
  <2>4. CASE won = ""
    <3>1. read = new
      BY <1>0, <2>4 DEF UnmarkBlock
    <3>2. QED
      BY <2>3, <3>1
  <2>5. CASE won = mark
    BY <1>0, <2>2, <2>3, <2>5
  <2>6. QED
    BY <1>0, <2>4, <2>5
<1>3. QED
  BY <1>1, <1>2

\* A page is sent a second time as it was sent the first time: reading it back and
\* sending it again, with nothing changed, changes nothing on the server.
THEOREM TableSettles ==
    ASSUME NEW table, IsTable(table), table.at.align = <<>>,
           \A p \in BlockPlaces(table) : SaysWhere(BlockIn(table, p)),
           NEW sent, sent = LowerTable(LiftTable(table))
    PROVE  LowerTable(LiftTable(sent)) = sent
<1> DEFINE align == LiftedColumns(table)
           columns == TableCellColumns(table)
           pulled == LiftTable(table)
           read == LiftTable(sent)
           again == LowerTable(read)
<1>1. CASE ~Earns(align)
  BY <1>1, NothingEarned
<1>2. CASE Earns(align)
  <2>1. PulledAndPushed(table, align, pulled, sent) /\ columns = TableCellColumns(table) /\ align = LiftedColumns(table)
    BY <1>2 DEF PulledAndPushed
  <2> HIDE DEF align, columns, pulled
  <2>2. /\ IsTable(sent) /\ SameTable(table, pulled) /\ SameTable(pulled, sent) /\ sent.at.align = <<>>
        /\ \A p \in BlockPlaces(table) : BlockPulledAndPushed(table, columns, align, pulled, sent, p)
    BY <2>1, RoundTrip
  <2>3. align = LiftedColumns(sent)
    BY <2>1, ColumnsSettle
  <2>4. /\ TableCellColumns(pulled) = columns /\ BlockPlaces(pulled) = BlockPlaces(table)
        /\ \A p \in BlockPlaces(table) : CellSpan(CellIn(pulled, p)) = CellSpan(CellIn(table, p))
    BY <2>1, <2>2, SameColumns
  <2>5. /\ TableCellColumns(sent) = columns /\ BlockPlaces(sent) = BlockPlaces(table)
        /\ \A p \in BlockPlaces(table) : CellSpan(CellIn(sent, p)) = CellSpan(CellIn(table, p))
    BY <2>2, <2>4, SameColumns
  <2>6. PulledAndPushed(sent, align, read, again)
    BY <1>2, <2>3 DEF PulledAndPushed
  <2> HIDE DEF read, again
  <2>7. /\ IsTable(again) /\ SameTable(sent, read) /\ SameTable(read, again) /\ again.at = sent.at
        /\ \A p \in BlockPlaces(sent) : BlockPulledAndPushed(sent, columns, align, read, again, p)
    BY <2>2, <2>5, <2>6, RoundTrip
  <2>8. ASSUME NEW p \in BlockPlaces(table)
        PROVE  BlockIn(again, p) = BlockIn(sent, p)
    <3> DEFINE block == BlockIn(table, p)
               first == BlockIn(pulled, p)
               new == BlockIn(sent, p)
               back == BlockIn(read, p)
               single == IsSingle(table, p)
               mark == BlockMark(table, columns, align, p)
               given == ColumnMark(align, columns[p[1]][p[2]])
               won == IF single THEN given ELSE ""
    <3>1. BlockPulledAndPushed(table, columns, align, pulled, sent, p) /\ BlockPulledAndPushed(sent, columns, align, read, again, p)
      BY <2>2, <2>5, <2>7
    <3>2. IsSingle(sent, p) <=> single
      BY <2>5 DEF IsSingle
    <3>3. BlockMark(sent, columns, align, p) = mark
      BY <2>5 DEF BlockMark
    <3>4. /\ first = IF single THEN UnmarkBlock(block, given) ELSE block
          /\ new = MarkBlock(first, mark) /\ IsBlock(block) /\ IsBlock(first)
      BY <3>1 DEF BlockPulledAndPushed
    <3>5. /\ back = IF single THEN UnmarkBlock(new, given) ELSE new
          /\ BlockIn(again, p) = MarkBlock(back, mark)
      BY <3>1, <3>2, <3>3 DEF BlockPulledAndPushed
    <3>6. SaysWhere(block)
      OBVIOUS
    <3>7. single /\ given # "" => mark = given
      BY <2>1, MarkOfBlock
    <3> HIDE DEF block, first, new, back, single, mark, given
    <3>8. won = "" \/ won = mark
      BY <3>7
    <3>9. /\ AlignMarks(first) # {} => BlockAlignMark(first) # ""
          /\ ~(won # "" /\ Alignable(first) /\ BlockAlignMark(first) = won)
      <4>1. CASE first = block
        <5>1. AlignMarks(first) # {} => BlockAlignMark(first) # ""
          BY <3>4, <3>6, <4>1, MarkFound
        <5>2. ~(won # "" /\ Alignable(first) /\ BlockAlignMark(first) = won)
          <6>1. SUFFICES ASSUME won # "", Alignable(block), BlockAlignMark(block) = won
                         PROVE  FALSE
            BY <4>1
          <6>2. single /\ won = given
            BY <6>1
          <6>3. BlockAlignMark(first) = ""
            BY <3>4, <6>1, <6>2, UnmarkedBlock
          <6>4. QED
            BY <4>1, <6>1, <6>3
        <5>3. QED
          BY <5>1, <5>2
      <4>2. CASE first # block
        <5>1. single /\ first = UnmarkBlock(block, given)
          BY <3>4, <4>2
        <5>2. given # "" /\ Alignable(block) /\ BlockAlignMark(block) = given
          BY <4>2, <5>1 DEF UnmarkBlock
        <5>3. AlignMarks(first) = {} /\ BlockAlignMark(first) = ""
          BY <3>4, <5>1, <5>2, UnmarkedBlock
        <5>4. QED
          BY <5>3
      <4>3. QED
        BY <4>1, <4>2
    <3>10. back = UnmarkBlock(new, won) \/ back = new
      BY <3>5
    <3> HIDE DEF won
    <3>11. MarkBlock(back, mark) = new
      <4>1. new = MarkBlock(first, mark) /\ IsBlock(first) /\ Spoken(first) /\ SaysOtherwise(first, won)
        BY <3>4, <3>9 DEF Spoken, SaysOtherwise
      <4>2. ReadBack(first, mark, new, won, back)
        BY <3>8, <3>10, <4>1 DEF ReadBack
      <4>3. QED
        BY <4>2, SentAgain
    <3>12. QED
      BY <3>5, <3>11 DEF new
  <2>9. SameTable(sent, again)
    BY <2>7, SameToo
  <2>10. again = sent
    BY <2>2, <2>5, <2>7, <2>8, <2>9, SameBlocks
  <2>11. QED
    BY <2>10 DEF again, read
<1>3. QED
  BY <1>1, <1>2
------------------------------------------------------------------------------
(* Where the cells stand. *)

\* Columns, what cells extend over, and what a row has come to between two cells: the
\* column after the last one, and how long each column is still held.
Place == Nat \ {0}
Extents == [cols : Place, rows : Place]
Rows == {acc \in [next : Place, covered : Seq(Nat)] : acc.next <= Len(acc.covered) + 1}

LEMMA RowTyped ==
    ASSUME NEW acc \in Rows
    PROVE  /\ acc.next \in Place /\ acc.next \in Nat /\ acc.next <= Len(acc.covered) + 1
           /\ acc.covered \in Seq(Nat) /\ Len(acc.covered) \in Nat
  BY DEF Rows, Place

\* The next cell begins at or past where the last one ended, where nothing stands.
LEMMA Free ==
    ASSUME NEW acc \in Rows, NEW col, col = CellColumn(acc)
    PROVE  /\ col \in Place /\ acc.next <= col /\ col <= Len(acc.covered) + 1
           /\ col <= Len(acc.covered) => acc.covered[col] = 0
<1> DEFINE covered == acc.covered
           free == {c \in acc.next..Furthest(Len(covered) + 1, acc.next) : c > Len(covered) \/ covered[c] = 0}
<1>1. acc.next \in Place /\ covered \in Seq(Nat) /\ Len(covered) \in Nat /\ acc.next <= Len(covered) + 1
  BY DEF Rows, Place
<1>2. Furthest(Len(covered) + 1, acc.next) = Len(covered) + 1
  BY <1>1 DEF Furthest, Place
<1>3. Len(covered) + 1 \in free
  BY <1>1, <1>2 DEF Place
<1>4. free \in SUBSET Nat
  BY <1>1, <1>2 DEF Place
<1>5. col = Min(free)
  BY DEF CellColumn, FreeFrom
<1>6. col \in free
  <2> HIDE DEF free
  <2>1. QED
    BY <1>3, <1>4, <1>5, Least
<1>7. QED
  BY <1>1, <1>2, <1>6 DEF Place

\* The columns a cell lies on. It holds them for as many rows as it spans, and leaves
\* the others.
On(col, span) == col..(col + span.cols - 1)
Holds(acc, span, col, new) ==
    /\ new \in Rows /\ new.next = col + span.cols /\ Len(acc.covered) <= Len(new.covered)
    /\ \A c \in On(col, span) : c \in 1..Len(new.covered) /\ new.covered[c] = span.rows
    /\ \A c \in 1..Len(acc.covered) : c < col \/ new.next <= c => new.covered[c] = acc.covered[c]
LEMMA Put ==
    ASSUME NEW acc \in Rows, NEW span \in Extents, NEW col, col = CellColumn(acc), NEW new, new = PutCell(acc, span)
    PROVE  Holds(acc, span, col, new)
<1> DEFINE end == col + span.cols - 1
           more == [c \in 1..Furthest(Len(acc.covered), end) |-> IF c \in col..end THEN span.rows ELSE acc.covered[c]]
           length == Furthest(Len(acc.covered), end)
<1>1. /\ acc.next \in Place /\ acc.covered \in Seq(Nat) /\ Len(acc.covered) \in Nat
      /\ span.cols \in Place /\ span.rows \in Place
  BY DEF Rows, Extents
<1>2. col \in Place /\ col <= Len(acc.covered) + 1
  BY Free
<1>3. new = [next |-> end + 1, covered |-> more]
  BY DEF PutCell
<1>4. length \in Nat /\ Len(acc.covered) <= length /\ end <= length /\ end \in Place
  <2>1. end \in Place
    BY <1>1, <1>2 DEF Place
  <2> HIDE DEF end
  <2>2. QED
    BY <1>1, <2>1 DEF Furthest, Place
<1>5. ASSUME NEW c \in 1..length
      PROVE  more[c] \in Nat /\ (c \in col..end => more[c] = span.rows) /\ (c \notin col..end => more[c] = acc.covered[c])
  <2>1. CASE c \in col..end
    BY <1>1, <2>1 DEF Place
  <2>2. CASE c \notin col..end
    <3>1. c \in 1..Len(acc.covered)
      BY <1>1, <1>2, <1>4, <2>2 DEF Furthest, Place
    <3>2. QED
      BY <1>1, <2>2, <3>1
  <2>3. QED
    BY <2>1, <2>2
<1>6. more = [c \in 1..length |-> more[c]]
  OBVIOUS
<1> HIDE DEF length, more
<1>7. more \in Seq(Nat) /\ Len(more) = length
  <2>1. more \in [1..length -> Nat]
    BY <1>5, <1>6
  <2>2. QED
    BY <1>4, <2>1
<1>8. new.next = end + 1 /\ new.covered = more
  BY <1>3
<1>9. new \in Rows
  BY <1>3, <1>4, <1>7 DEF Rows, Place
<1>10. \A c \in col..end : c \in 1..Len(more) /\ more[c] = span.rows
  BY <1>1, <1>2, <1>4, <1>5, <1>7 DEF Place
<1>11. \A c \in 1..Len(acc.covered) : c < col \/ end + 1 <= c => more[c] = acc.covered[c]
  <2>1. ASSUME NEW c \in 1..Len(acc.covered), c < col \/ end + 1 <= c
        PROVE  c \in 1..length /\ c \notin col..end
    BY <1>1, <1>2, <1>4, <2>1 DEF Place
  <2>2. QED
    BY <1>5, <2>1
<1>12. end + 1 = col + span.cols
  BY <1>1, <1>2 DEF Place
<1>13. QED
  BY <1>4, <1>7, <1>8, <1>9, <1>10, <1>11, <1>12 DEF Holds, On

\* A row is filled cell by cell.
Fills(put, covered, spans) ==
    /\ \A n \in 0..Len(spans) : put[n] \in Rows
    /\ put[0] = [next |-> 1, covered |-> covered]
    /\ \A n \in 1..Len(spans) : put[n] = PutCell(put[n - 1], spans[n]) /\ spans[n] \in Extents
LEMMA Filled ==
    ASSUME NEW covered \in Seq(Nat), NEW spans \in Seq(Extents), NEW put, put = FilledRow(covered, spans)
    PROVE  Fills(put, covered, spans)
<1> DEFINE base == [next |-> 1, covered |-> covered]
           N == Len(spans)
           step == [x \in Rows \X (1..N) |-> PutCell(x[1], spans[x[2]])]
<1>1. base \in Rows
  BY DEF Rows, Place
<1>2. N \in Nat /\ \A n \in 1..N : spans[n] \in Extents
  OBVIOUS
<1>3. step \in [Rows \X (1..N) -> Rows]
  <2>1. ASSUME NEW x \in Rows \X (1..N)
        PROVE  PutCell(x[1], spans[x[2]]) \in Rows
    <3>1. x[1] \in Rows /\ spans[x[2]] \in Extents
      BY <1>2
    <3> DEFINE col == CellColumn(x[1])
               new == PutCell(x[1], spans[x[2]])
    <3>2. Holds(x[1], spans[x[2]], col, new)
      BY <3>1, Put
    <3>3. QED
      BY <3>2 DEF Holds
  <2>2. QED
    BY <2>1
<1> HIDE DEF step, base
<1>4. PICK f : f = [n \in 0..N |-> IF n = 0 THEN base ELSE step[<<f[n - 1], n>>]]
  <2> HIDE DEF N
  <2>1. \E f : Steps(f, base, N, step)
    BY <1>1, <1>2, <1>3, StepByStep
  <2>2. QED
    BY <2>1 DEF Steps
<1>5. \A n \in 0..N : f[n] \in Rows
  <2> DEFINE holds == {n \in 0..N : f[n] \in Rows}
  <2>1. 0 \in holds
    BY <1>1, <1>2, <1>4
  <2>2. \A n \in 1..N : n - 1 \in holds => n \in holds
    BY <1>2, <1>3, <1>4
  <2> HIDE DEF holds
  <2>3. \A n \in 0..N : n \in holds
    BY <1>2, <2>1, <2>2, AllSteps
  <2>4. QED
    BY <2>3 DEF holds
<1>6. f = [n \in 0..N |-> IF n = 0 THEN base ELSE PutCell(f[n - 1], spans[n])]
  <2>1. ASSUME NEW n \in 0..N
        PROVE  f[n] = IF n = 0 THEN base ELSE PutCell(f[n - 1], spans[n])
    <3>1. CASE n = 0
      BY <1>4, <3>1
    <3>2. CASE n # 0
      <4>1. n \in 1..N /\ n - 1 \in 0..N /\ f[n - 1] \in Rows
        BY <1>2, <1>5, <3>2
      <4>2. step[<<f[n - 1], n>>] = PutCell(f[n - 1], spans[n])
        BY <4>1 DEF step
      <4>3. QED
        BY <1>4, <3>2, <4>2
    <3>3. QED
      BY <3>1, <3>2
  <2>2. f = [n \in 0..N |-> f[n]]
    BY <1>4
  <2>3. QED
    BY <2>1, <2>2
<1>7. put = [n \in 0..N |-> IF n = 0 THEN base ELSE PutCell(put[n - 1], spans[n])]
  BY <1>6 DEF FilledRow, base
<1>8. put[0] = base /\ \A n \in 1..N : put[n] = PutCell(put[n - 1], spans[n])
  BY <1>2, <1>7
<1>9. \A n \in 0..N : put[n] \in Rows
  <2> DEFINE holds == {n \in 0..N : put[n] \in Rows}
  <2>1. 0 \in holds
    BY <1>1, <1>2, <1>8
  <2>2. \A n \in 1..N : n - 1 \in holds => n \in holds
    <3>1. ASSUME NEW n \in 1..N, n - 1 \in holds
          PROVE  n \in holds
      <4>1. put[n - 1] \in Rows /\ spans[n] \in Extents /\ put[n] = PutCell(put[n - 1], spans[n])
        BY <1>2, <1>8, <3>1
      <4>2. Holds(put[n - 1], spans[n], CellColumn(put[n - 1]), put[n])
        BY <4>1, Put
      <4>3. QED
        BY <1>2, <4>2 DEF Holds
    <3>2. QED
      BY <3>1
  <2> HIDE DEF holds
  <2>3. \A n \in 0..N : n \in holds
    BY <1>2, <2>1, <2>2, AllSteps
  <2>4. QED
    BY <2>3 DEF holds
<1>10. QED
  BY <1>2, <1>8, <1>9 DEF base, Fills

\* Within a row each cell begins where the one before it ended, or further on.
LEMMA SideBySide ==
    ASSUME NEW covered \in Seq(Nat), NEW spans \in Seq(Extents), NEW put, put = FilledRow(covered, spans),
           NEW cols, cols = RowColumns(covered, spans)
    PROVE  /\ \A j \in 1..Len(spans) : cols[j] = CellColumn(put[j - 1]) /\ cols[j] \in Place
                                       /\ put[j].next = cols[j] + spans[j].cols
           /\ \A j \in 1..Len(spans) : \A k \in j..Len(spans) : put[j].next <= put[k].next
           /\ \A j, k \in 1..Len(spans) : j < k => put[j].next <= cols[k]
<1> DEFINE N == Len(spans)
<1>1. N \in Nat /\ DOMAIN spans = 1..N
  OBVIOUS
<1>2. /\ \A n \in 0..N : put[n] \in Rows
      /\ \A n \in 1..N : put[n] = PutCell(put[n - 1], spans[n]) /\ spans[n] \in Extents
  <2>1. Fills(put, covered, spans)
    BY Filled
  <2>2. QED
    BY <2>1 DEF Fills
<1>3. \A j \in 1..N : cols[j] = CellColumn(put[j - 1])
  BY <1>1 DEF RowColumns
<1>4. ASSUME NEW j \in 1..N
      PROVE  /\ cols[j] \in Place /\ put[j].next = cols[j] + spans[j].cols
             /\ put[j - 1].next <= cols[j] /\ put[j - 1].next <= put[j].next /\ put[j].next \in Nat
  <2>1. j - 1 \in 0..N /\ j \in 0..N
    BY <1>1
  <2>2. put[j - 1] \in Rows /\ put[j] \in Rows /\ spans[j] \in Extents /\ put[j] = PutCell(put[j - 1], spans[j])
    BY <1>2, <2>1
  <2>3. cols[j] \in Place /\ put[j - 1].next <= cols[j]
    BY <1>3, <2>2, Free
  <2>4. put[j].next = cols[j] + spans[j].cols
    <3>1. Holds(put[j - 1], spans[j], cols[j], put[j])
      BY <1>3, <2>2, Put
    <3>2. QED
      BY <3>1 DEF Holds
  <2>5. spans[j].cols \in Nat /\ put[j - 1].next \in Nat /\ put[j].next \in Nat
    BY <2>2 DEF Extents, Rows, Place
  <2>6. QED
    BY <2>3, <2>4, <2>5 DEF Place
<1>5. ASSUME NEW j \in 1..N, NEW k \in j..N
      PROVE  put[j].next <= put[k].next
  <2> DEFINE holds == {n \in 0..N : n < j \/ put[j].next <= put[n].next}
  <2>1. 0 \in holds
    BY <1>1
  <2>2. ASSUME NEW n \in 1..N, n - 1 \in holds
        PROVE  n \in holds
    <3>1. CASE n < j
      BY <1>1, <3>1
    <3>2. CASE n = j
      BY <1>1, <1>4, <3>2
    <3>3. CASE n > j
      <4>1. put[j].next <= put[n - 1].next
        BY <2>2, <3>3
      <4>2. put[n - 1].next <= put[n].next /\ put[n].next \in Nat
        BY <1>4
      <4>3. n - 1 \in 1..N
        BY <1>1, <3>3
      <4>4. put[n - 1].next \in Nat /\ put[j].next \in Nat
        BY <1>4, <4>3
      <4>5. put[j].next <= put[n].next
        BY <4>1, <4>2, <4>4
      <4>6. QED
        BY <1>1, <4>5
    <3>4. QED
      BY <1>1, <3>1, <3>2, <3>3
  <2> HIDE DEF holds
  <2>3. \A n \in 0..N : n \in holds
    BY <1>1, <2>1, <2>2, AllSteps
  <2>4. k \in holds /\ ~(k < j)
    BY <1>1, <2>3
  <2>5. QED
    BY <2>4 DEF holds
<1>6. ASSUME NEW j \in 1..N, NEW k \in 1..N, j < k
      PROVE  put[j].next <= cols[k]
  <2>1. k - 1 \in j..N /\ k - 1 \in 1..N
    BY <1>1, <1>6
  <2>2. put[j].next <= put[k - 1].next /\ put[k - 1].next <= cols[k]
    BY <1>4, <1>5, <2>1
  <2>3. put[j].next \in Nat /\ put[k - 1].next \in Nat /\ cols[k] \in Nat
    BY <1>4, <2>1 DEF Place
  <2>4. QED
    BY <2>2, <2>3
<1>7. QED
  BY <1>3, <1>4, <1>5, <1>6

\* What a cell holds stays held to the end of the row.
Left(covered, c, left) == c \in 1..Len(covered) /\ covered[c] = left
LEMMA HeldInRow ==
    ASSUME NEW covered \in Seq(Nat), NEW spans \in Seq(Extents), NEW put, put = FilledRow(covered, spans),
           NEW cols, cols = RowColumns(covered, spans),
           NEW j \in 1..Len(spans), NEW c \in On(cols[j], spans[j]), NEW k \in j..Len(spans)
    PROVE  Left(put[k].covered, c, spans[j].rows)
<1> DEFINE N == Len(spans)
           holds == {n \in 0..N : n < j \/ (c \in 1..Len(put[n].covered) /\ put[n].covered[c] = spans[j].rows)}
<1>1. N \in Nat
  OBVIOUS
<1>2. /\ \A n \in 0..N : put[n] \in Rows
      /\ \A n \in 1..N : put[n] = PutCell(put[n - 1], spans[n]) /\ spans[n] \in Extents
  <2>1. Fills(put, covered, spans)
    BY Filled
  <2>2. QED
    BY <2>1 DEF Fills
<1>3. /\ \A n \in 1..N : cols[n] = CellColumn(put[n - 1]) /\ cols[n] \in Place
                         /\ put[n].next = cols[n] + spans[n].cols
      /\ \A n \in 1..N : j < n => put[j].next <= cols[n]
  BY SideBySide
<1>4. c < put[j].next /\ c \in Nat
  <2>1. cols[j] \in Nat /\ spans[j].cols \in Nat /\ put[j].next = cols[j] + spans[j].cols
    BY <1>2, <1>3 DEF Extents, Place
  <2>2. QED
    BY <2>1 DEF On
<1>5. 0 \in holds
  BY <1>1
<1>6. ASSUME NEW n \in 1..N, n - 1 \in holds
      PROVE  n \in holds
  <2>1. /\ Holds(put[n - 1], spans[n], cols[n], put[n])
        /\ put[n - 1] \in Rows /\ put[n] \in Rows
    <3>1. n \in 0..N /\ n - 1 \in 0..N
      BY <1>1
    <3>2. /\ put[n - 1] \in Rows /\ put[n] \in Rows /\ spans[n] \in Extents
          /\ put[n] = PutCell(put[n - 1], spans[n]) /\ cols[n] = CellColumn(put[n - 1])
      BY <1>2, <1>3, <3>1
    <3>3. QED
      BY <3>2, Put
  <2>2. CASE n < j
    BY <1>1, <2>2
  <2>3. CASE n = j
    <3>1. c \in 1..Len(put[n].covered) /\ put[n].covered[c] = spans[n].rows
      BY <2>1, <2>3 DEF Holds
    <3>2. QED
      BY <1>1, <2>3, <3>1
  <2>4. CASE n > j
    <3>1. c \in 1..Len(put[n - 1].covered) /\ put[n - 1].covered[c] = spans[j].rows
      BY <1>6, <2>4
    <3>2. put[j].next <= cols[n] /\ cols[n] \in Nat /\ put[j].next \in Nat
      BY <1>2, <1>3, <2>4 DEF Place, Rows
    <3>3. c < cols[n]
      BY <1>4, <3>2
    <3>4. put[n].covered[c] = put[n - 1].covered[c] /\ Len(put[n - 1].covered) <= Len(put[n].covered)
      BY <2>1, <3>1, <3>3 DEF Holds
    <3>5. Len(put[n - 1].covered) \in Nat /\ Len(put[n].covered) \in Nat
      BY <2>1, RowTyped
    <3>6. c \in 1..Len(put[n].covered)
      BY <3>1, <3>4, <3>5
    <3>7. QED
      BY <1>1, <3>1, <3>4, <3>6
  <2>5. QED
    BY <1>1, <2>2, <2>3, <2>4
<1> HIDE DEF holds
<1>7. \A n \in 0..N : n \in holds
  BY <1>1, <1>5, <1>6, AllSteps
<1>8. k \in holds /\ ~(k < j)
  BY <1>1, <1>7
<1>9. QED
  BY <1>8 DEF holds, Left

\* What no cell of the row lies on stays as the rows above left it.
LEMMA LeftInRow ==
    ASSUME NEW covered \in Seq(Nat), NEW spans \in Seq(Extents), NEW put, put = FilledRow(covered, spans),
           NEW cols, cols = RowColumns(covered, spans), NEW c \in 1..Len(covered), NEW k \in 0..Len(spans),
           \A j \in 1..k : c \notin On(cols[j], spans[j])
    PROVE  Left(put[k].covered, c, covered[c])
<1> DEFINE holds == {n \in 0..k : c \in 1..Len(put[n].covered) /\ put[n].covered[c] = covered[c]}
<1>1. k \in Nat /\ Len(spans) \in Nat /\ k <= Len(spans)
  OBVIOUS
<1>2. /\ \A n \in 0..Len(spans) : put[n] \in Rows
      /\ put[0] = [next |-> 1, covered |-> covered]
      /\ \A n \in 1..Len(spans) : put[n] = PutCell(put[n - 1], spans[n]) /\ spans[n] \in Extents
  BY Filled DEF Fills
<1>3. \A n \in 1..Len(spans) : cols[n] = CellColumn(put[n - 1]) /\ cols[n] \in Place
                               /\ put[n].next = cols[n] + spans[n].cols
  BY SideBySide
<1>4. 0 \in holds
  BY <1>1, <1>2
<1>5. ASSUME NEW n \in 1..k, n - 1 \in holds
      PROVE  n \in holds
  <2>1. n \in 1..Len(spans) /\ n - 1 \in 0..Len(spans) /\ n \in 0..Len(spans)
    BY <1>1
  <2>2. /\ put[n - 1] \in Rows /\ put[n] \in Rows /\ spans[n] \in Extents
        /\ put[n] = PutCell(put[n - 1], spans[n]) /\ cols[n] = CellColumn(put[n - 1])
        /\ cols[n] \in Nat /\ spans[n].cols \in Nat /\ put[n].next = cols[n] + spans[n].cols
    BY <1>2, <1>3, <2>1 DEF Place, Extents
  <2>3. c \in 1..Len(put[n - 1].covered) /\ put[n - 1].covered[c] = covered[c]
    BY <1>5
  <2>4. c < cols[n] \/ put[n].next <= c
    <3>1. c \notin On(cols[n], spans[n]) /\ c \in Nat
      OBVIOUS
    <3>2. QED
      BY <2>2, <3>1 DEF On
  <2>5. put[n].covered[c] = put[n - 1].covered[c] /\ Len(put[n - 1].covered) <= Len(put[n].covered)
    <3>1. Holds(put[n - 1], spans[n], cols[n], put[n])
      BY <2>2, Put
    <3>2. QED
      BY <2>3, <2>4, <3>1 DEF Holds
  <2>6. Len(put[n - 1].covered) \in Nat /\ Len(put[n].covered) \in Nat
    BY <2>2, RowTyped
  <2>7. c \in 1..Len(put[n].covered)
    BY <2>3, <2>5, <2>6
  <2>8. QED
    BY <2>3, <2>5, <2>7
<1> HIDE DEF holds
<1>6. \A n \in 0..k : n \in holds
  BY <1>1, <1>4, <1>5, AllSteps
<1>7. k \in holds
  BY <1>1, <1>6
<1>8. QED
  BY <1>7 DEF holds, Left

\* What the rows so far hold of the next ones.
Ages(held, next) ==
    /\ held \in Seq(Nat) /\ next \in Seq(Nat) /\ Len(next) = Len(held)
    /\ \A c \in 1..Len(held) : next[c] = IF held[c] > 0 THEN held[c] - 1 ELSE 0
LEMMA Aged ==
    ASSUME NEW held, NEW next, Ages(held, next), NEW c, NEW left \in Nat, Left(held, c, left), left > 0
    PROVE  Left(next, c, left - 1)
  BY DEF Left, Ages
LEMMA NextHeld ==
    ASSUME NEW covered \in Seq(Nat), NEW spans \in Seq(Extents), NEW put, put = FilledRow(covered, spans),
           NEW held, held = put[Len(spans)].covered, NEW next, next = NextRow(covered, spans)
    PROVE  Ages(held, next)
<1>1. held \in Seq(Nat) /\ Len(held) \in Nat /\ DOMAIN held = 1..Len(held)
  <2>1. Len(spans) \in 0..Len(spans)
    OBVIOUS
  <2>2. put[Len(spans)] \in Rows
    BY <2>1, Filled DEF Fills
  <2>3. held \in Seq(Nat)
    BY <2>2 DEF Rows
  <2>4. QED
    BY <2>3
<1>2. next = [c \in 1..Len(held) |-> IF held[c] > 0 THEN held[c] - 1 ELSE 0]
  BY <1>1 DEF NextRow
<1>3. \A c \in 1..Len(held) : next[c] = (IF held[c] > 0 THEN held[c] - 1 ELSE 0) /\ next[c] \in Nat
  BY <1>1, <1>2
<1>4. next \in [1..Len(held) -> Nat]
  BY <1>2, <1>3
<1>5. next \in Seq(Nat) /\ Len(next) = Len(held)
  <2> DEFINE N == Len(held)
  <2>1. N \in Nat /\ next \in [1..N -> Nat]
    BY <1>1, <1>4
  <2> HIDE DEF N
  <2>2. next \in Seq(Nat) /\ Len(next) = N
    BY <2>1
  <2>3. QED
    BY <2>2 DEF N
<1>6. QED
  BY <1>1, <1>3, <1>5 DEF Ages

LEMMA CoveredRows ==
    ASSUME NEW spans \in Seq(Seq(Extents)), NEW covered, covered = CoveredAfter(spans)
    PROVE  /\ \A n \in 0..Len(spans) : covered[n] \in Seq(Nat)
           /\ \A n \in 1..Len(spans) : covered[n] = NextRow(covered[n - 1], spans[n]) /\ spans[n] \in Seq(Extents)
<1> DEFINE N == Len(spans)
           S == Seq(Nat)
           step == [x \in S \X (1..N) |-> NextRow(x[1], spans[x[2]])]
<1>1. <<>> \in S
  OBVIOUS
<1>2. N \in Nat /\ \A n \in 1..N : spans[n] \in Seq(Extents)
  OBVIOUS
<1>3. ASSUME NEW x \in S, NEW n \in 1..N
      PROVE  NextRow(x, spans[n]) \in S
  <2> DEFINE put == FilledRow(x, spans[n])
             held == put[Len(spans[n])].covered
             next == NextRow(x, spans[n])
  <2>1. x \in Seq(Nat) /\ spans[n] \in Seq(Extents) /\ put = FilledRow(x, spans[n]) /\ held = put[Len(spans[n])].covered
        /\ next = NextRow(x, spans[n])
    BY <1>2
  <2> HIDE DEF put, held, next
  <2>2. next \in Seq(Nat)
    <3>1. Ages(held, next)
      BY <2>1, NextHeld
    <3>2. QED
      BY <3>1 DEF Ages
  <2>3. QED
    BY <2>2 DEF next
<1>4. step \in [S \X (1..N) -> S]
  BY <1>3
<1> HIDE DEF step, S, N
<1>5. PICK f : f = [n \in 0..N |-> IF n = 0 THEN <<>> ELSE step[<<f[n - 1], n>>]]
  <2>1. \E f : Steps(f, <<>>, N, step)
    BY <1>1, <1>2, <1>4, StepByStep
  <2>2. QED
    BY <2>1 DEF Steps
<1>6. \A n \in 0..N : f[n] \in S
  <2> DEFINE holds == {n \in 0..N : f[n] \in S}
  <2>1. 0 \in holds
    BY <1>1, <1>2, <1>5
  <2>2. \A n \in 1..N : n - 1 \in holds => n \in holds
    BY <1>2, <1>4, <1>5
  <2> HIDE DEF holds
  <2>3. \A n \in 0..N : n \in holds
    BY <1>2, <2>1, <2>2, AllSteps
  <2>4. QED
    BY <2>3 DEF holds
<1>7. f = [n \in 0..N |-> IF n = 0 THEN <<>> ELSE NextRow(f[n - 1], spans[n])]
  <2>1. ASSUME NEW n \in 0..N
        PROVE  f[n] = IF n = 0 THEN <<>> ELSE NextRow(f[n - 1], spans[n])
    <3>1. CASE n = 0
      BY <1>5, <3>1
    <3>2. CASE n # 0
      <4>1. n \in 1..N /\ n - 1 \in 0..N /\ f[n - 1] \in S
        BY <1>2, <1>6, <3>2
      <4>2. step[<<f[n - 1], n>>] = NextRow(f[n - 1], spans[n])
        BY <4>1 DEF step
      <4>3. QED
        BY <1>5, <3>2, <4>2
    <3>3. QED
      BY <3>1, <3>2
  <2>2. f = [n \in 0..N |-> f[n]]
    BY <1>5
  <2>3. QED
    BY <2>1, <2>2
<1>8. covered = [n \in 0..N |-> IF n = 0 THEN <<>> ELSE NextRow(covered[n - 1], spans[n])]
  BY <1>7 DEF CoveredAfter, N
<1>9. covered[0] = <<>> /\ \A n \in 1..N : covered[n] = NextRow(covered[n - 1], spans[n])
  BY <1>2, <1>8
<1>10. \A n \in 0..N : covered[n] \in S
  <2> DEFINE holds == {n \in 0..N : covered[n] \in S}
  <2>1. 0 \in holds
    BY <1>1, <1>2, <1>9
  <2>2. \A n \in 1..N : n - 1 \in holds => n \in holds
    BY <1>2, <1>3, <1>9
  <2> HIDE DEF holds
  <2>3. \A n \in 0..N : n \in holds
    BY <1>2, <2>1, <2>2, AllSteps
  <2>4. QED
    BY <2>3 DEF holds
<1>11. QED
  BY <1>2, <1>9, <1>10 DEF S, N

\* One row of the whole: where its cells stand, and what it leaves to the next.
RowFilled(spans, covered, columns, i) ==
    /\ covered[i - 1] \in Seq(Nat) /\ spans[i] \in Seq(Extents)
    /\ columns[i] = RowColumns(covered[i - 1], spans[i])
    /\ covered[i] = NextRow(covered[i - 1], spans[i])
LEMMA RowOf ==
    ASSUME NEW spans \in Seq(Seq(Extents)), NEW covered, covered = CoveredAfter(spans),
           NEW columns, columns = Columns(spans), NEW i \in 1..Len(spans)
    PROVE  RowFilled(spans, covered, columns, i)
<1>1. Len(spans) \in Nat /\ DOMAIN spans = 1..Len(spans) /\ i - 1 \in 0..Len(spans)
  OBVIOUS
<1>2. covered[i - 1] \in Seq(Nat) /\ spans[i] \in Seq(Extents) /\ covered[i] = NextRow(covered[i - 1], spans[i])
  BY <1>1, CoveredRows
<1>3. columns[i] = RowColumns(covered[i - 1], spans[i])
  BY <1>1 DEF Columns
<1>4. QED
  BY <1>2, <1>3 DEF RowFilled

LEMMA ExtentTyped ==
    ASSUME NEW span \in Extents
    PROVE  span.rows \in Nat /\ span.rows > 0 /\ span.cols \in Nat
<1>1. span.rows \in Place /\ span.cols \in Place
  BY DEF Extents
<1>2. QED
  BY <1>1 DEF Place

LEMMA ExtentOf ==
    ASSUME NEW spans \in Seq(Seq(Extents)), NEW i \in 1..Len(spans), NEW j \in 1..Len(spans[i])
    PROVE  /\ spans[i] \in Seq(Extents) /\ Len(spans[i]) \in Nat
           /\ spans[i][j].rows \in Nat /\ spans[i][j].rows > 0
<1> DEFINE row == spans[i]
<1>1. row \in Seq(Extents) /\ j \in 1..Len(row)
  OBVIOUS
<1> HIDE DEF row
<1>2. row[j] \in Extents /\ Len(row) \in Nat
  BY <1>1
<1>3. row[j].rows \in Nat /\ row[j].rows > 0
  BY <1>2, ExtentTyped
<1>4. QED
  BY <1>1, <1>2, <1>3 DEF row

\* No cell of the row lies on the column.
NoneOn(spans, columns, m, c) == \A j \in 1..Len(spans[m]) : c \notin On(columns[m][j], spans[m][j])

\* A cell holds its columns, row after row, as long as no cell of a later row lies
\* on them: what is left of its rows is what it was given less the rows passed.
LEMMA HeldAfter ==
    ASSUME NEW spans \in Seq(Seq(Extents)), NEW covered, covered = CoveredAfter(spans),
           NEW columns, columns = Columns(spans),
           NEW top \in 1..Len(spans), NEW cell \in 1..Len(spans[top]), NEW c \in On(columns[top][cell], spans[top][cell]),
           NEW n \in Nat, top + n <= Len(spans), n < spans[top][cell].rows,
           \A m \in (top + 1)..(top + n) : NoneOn(spans, columns, m, c)
    PROVE  Left(covered[top + n], c, spans[top][cell].rows - n - 1)
<1> DEFINE rows == spans[top][cell].rows
           holds == {d \in 0..n : Left(covered[top + d], c, rows - d - 1)}
<1>1. Len(spans) \in Nat /\ top \in Nat /\ \A m \in 1..Len(spans) : spans[m] \in Seq(Extents)
  <2>1. Len(spans) \in Nat
    OBVIOUS
  <2>2. \A m \in 1..Len(spans) : spans[m] \in Seq(Extents)
    OBVIOUS
  <2>3. top \in Nat
    BY <2>1
  <2>4. QED
    BY <2>1, <2>2, <2>3
<1>2. rows \in Nat /\ rows > 0 /\ Len(spans[top]) \in Nat
  BY ExtentOf
<1>3. 0 \in holds
  <2> DEFINE before == covered[top - 1]
             row == spans[top]
             put == FilledRow(before, row)
             held == put[Len(row)].covered
             next == NextRow(before, row)
  <2>1. before \in Seq(Nat) /\ row \in Seq(Extents) /\ columns[top] = RowColumns(before, row) /\ covered[top] = next
    <3>1. RowFilled(spans, covered, columns, top)
      BY RowOf
    <3>2. QED
      BY <3>1 DEF RowFilled
  <2>2. put = FilledRow(before, row) /\ held = put[Len(row)].covered /\ next = NextRow(before, row)
    OBVIOUS
  <2>3. Len(row) \in cell..Len(row) /\ cell \in 1..Len(row) /\ row[cell].rows = rows /\ c \in On(columns[top][cell], row[cell])
    BY <1>2
  <2> HIDE DEF put, held, next, before, rows, row
  <2>4. Left(held, c, rows)
    BY <2>1, <2>2, <2>3, HeldInRow
  <2>5. Ages(held, next)
    BY <2>1, <2>2, NextHeld
  <2>6. Left(next, c, rows - 1)
    BY <1>2, <2>4, <2>5, Aged
  <2>7. top + 0 = top /\ rows - 0 - 1 = rows - 1
    BY <1>1, <1>2
  <2>8. Left(covered[top + 0], c, rows - 0 - 1)
    BY <2>1, <2>6, <2>7
  <2>9. 0 \in 0..n
    OBVIOUS
  <2>10. QED
    BY <2>8, <2>9 DEF rows
<1>4. ASSUME NEW d \in 1..n, d - 1 \in holds
      PROVE  d \in holds
  <2> DEFINE m == top + d
             before == covered[m - 1]
             row == spans[m]
             put == FilledRow(before, row)
             held == put[Len(row)].covered
             next == NextRow(before, row)
  <2>1. m \in 1..Len(spans) /\ m \in (top + 1)..(top + n) /\ m - 1 = top + (d - 1)
    BY <1>1
  <2>2. Left(before, c, rows - (d - 1) - 1)
    BY <1>4, <2>1
  <2> HIDE DEF m
  <2>3. before \in Seq(Nat) /\ row \in Seq(Extents) /\ columns[m] = RowColumns(before, row) /\ covered[m] = next
    <3>1. m \in 1..Len(spans)
      BY <2>1
    <3>2. RowFilled(spans, covered, columns, m)
      BY <3>1, RowOf
    <3>3. QED
      BY <3>2 DEF RowFilled
  <2>4. put = FilledRow(before, row) /\ held = put[Len(row)].covered /\ next = NextRow(before, row)
    OBVIOUS
  <2>5. \A j \in 1..Len(row) : c \notin On(columns[m][j], row[j])
    BY <2>1 DEF NoneOn
  <2>6. Len(row) \in 0..Len(row)
    BY <2>3
  <2> HIDE DEF put, held, next, before, row, rows
  <2>7. before[c] = rows - (d - 1) - 1 /\ c \in 1..Len(before)
    BY <2>2 DEF Left
  <2>8. Left(held, c, before[c])
    BY <2>3, <2>4, <2>5, <2>6, <2>7, LeftInRow
  <2>9. Ages(held, next)
    BY <2>3, <2>4, NextHeld
  <2>10. n < rows
    BY DEF rows
  <2> HIDE DEF m
  <2>11. before[c] \in Nat /\ before[c] > 0 /\ before[c] - 1 = rows - d - 1
    <3> DEFINE left == before[c]
    <3>1. d \in Nat /\ d <= n
      OBVIOUS
    <3>2. left = rows - (d - 1) - 1
      BY <2>7
    <3> HIDE DEF left
    <3>3. d < rows
      BY <1>2, <2>10, <3>1
    <3>4. left \in Nat /\ left > 0 /\ left - 1 = rows - d - 1
      BY <1>2, <3>1, <3>2, <3>3
    <3>5. QED
      BY <3>4 DEF left
  <2>12. Left(next, c, before[c] - 1)
    BY <2>8, <2>9, <2>11, Aged
  <2>13. Left(covered[m], c, rows - d - 1)
    BY <2>3, <2>11, <2>12
  <2>14. Left(covered[top + d], c, rows - d - 1)
    BY <2>13 DEF m
  <2>15. QED
    BY <2>14
<1> HIDE DEF holds
<1>5. \A d \in 0..n : d \in holds
  BY <1>3, <1>4, AllSteps
<1>6. n \in holds
  BY <1>5
<1>7. QED
  BY <1>6 DEF holds

LEMMA PastIt ==
    ASSUME NEW col \in Nat, NEW span, span.cols \in Nat, NEW c \in Nat, col + span.cols <= c
    PROVE  c \notin On(col, span)
  BY DEF On

\* A cell does not begin on a column that a cell of a row above still holds.
LEMMA BeginsElsewhere ==
    ASSUME NEW covered \in Seq(Nat), NEW spans \in Seq(Extents), NEW cols, cols = RowColumns(covered, spans),
           NEW j \in 1..Len(spans), NEW c \in 1..Len(covered), covered[c] > 0
    PROVE  cols[j] # c
<1> DEFINE put == FilledRow(covered, spans)
<1>1. put = FilledRow(covered, spans)
  OBVIOUS
<1> HIDE DEF put
<1>2. SUFFICES ASSUME cols[j] = c
               PROVE  FALSE
  OBVIOUS
<1>3. /\ \A k \in 1..Len(spans) : cols[k] = CellColumn(put[k - 1]) /\ cols[k] \in Place
                                  /\ put[k].next = cols[k] + spans[k].cols
      /\ \A k \in 1..Len(spans) : k < j => put[k].next <= cols[j]
  BY <1>1, SideBySide
<1>4. Len(spans) \in Nat /\ j - 1 \in 0..Len(spans)
  OBVIOUS
<1>5. \A k \in 1..(j - 1) : c \notin On(cols[k], spans[k])
  <2>1. ASSUME NEW k \in 1..(j - 1)
        PROVE  c \notin On(cols[k], spans[k])
    <3>1. k \in 1..Len(spans) /\ k < j
      BY <1>4
    <3>2. spans[k] \in Extents /\ cols[k] \in Place
      BY <1>3, <3>1
    <3>3. cols[k] \in Nat /\ spans[k].cols \in Nat
      BY <3>2 DEF Extents, Place
    <3>4. cols[k] + spans[k].cols <= c
      BY <1>2, <1>3, <3>1
    <3>5. c \in Nat
      OBVIOUS
    <3>6. QED
      BY <3>3, <3>4, <3>5, PastIt
  <2>2. QED
    BY <2>1
<1>6. Left(put[j - 1].covered, c, covered[c])
  BY <1>1, <1>4, <1>5, LeftInRow
<1>7. put[j - 1] \in Rows
  <2>1. Fills(put, covered, spans)
    BY <1>1, Filled
  <2>2. QED
    BY <1>4, <2>1 DEF Fills
<1>8. c = CellColumn(put[j - 1])
  BY <1>2, <1>3
<1>9. c <= Len(put[j - 1].covered) => put[j - 1].covered[c] = 0
  BY <1>7, <1>8, Free
<1>10. Len(put[j - 1].covered) \in Nat
  BY <1>7, RowTyped
<1>11. put[j - 1].covered[c] = covered[c] /\ c <= Len(put[j - 1].covered)
  BY <1>6, <1>10 DEF Left
<1>12. QED
  BY <1>9, <1>11

(* Tables with numbers for spans. *)
IsGrid(table) ==
    /\ IsTable(table)
    /\ \A i \in DOMAIN table.c : \A j \in DOMAIN table.c[i].c :
           table.c[i].c[j].at.colspan \in Int /\ table.c[i].c[j].at.rowspan \in Int

\* The columns of a cell, and how many rows it is held for.
CellColumns(table, columns, i, j) == columns[i][j]..(columns[i][j] + CellSpan(table.c[i].c[j]) - 1)
CellRows(cell) == AtLeastOne(cell.at.rowspan)

LEMMA SpansOf ==
    ASSUME NEW table, IsGrid(table), NEW spans, spans = Spans(table)
    PROVE  /\ spans \in Seq(Seq(Extents)) /\ Len(spans) = Len(table.c) /\ DOMAIN table.c = 1..Len(spans)
           /\ \A i \in DOMAIN table.c :
                  /\ spans[i] = RowSpans(table.c[i])
                  /\ DOMAIN table.c[i].c = 1..Len(spans[i]) /\ Len(spans[i]) = Len(table.c[i].c)
                  /\ \A j \in DOMAIN table.c[i].c :
                         /\ spans[i][j].cols = CellSpan(table.c[i].c[j])
                         /\ spans[i][j].rows = CellRows(table.c[i].c[j])
<1>1. IsSequence(table.c) /\ DOMAIN table.c = 1..Len(table.c) /\ Len(table.c) \in Nat
  BY DEF IsGrid, IsTable, IsSequence
<1>2. spans = [i \in DOMAIN table.c |-> RowSpans(table.c[i])]
  BY DEF Spans
<1>3. ASSUME NEW i \in DOMAIN table.c
      PROVE  /\ spans[i] = RowSpans(table.c[i]) /\ spans[i] \in Seq(Extents)
             /\ DOMAIN table.c[i].c = 1..Len(spans[i]) /\ Len(spans[i]) = Len(table.c[i].c)
             /\ \A j \in DOMAIN table.c[i].c :
                    /\ spans[i][j].cols = CellSpan(table.c[i].c[j])
                    /\ spans[i][j].rows = CellRows(table.c[i].c[j])
  <2> DEFINE row == table.c[i]
             span == RowSpans(row)
             N == Len(row.c)
  <2>1. spans[i] = span
    BY <1>2
  <2>2. IsSequence(row.c)
    BY DEF IsGrid, IsTable, IsRow
  <2>3. DOMAIN row.c = 1..N /\ N \in Nat
    BY <2>2 DEF IsSequence
  <2>4. \A j \in DOMAIN row.c : row.c[j].at.colspan \in Int /\ row.c[j].at.rowspan \in Int
    BY DEF IsGrid
  <2> HIDE DEF row
  <2>5. span = [j \in DOMAIN row.c |-> [cols |-> CellSpan(row.c[j]), rows |-> AtLeastOne(row.c[j].at.rowspan)]]
    BY DEF RowSpans
  <2>6. ASSUME NEW j \in DOMAIN row.c
        PROVE  /\ span[j] = [cols |-> CellSpan(row.c[j]), rows |-> AtLeastOne(row.c[j].at.rowspan)]
               /\ span[j] \in Extents
    <3> DEFINE at == row.c[j].at
    <3>1. at.colspan \in Int /\ at.rowspan \in Int
      BY <2>4
    <3> HIDE DEF at
    <3>2. AtLeastOne(at.colspan) \in Place /\ AtLeastOne(at.rowspan) \in Place
      BY <3>1 DEF AtLeastOne, Place
    <3>3. QED
      BY <2>5, <3>2 DEF Extents, CellSpan, at
  <2>7. span = [j \in 1..N |-> span[j]]
    BY <2>3, <2>5
  <2> HIDE DEF span, N
  <2>8. span \in [1..N -> Extents]
    BY <2>3, <2>6, <2>7
  <2>9. span \in Seq(Extents) /\ Len(span) = N
    BY <2>3, <2>8
  <2>10. \A j \in DOMAIN row.c : span[j].cols = CellSpan(row.c[j]) /\ span[j].rows = CellRows(row.c[j])
    <3>1. ASSUME NEW j \in DOMAIN row.c
          PROVE  span[j].cols = CellSpan(row.c[j]) /\ span[j].rows = CellRows(row.c[j])
      <4>1. span[j] = [cols |-> CellSpan(row.c[j]), rows |-> AtLeastOne(row.c[j].at.rowspan)]
        BY <2>6
      <4>2. QED
        BY <4>1 DEF CellRows
    <3>2. QED
      BY <3>1
  <2>11. QED
    BY <2>1, <2>3, <2>9, <2>10 DEF span, row, N
<1>4. spans \in Seq(Seq(Extents)) /\ Len(spans) = Len(table.c)
  <2> DEFINE N == Len(table.c)
             S == Seq(Extents)
  <2>1. N \in Nat /\ spans = [i \in 1..N |-> spans[i]] /\ \A i \in 1..N : spans[i] \in S
    BY <1>1, <1>2, <1>3
  <2> HIDE DEF N, S
  <2>2. spans \in [1..N -> S]
    BY <2>1
  <2>3. spans \in Seq(S) /\ Len(spans) = N
    BY <2>1, <2>2
  <2>4. QED
    BY <2>3 DEF N, S
<1>5. QED
  BY <1>1, <1>3, <1>4

\* The cells of a row stand side by side, from the first column on: each begins where
\* the one before it has ended, or further on where an earlier row holds columns.
THEOREM CellsSideBySide ==
    ASSUME NEW table, IsGrid(table), NEW columns, columns = TableCellColumns(table),
           NEW i \in DOMAIN table.c, NEW j \in DOMAIN table.c[i].c, NEW k \in DOMAIN table.c[i].c, j < k
    PROVE  columns[i][j] \in Place /\ columns[i][j] + CellSpan(table.c[i].c[j]) <= columns[i][k]
<1> DEFINE spans == Spans(table)
           covered == CoveredAfter(spans)
           row == spans[i]
           before == covered[i - 1]
           put == FilledRow(before, row)
<1>1. spans = Spans(table) /\ covered = CoveredAfter(spans) /\ columns = Columns(spans) /\ put = FilledRow(before, row)
  BY DEF TableCellColumns
<1> HIDE DEF spans, covered, put
<1>2. /\ spans \in Seq(Seq(Extents)) /\ i \in 1..Len(spans)
      /\ j \in 1..Len(spans[i]) /\ k \in 1..Len(spans[i]) /\ spans[i][j].cols = CellSpan(table.c[i].c[j])
  BY <1>1, SpansOf
<1>3. RowFilled(spans, covered, columns, i)
  BY <1>1, <1>2, RowOf
<1>4. before \in Seq(Nat) /\ row \in Seq(Extents) /\ columns[i] = RowColumns(before, row)
  BY <1>3 DEF RowFilled
<1> HIDE DEF before, row
<1>5. j \in 1..Len(row) /\ k \in 1..Len(row) /\ row[j].cols = CellSpan(table.c[i].c[j])
  BY <1>2 DEF row
<1>6. columns[i][j] \in Place /\ put[j].next = columns[i][j] + row[j].cols /\ put[j].next <= columns[i][k]
  <2> DEFINE cols == columns[i]
  <2>1. cols = RowColumns(before, row)
    BY <1>4
  <2> HIDE DEF cols
  <2>2. cols[j] \in Place /\ put[j].next = cols[j] + row[j].cols /\ put[j].next <= cols[k]
    BY <1>1, <1>4, <1>5, <2>1, SideBySide
  <2>3. QED
    BY <2>2 DEF cols
<1>7. QED
  BY <1>5, <1>6

\* A cell that spans rows keeps its columns: as long as no cell of the rows in
\* between lies on one of them, no cell of the rows it spans begins there.
THEOREM CellsBelowASpan ==
    ASSUME NEW table, IsGrid(table), NEW columns, columns = TableCellColumns(table),
           NEW top \in DOMAIN table.c, NEW cell \in DOMAIN table.c[top].c,
           NEW c \in CellColumns(table, columns, top, cell),
           NEW i \in DOMAIN table.c, NEW j \in DOMAIN table.c[i].c,
           top < i, i - top < CellRows(table.c[top].c[cell]),
           \A m \in (top + 1)..(i - 1) : \A n \in DOMAIN table.c[m].c : c \notin CellColumns(table, columns, m, n)
    PROVE  columns[i][j] # c
<1> DEFINE spans == Spans(table)
           covered == CoveredAfter(spans)
           row == spans[i]
           before == covered[i - 1]
           d == i - 1 - top
           rows == spans[top][cell].rows
<1>1. spans = Spans(table) /\ covered = CoveredAfter(spans) /\ columns = Columns(spans)
  BY DEF TableCellColumns
<1> HIDE DEF spans, covered
<1>2. /\ spans \in Seq(Seq(Extents)) /\ top \in 1..Len(spans) /\ i \in 1..Len(spans) /\ Len(spans) \in Nat
      /\ cell \in 1..Len(spans[top]) /\ j \in 1..Len(spans[i]) /\ DOMAIN table.c = 1..Len(spans)
      /\ spans[top][cell].cols = CellSpan(table.c[top].c[cell]) /\ rows = CellRows(table.c[top].c[cell])
      /\ \A m \in 1..Len(spans) :
             /\ DOMAIN table.c[m].c = 1..Len(spans[m])
             /\ \A n \in 1..Len(spans[m]) : spans[m][n].cols = CellSpan(table.c[m].c[n])
  <2>1. spans \in Seq(Seq(Extents))
    BY <1>1, SpansOf
  <2>2. Len(spans) \in Nat
    BY <2>1
  <2>3. DOMAIN table.c = 1..Len(spans)
    BY <1>1, SpansOf
  <2>4. \A m \in 1..Len(spans) :
            /\ DOMAIN table.c[m].c = 1..Len(spans[m])
            /\ \A n \in 1..Len(spans[m]) :
                   /\ spans[m][n].cols = CellSpan(table.c[m].c[n])
                   /\ spans[m][n].rows = CellRows(table.c[m].c[n])
    <3>1. ASSUME NEW m \in DOMAIN table.c
          PROVE  /\ DOMAIN table.c[m].c = 1..Len(spans[m])
                 /\ \A n \in DOMAIN table.c[m].c :
                        /\ spans[m][n].cols = CellSpan(table.c[m].c[n])
                        /\ spans[m][n].rows = CellRows(table.c[m].c[n])
      BY <1>1, SpansOf
    <3>2. QED
      BY <2>3, <3>1
  <2>5. QED
    BY <2>1, <2>2, <2>3, <2>4
<1>3. c \in On(columns[top][cell], spans[top][cell])
  BY <1>2 DEF On, CellColumns
<1>4. d \in Nat /\ top + d = i - 1 /\ top + d <= Len(spans) /\ d < rows /\ d + 1 < rows
  <2>1. i \in Nat /\ top \in Nat /\ i <= Len(spans) /\ top < i
    BY <1>2
  <2>2. rows \in Nat /\ i - top < rows
    BY <1>2, ExtentOf
  <2> HIDE DEF rows
  <2>3. Len(spans) \in Nat
    BY <1>2
  <2>4. QED
    BY <2>1, <2>2, <2>3
<1>5. \A m \in (top + 1)..(top + d) : NoneOn(spans, columns, m, c)
  <2>1. ASSUME NEW m \in (top + 1)..(i - 1)
        PROVE  NoneOn(spans, columns, m, c)
    <3>1. m \in 1..Len(spans)
      BY <1>2
    <3>2. ASSUME NEW n \in 1..Len(spans[m])
          PROVE  c \notin On(columns[m][n], spans[m][n])
      <4>1. n \in DOMAIN table.c[m].c /\ spans[m][n].cols = CellSpan(table.c[m].c[n])
        BY <1>2, <3>1
      <4>2. c \notin CellColumns(table, columns, m, n)
        BY <4>1
      <4>3. QED
        BY <4>1, <4>2 DEF On, CellColumns
    <3>3. QED
      BY <3>2 DEF NoneOn
  <2>2. QED
    BY <1>4, <2>1
<1> HIDE DEF d
<1>6. Left(covered[top + d], c, rows - d - 1)
  BY <1>1, <1>2, <1>3, <1>4, <1>5, HeldAfter
<1>7. RowFilled(spans, covered, columns, i)
  BY <1>1, <1>2, RowOf
<1>8. before \in Seq(Nat) /\ row \in Seq(Extents) /\ columns[i] = RowColumns(before, row) /\ j \in 1..Len(row)
  BY <1>2, <1>7 DEF RowFilled
<1>9. rows \in Nat
  BY <1>2, ExtentOf
<1> HIDE DEF before, row, rows
<1>10. Left(before, c, rows - d - 1)
  BY <1>4, <1>6 DEF before
<1>11. c \in 1..Len(before) /\ before[c] > 0
  <2>1. rows - d - 1 > 0
    BY <1>4, <1>9
  <2>2. QED
    BY <1>10, <2>1 DEF Left
<1> DEFINE cols == columns[i]
<1>12. cols = RowColumns(before, row)
  BY <1>8
<1> HIDE DEF cols
<1>13. cols[j] # c
  BY <1>8, <1>11, <1>12, BeginsElsewhere
<1>14. QED
  BY <1>13 DEF cols

LEMMA ColumnsPlaced ==
    ASSUME NEW table, IsGrid(table), NEW columns, columns = TableCellColumns(table),
           NEW i \in DOMAIN table.c, NEW j \in DOMAIN table.c[i].c
    PROVE  columns[i][j] \in Nat
<1> DEFINE spans == Spans(table)
           covered == CoveredAfter(spans)
           row == spans[i]
           before == covered[i - 1]
           put == FilledRow(before, row)
           cols == columns[i]
<1>1. spans = Spans(table) /\ covered = CoveredAfter(spans) /\ columns = Columns(spans) /\ put = FilledRow(before, row)
  BY DEF TableCellColumns
<1> HIDE DEF spans, covered, put
<1>2. spans \in Seq(Seq(Extents)) /\ i \in 1..Len(spans) /\ j \in 1..Len(spans[i])
  BY <1>1, SpansOf
<1>3. RowFilled(spans, covered, columns, i)
  BY <1>1, <1>2, RowOf
<1>4. before \in Seq(Nat) /\ row \in Seq(Extents) /\ cols = RowColumns(before, row) /\ j \in 1..Len(row)
  BY <1>2, <1>3 DEF RowFilled
<1> HIDE DEF before, row, cols
<1>5. cols[j] \in Place
  BY <1>1, <1>4, SideBySide
<1>6. QED
  BY <1>5 DEF Place, cols

\* In a table whose cells are one column wide, no cell stands on a column that a cell
\* above it spans down to.
THEOREM CellsKeepApart ==
    ASSUME NEW table, IsGrid(table), NEW columns, columns = TableCellColumns(table),
           \A m \in DOMAIN table.c : \A n \in DOMAIN table.c[m].c : CellSpan(table.c[m].c[n]) = 1,
           NEW top \in DOMAIN table.c, NEW cell \in DOMAIN table.c[top].c,
           NEW i \in DOMAIN table.c, NEW j \in DOMAIN table.c[i].c,
           top < i, i - top < CellRows(table.c[top].c[cell])
    PROVE  columns[i][j] # columns[top][cell]
<1> DEFINE c == columns[top][cell]
           onto == {m \in (top + 1)..i : \E n \in DOMAIN table.c[m].c : columns[m][n] = c}
<1>1. SUFFICES ASSUME columns[i][j] = c
               PROVE  FALSE
  OBVIOUS
<1>2. Len(table.c) \in Nat /\ DOMAIN table.c = 1..Len(table.c)
  BY DEF IsGrid, IsTable, IsSequence
<1>3. top \in Nat /\ i \in Nat
  BY <1>2
<1>4. onto \in SUBSET Nat /\ i \in onto
  BY <1>1, <1>3
<1> DEFINE m == Min(onto)
<1>5. m \in onto /\ \A k \in onto : m <= k
  <2> HIDE DEF onto
  <2>1. QED
    BY <1>4, Least
<1> HIDE DEF m
<1>6. m \in (top + 1)..i /\ m \in DOMAIN table.c /\ m \in Nat /\ top < m /\ m <= i
  BY <1>2, <1>3, <1>5
<1>7. PICK n \in DOMAIN table.c[m].c : columns[m][n] = c
  BY <1>5
<1>8. c \in Nat
  BY ColumnsPlaced
<1> HIDE DEF c
<1>9. CellRows(table.c[top].c[cell]) \in Int /\ m - top < CellRows(table.c[top].c[cell])
  <2>1. table.c[top].c[cell].at.rowspan \in Int
    BY DEF IsGrid
  <2>2. CellRows(table.c[top].c[cell]) \in Int
    BY <2>1 DEF CellRows, AtLeastOne
  <2>3. QED
    BY <1>3, <1>6, <2>2
<1>10. \A k \in DOMAIN table.c : \A l \in DOMAIN table.c[k].c : CellColumns(table, columns, k, l) = {columns[k][l]}
  <2>1. ASSUME NEW k \in DOMAIN table.c, NEW l \in DOMAIN table.c[k].c
        PROVE  CellColumns(table, columns, k, l) = {columns[k][l]}
    <3>1. columns[k][l] \in Nat
      BY ColumnsPlaced
    <3>2. CellSpan(table.c[k].c[l]) = 1
      OBVIOUS
    <3>3. QED
      BY <3>1, <3>2 DEF CellColumns
  <2>2. QED
    BY <2>1
<1>11. c \in CellColumns(table, columns, top, cell)
  BY <1>10 DEF c
<1>12. ASSUME NEW k \in (top + 1)..(m - 1), NEW l \in DOMAIN table.c[k].c
       PROVE  c \notin CellColumns(table, columns, k, l)
  <2>1. k \in DOMAIN table.c /\ k \in (top + 1)..i /\ ~(m <= k)
    <3>1. k \in Nat /\ top + 1 <= k /\ k <= m - 1
      BY <1>3, <1>6
    <3>2. m \in 1..Len(table.c) /\ m \in Nat /\ m <= i
      BY <1>2, <1>6
    <3>3. ~(m <= k) /\ k <= i
      BY <1>3, <3>1, <3>2
    <3>4. k \in 1..Len(table.c)
      BY <1>2, <1>3, <3>1, <3>2
    <3>5. k \in (top + 1)..i
      BY <1>3, <3>1, <3>3
    <3>6. QED
      BY <1>2, <3>3, <3>4, <3>5
  <2>2. k \notin onto
    BY <1>5, <2>1
  <2>3. columns[k][l] # c
    BY <2>1, <2>2
  <2>4. QED
    BY <1>10, <2>1, <2>3
<1>13. columns[m][n] # c
  BY <1>6, <1>9, <1>11, <1>12, CellsBelowASpan
<1>14. QED
  BY <1>7, <1>13
===============================================================================
