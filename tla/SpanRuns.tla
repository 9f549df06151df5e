------------------------------- MODULE SpanRuns -------------------------------
(* The runs of flat inline marks (package convert, spanning.go). ADF stores   *)
(* the marks of a run of text as a flat list; Markdown nests strong, emphasis *)
(* and delete around nodes. An item is one leaf of a run with the set of      *)
(* nesting marks it carries (spans), whether it is code or a line break, and  *)
(* its text v, a sequence of words. What code shed is inferred from the       *)
(* items around it; what to open where is decided by how far a mark reaches.  *)
EXTENDS Integers, Sequences, FiniteSets, SequencesExt

SpanMarks == <<"strong", "em", "strike">>
Marked(item) == item.spans # {}
BareCode(items, i) == i \in DOMAIN items /\ items[i].code /\ ~Marked(items[i])
OpensOnSpace(item) == item.v # <<>> /\ item.v[1] = " "

\* The end (exclusive) of the longest run from start on of the given
\* positions, and the start of the longest run of bare code that ends at i.
RunEnd(items, start, run) == Min((start..(Len(items) + 1)) \ run)
CodeRunEnd(items, start) == RunEnd(items, start, {k \in DOMAIN items : BareCode(items, k)})
UnmarkedRunEnd(items, start) ==
    RunEnd(items, start, {k \in DOMAIN items : ~Marked(items[k]) /\ ~items[k].break})
CodeRunStart(items, i) == Max({start \in 1..i : ~BareCode(items, start - 1)})

\* (The concatenation makes TLC compute the items once.)
WithMarks(item, marks) == [item EXCEPT !.spans = @ \cup marks]
SetMarks(items, positions, marks) ==
    [k \in DOMAIN items |-> IF k \in positions THEN WithMarks(items[k], marks) ELSE items[k]] \o <<>>

\* ADF's code mark excludes the others, so a code span inside emphasis arrives
\* without it; the items around it say what it was in.
BeforeItem(items, i) ==
    IF ~items[i].code /\ Marked(items[i]) /\ OpensOnSpace(items[i]) /\ BareCode(items, i - 1)
    THEN SetMarks(items, CodeRunStart(items, i - 1)..(i - 1), items[i].spans)
    ELSE items
AfterItem(items, lax, i) ==
    IF ~items[i].code /\ Marked(items[i]) /\ BareCode(items, i + 1)
    THEN LET end == IF lax THEN UnmarkedRunEnd(items, i + 1) ELSE CodeRunEnd(items, i + 1)
         IN  SetMarks(items, (i + 1)..(end - 1), items[i].spans)
    ELSE items
InferBeforeCode(items) ==
    LET inferred[i \in 0..Len(items)] == IF i = 0 THEN items ELSE BeforeItem(inferred[i - 1], i)
    IN  inferred[Len(items)]
InferAfterCode(items, lax) ==
    LET inferred[i \in 0..Len(items)] == IF i = 0 THEN items ELSE AfterItem(inferred[i - 1], lax, i)
    IN  inferred[Len(items)]
InferAcrossCode(items, lax) == InferAfterCode(InferBeforeCode(items), lax)

KeepsOpen(item, open) == open \subseteq item.spans
SpanEnd(items, idx, mark, open) ==
    RunEnd(items, idx + 1, {k \in DOMAIN items : mark \in items[k].spans /\ KeepsOpen(items[k], open)})
\* The mark to open at idx: the one that reaches furthest, the first of those.
WidestSpan(items, idx, open) ==
    LET unopened == items[idx].spans \ open
        End(mark) == SpanEnd(items, idx, mark, open)
        furthest == {n \in DOMAIN SpanMarks : /\ SpanMarks[n] \in unopened
                                              /\ \A other \in unopened : End(other) <= End(SpanMarks[n])}
        mark == SpanMarks[Min(furthest)]
    IN  [mark |-> mark, end |-> End(mark)]
===============================================================================
