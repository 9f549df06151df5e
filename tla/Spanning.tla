------------------------------ MODULE Spanning ------------------------------
(* Nesting flat inline marks (package convert, spanning.go): a run of items   *)
(* becomes nodes, the marks of SpanRuns wrapped around them. An item carries  *)
(* the node leaf it becomes.                                                  *)
EXTENDS Nodes, SpanRuns

WrapSpan(mark, children) ==
    CASE mark = "strong" -> Strong(children)
      [] mark = "em" -> Emphasis(children)
      [] mark = "strike" -> Delete(children)

RECURSIVE GroupSpans(_, _)
GroupSpans(items, open) ==
    IF items = <<>> THEN <<>>
    ELSE IF items[1].spans \subseteq open THEN <<items[1].leaf>> \o GroupSpans(Tail(items), open)
    ELSE LET widest == WidestSpan(items, 1, open) IN
         <<WrapSpan(widest.mark, GroupSpans(SubSeq(items, 1, widest.end - 1), open \cup {widest.mark}))>>
             \o GroupSpans(SubSeq(items, widest.end, Len(items)), open)
=============================================================================
