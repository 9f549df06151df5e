----------------------------- MODULE Documents -----------------------------
(* Passes over a finished ADF document (package adf): the collapsing of       *)
(* blanks that every encoding ends with, the tables that are lowered and      *)
(* lifted wherever they stand (one table is the business of TableAlign), and  *)
(* the guard against attributes that no product takes.                        *)
EXTENDS DialectEncode, TableAlign

\* A run of blanks with a line break in it becomes one space, and so does a run
\* of spaces.
CollapseBlanks(v) ==
    LET Collapse(acc, w) ==
            CASE w \in {Space, Newline} /\ acc # <<>> /\ Last(acc) = Space -> acc
              [] w = Newline -> Append(acc, Space)
              [] OTHER -> Append(acc, w)
    IN  FoldLeft(Collapse, <<>>, v)

\* A text continues the blanks of the text before it, unless their marks differ.
TrimLeft(v) == IF v # <<>> /\ v[1] = Space THEN Tail(v) ELSE v
JoinJunction(acc, n) ==
    LET meets == /\ n.k = "text" /\ acc # <<>> /\ Last(acc).k = "text" /\ Last(acc).marks = n.marks
                 /\ Last(acc).at.v # <<>> /\ Last(Last(acc).at.v) = Space
    IN  CASE meets /\ TrimLeft(n.at.v) = <<>> /\ n.at.v # <<>> -> acc
          [] meets -> Append(acc, [n EXCEPT !.at.v = TrimLeft(@)])
          [] OTHER -> Append(acc, n)
CollapseTextJunctions(nodes) == FoldLeft(JoinJunction, <<>>, nodes)

RECURSIVE NormalizeTextNewlines(_)
NormalizeTextNewlines(nodes) ==
    LET Normalized(n) ==
            CASE n.k = "text" -> [n EXCEPT !.at.v = CollapseBlanks(@)]
              [] n.k = "codeBlock" -> n
              [] OTHER -> [n EXCEPT !.c = NormalizeTextNewlines(@)]
    IN  CollapseTextJunctions(Each(Normalized, nodes))

\* What a document says only to the conversion back: no product has a place for it.
HasSynthetic(n) ==
    \/ n.k = "colwidthsHint"
    \/ n.k = "heading" /\ n.at.anchor # ""
    \/ n.k = "table" /\ n.at.align # <<>>
    \/ n.k \in {"bulletList", "orderedList"} /\ n.at.tight # ""
IsWireSafe(doc) == \A i \in DOMAIN WalkAll(doc) : ~HasSynthetic(WalkAll(doc)[i])
ClearedCopy(n) ==
    CASE ~HasSynthetic(n) -> n
      [] n.k = "heading" /\ HasSynthetic(n) -> [n EXCEPT !.at.anchor = ""]
      [] n.k = "table" /\ HasSynthetic(n) -> [n EXCEPT !.at.align = <<>>]
      [] n.k \in {"bulletList", "orderedList"} /\ HasSynthetic(n) -> [n EXCEPT !.at.tight = ""]
RECURSIVE StripSynthetic(_)
StripSynthetic(nodes) ==
    Each(LAMBDA n : [ClearedCopy(n) EXCEPT !.c = StripSynthetic(@)], SelectSeq(nodes, LAMBDA n : n.k # "colwidthsHint"))

\* Tables inside tables are left alone by both, for a table that was rewritten
\* is not looked into again.
RECURSIVE LowerTableAlign(_), LiftTableAlign(_)
LowerTableAlign(nodes) ==
    Each(LAMBDA n : IF n.k = "table" /\ n.at.align # <<>> THEN LowerTable(n)
                    ELSE [n EXCEPT !.c = LowerTableAlign(@)], nodes)
LiftedNode(n, lifted) == IF lifted # n THEN lifted ELSE [n EXCEPT !.c = LiftTableAlign(@)]
LiftTableAlign(nodes) ==
    Each(LAMBDA n : LiftedNode(n, IF n.k = "table" THEN LiftTable(n) ELSE n), nodes)
=============================================================================
