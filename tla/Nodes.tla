------------------------------- MODULE Nodes -------------------------------
(* The two trees the library converts between, and what a conversion answers. *)
(* A Markdown node (package ast, and the dialect's own kinds) and an ADF node *)
(* (package adf) are both records of a kind, attributes and children; an ADF  *)
(* node also has marks. Text is a sequence of words, so that it can be joined *)
(* and compared without being spelled out; a blank word is Space.             *)
EXTENDS Integers, Sequences, FiniteSets, SequencesExt, TLC

\* What Op makes of the members of a sequence. (The concatenation makes TLC
\* compute the members once.)
Each(Op(_), s) == [i \in DOMAIN s |-> Op(s[i])] \o <<>>
FlatMap(Op(_), s) == FlattenSeq(Each(Op, s))

Space == " "
Newline == "\n"

Node(k, at, c) == [k |-> k, at |-> at, c |-> c]
Plain == [plain |-> TRUE]

Root(c) == Node("root", Plain, c)
Paragraph(c) == Node("paragraph", [label |-> FALSE], c)
LabelParagraph(c) == Node("paragraph", [label |-> TRUE], c)
Heading(depth, id, c) == Node("heading", [depth |-> depth, id |-> id], c)
ThematicBreak == Node("thematicBreak", Plain, <<>>)
Blockquote(c) == Node("blockquote", Plain, c)
List(ordered, start, spread, c) == Node("list", [ordered |-> ordered, start |-> start, spread |-> spread], c)
\* Checked is "none" for an item that is no task, else "no" or "yes".
ListItem(checked, c) == Node("listItem", [checked |-> checked], c)
Code(lang, v) == Node("code", [lang |-> lang, v |-> v], <<>>)
HTML(v) == Node("html", [v |-> v], <<>>)
Frontmatter(v) == Node("yaml", [v |-> v], <<>>)
Table(align, c) == Node("table", [align |-> align], c)
TableRow(c) == Node("tableRow", Plain, c)
TableCell(colspan, rowspan, c) == Node("tableCell", [colspan |-> colspan, rowspan |-> rowspan], c)
ContainerDirective(name, attrs, c) == Node("containerDirective", [name |-> name, attrs |-> attrs], c)
LeafDirective(name, attrs, c) == Node("leafDirective", [name |-> name, attrs |-> attrs], c)
Text(v) == Node("text", [v |-> v], <<>>)
Emphasis(c) == Node("emphasis", Plain, c)
Strong(c) == Node("strong", Plain, c)
Delete(c) == Node("delete", Plain, c)
InlineCode(v) == Node("inlineCode", [v |-> v], <<>>)
Break == Node("break", Plain, <<>>)
Link(url, title, c) == Node("link", [url |-> url, title |-> title, inlineCard |-> FALSE], c)
Image(url, title, c) == Node("image", [url |-> url, title |-> title], c)
TextDirective(name, attrs, c) == Node("textDirective", [name |-> name, attrs |-> attrs], c)
FootnoteDef(label, c) == Node("footnoteDefinition", [label |-> label], c)
FootnoteRef(label) == Node("footnoteReference", [label |-> label], <<>>)
Definition(label, url, title) == Node("definition", [label |-> label, url |-> url, title |-> title], <<>>)
LinkRef(label, type, c) == Node("linkReference", [label |-> label, type |-> type], c)
ImageRef(label, type, c) == Node("imageReference", [label |-> label, type |-> type], c)

\* A directive's attributes are a function from names to texts; an attribute
\* that is not written reads as the empty text.
NoAttrs == <<>>
AttrIf(key, v) == IF v = "" THEN NoAttrs ELSE key :> v
Attr(n, key) == IF key \in DOMAIN n.at THEN n.at[key] ELSE ""

\* A value that is text on one side and a label of words on the other.
AsWords(v) == IF v = "" THEN <<>> ELSE <<v>>
AsValue(words) == FoldLeft(LAMBDA joined, w : joined \o w, "", words)

RECURSIVE PlainText(_)
PlainText(nodes) ==
    IF nodes = <<>> THEN <<>>
    ELSE (CASE nodes[1].k \in {"text", "inlineCode"} -> nodes[1].at.v
            [] nodes[1].k = "textDirective" -> <<":" \o nodes[1].at.name>> \o PlainText(nodes[1].c)
            [] OTHER -> PlainText(nodes[1].c)) \o PlainText(Tail(nodes))

\* The ADF side.
ADF(k, at, c) == [k |-> k, at |-> at, c |-> c, marks |-> <<>>]
Mark(m, v, w) == [m |-> m, v |-> v, w |-> w]
ADFText(v, marks) == [ADF("text", [v |-> v], <<>>) EXCEPT !.marks = marks]
LinkMark(href, title) == Mark("link", href, title)
HasMark(marks, m) == \E i \in DOMAIN marks : marks[i].m = m
AddMark(n, mark) == [n EXCEPT !.marks = Append(@, mark)]

\* The nodes and all below them, in document order.
RECURSIVE WalkAll(_)
WalkAll(nodes) ==
    IF nodes = <<>> THEN <<>>
    ELSE <<Head(nodes)>> \o WalkAll(Head(nodes).c) \o WalkAll(Tail(nodes))
Walk(n) == WalkAll(<<n>>)

\* What a conversion answers: nodes, and what it reported while making them.
Result(out, log) == [out |-> out, log |-> log]
Nothing == Result(<<>>, <<>>)
Only(n) == Result(<<n>>, <<>>)
Report(code, about) == Result(<<>>, <<[code |-> code, about |-> about]>>)
When(condition, r) == IF condition THEN r ELSE Nothing
Both(r, s) == Result(r.out \o s.out, r.log \o s.log)
Wrapped(r, n) == Result(<<[n EXCEPT !.c = r.out]>>, r.log)
Concat(rs) == Result(FlattenSeq([i \in DOMAIN rs |-> rs[i].out]), FlattenSeq([i \in DOMAIN rs |-> rs[i].log]))
ConcatOf(Op(_), nodes) == Concat(Each(Op, nodes))

AtLeast(v, least) == IF v < least THEN least ELSE v
SpanAttr(v) == IF v > 1 THEN v ELSE 0

Solid(v, blank) == {i \in DOMAIN v : v[i] # blank}
TrimRight(v, blank) == IF Solid(v, blank) = {} THEN <<>> ELSE SubSeq(v, 1, Max(Solid(v, blank)))
TrimSpace(v) == IF Solid(v, Space) = {} THEN <<>> ELSE SubSeq(v, Min(Solid(v, Space)), Max(Solid(v, Space)))
=============================================================================
