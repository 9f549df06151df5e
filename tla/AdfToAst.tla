------------------------------ MODULE AdfToAst ------------------------------
(* Decoding an ADF document as a Markdown tree (package convert, FromADF).    *)
(* The converter's configuration is the variable options of DialectEncode;    *)
(* every conversion answers a result: the nodes and what it reported.         *)
EXTENDS DialectDecode, Spanning

\* A run of blanks with a line break in it is one space; a break at an edge of
\* the text is remembered, for the space it becomes may not be rendered.
CollapseBreak(acc, kept) == [v |-> Append(kept, Space), broke |-> TRUE, lead |-> acc.lead \/ kept = <<>>]
CollapseInlineNewlines(v) ==
    LET Collapse(acc, w) ==
            CASE acc.broke /\ w \in {Space, Newline} -> acc
              [] ~acc.broke /\ w = Newline -> CollapseBreak(acc, TrimRight(acc.v, Space))
              [] OTHER -> [acc EXCEPT !.v = Append(@, w), !.broke = FALSE]
    IN  FoldLeft(Collapse, [v |-> <<>>, broke |-> FALSE, lead |-> FALSE], v)

\* A flat inline: what groupSpans needs, its link, the marks that wrap it from
\* the inside out, and the node of one that is no text.
TextItem(v) ==
    [spans |-> {}, code |-> FALSE, break |-> FALSE, v |-> v, link |-> <<>>, card |-> FALSE, wraps |-> <<>>,
     lead |-> FALSE, trail |-> FALSE, nodes |-> <<>>]
BreakItem == [TextItem(<<>>) EXCEPT !.break = TRUE]
NodeItem(n) == [TextItem(<<>>) EXCEPT !.nodes = <<n>>]
LinkItem(v, href, title) == [TextItem(v) EXCEPT !.link = <<LinkMark(href, title)>>]

WrapOrder == <<"subsup", "underline", "backgroundColor", "textColor", "annotation">>
UnstyledMarks(marks) == SelectSeq(marks, LAMBDA mark : mark.m \in ToSet(WrapOrder) /\ mark.v # "on" /\ mark.m # "textColor")

WrappingMarks(marks) ==
    Each(LAMBDA m : FirstMark(marks, m),
         SelectSeq(WrapOrder, LAMBDA m : HasMark(marks, m) /\ (FirstMark(marks, m).v # "" \/ m = "underline")))
TextSpans(marks) == IF HasMark(marks, "code") THEN {} ELSE {m \in ToSet(SpanMarks) : HasMark(marks, m)}
TextAtom(n, text) ==
    [TextItem(text.v) EXCEPT !.lead = text.lead, !.trail = text.broke, !.code = HasMark(n.marks, "code"),
         !.spans = TextSpans(n.marks), !.wraps = WrappingMarks(n.marks),
         !.link = IF HasMark(n.marks, "link") THEN <<FirstMark(n.marks, "link")>> ELSE <<>>]
ConvertTextInline(n) == TextAtom(n, CollapseInlineNewlines(n.at.v))
\* A link goes back to the page's own spelling, and so does its text if it was the href.
Respelled(item, href) ==
    [item EXCEPT !.link[1].v = href, !.v = IF @ = <<item.link[1].v>> THEN <<href>> ELSE @]
ResolveLink(item) ==
    IF item.link = <<>> THEN item ELSE Respelled(item, Lookup(options.linkSources, item.link[1].v, item.link[1].v))

LinkedLeaf(item, inner) ==
    IF item.link = <<>> THEN inner
    ELSE [Link(item.link[1].v, item.link[1].w, <<inner>>) EXCEPT !.at.inlineCard = item.card]
InlineLeafNode(item) ==
    CASE item.break -> Break
      [] item.nodes # <<>> -> item.nodes[1]
      [] OTHER -> FoldLeft(LAMBDA n, mark : WrapMark(mark, n),
                           LinkedLeaf(item, IF item.code THEN InlineCode(item.v) ELSE Text(item.v)), item.wraps)

CutLead(v, cut) == IF cut /\ v # <<>> /\ v[1] = Space THEN Tail(v) ELSE v
CutTrail(v, cut) == IF cut /\ v # <<>> /\ Last(v) = Space THEN Front(v) ELSE v
TrimBreakEdges(items) ==
    LET Unrendered(i) == i \notin DOMAIN items \/ items[i].break IN
    [i \in DOMAIN items |->
        [items[i] EXCEPT !.v = CutTrail(CutLead(@, items[i].lead /\ Unrendered(i - 1)),
                                        items[i].trail /\ Unrendered(i + 1))]] \o <<>>

\* File cards and attachments that read back as a link or as an image.
FileCardLabel(n, link, href) == IF link.label # <<>> THEN link.label ELSE IF n.at.alt # <<>> THEN n.at.alt ELSE <<href>>
FileCardLink(n) ==
    LET link == options.fileLinks[n.at.id]
        href == Lookup(options.linkSources, link.href, link.href)
    IN  LinkItem(FileCardLabel(n, link, href), href, "")
HasFileCard(n) == n.at.id # "" /\ Found(options.fileLinks, n.at.id) /\ options.fileLinks[n.at.id].href # ""
MediaInlineAsImage(n) ==
    LinkedImage(Image(options.assets[n.at.id].path, "", LabelOf(n.at.alt)), LinkMark(MediaLinkMark(n.marks).v, ""))
IsInlineImage(n) ==
    /\ n.at.type = "file" /\ HasAsset(n.at.id)
    /\ n.marks = <<>> \/ (Len(n.marks) = 1 /\ MediaLinkMark(n.marks).v # "")

EmojiItem(n) ==
    CASE Attr(n, "text") # "" -> <<TextItem(<<n.at.text>>)>>
      [] Attr(n, "text") = "" /\ Found(options.emoji, Attr(n, "shortName")) -> <<TextItem(<<options.emoji[n.at.shortName]>>)>>
      [] OTHER -> IF Attr(n, "shortName") = "" THEN <<>> ELSE <<NodeItem(Node("emoji", n.at, <<>>))>>

RECURSIVE Decode(_), ConvertAdfBlocks(_), ConvertAdfInlines(_)

ReportRawNode(n) == When(n.k = "rawNode", Report("rawNode", Attr(n, "type")))
CollectHooked(n, content) ==
    When(n.k \in DecodedInlines,
         Both(ReportRawNode(n), [DecodeInlineNode(n, content) EXCEPT !.out = Each(NodeItem, @)]))
CollectInline(n) ==
    CASE n.k = "text" ->
            Both(Only(ResolveLink(ConvertTextInline(n))), When(HasMark(n.marks, "fontSize"), Report("fontSizeDropped", "")))
      [] n.k = "hardBreak" -> Only(BreakItem)
      [] n.k = "emoji" -> Result(EmojiItem(n), <<>>)
      [] n.k = "inlineCard" ->
            Only([LinkItem(Lookup(options.keyFromURL, n.at.url, <<n.at.url>>), n.at.url, "") EXCEPT !.card = TRUE])
      [] n.k = "mediaInline" /\ HasFileCard(n) -> Only(FileCardLink(n))
      [] n.k = "mediaInline" /\ ~HasFileCard(n) /\ IsInlineImage(n) -> Only(NodeItem(MediaInlineAsImage(n)))
      [] OTHER -> CollectHooked(n, ConvertAdfInlines(n.c))

Leaf(item) ==
    [spans |-> item.spans, code |-> item.code, break |-> item.break, v |-> item.v, leaf |-> InlineLeafNode(item)]
ConvertAdfInlines(nodes) ==
    [ConcatOf(CollectInline, nodes) EXCEPT !.out =
        GroupSpans(InferAcrossCode(Each(Leaf, TrimBreakEdges(@)), TRUE), {})]

\* Lists.
MergeAdjacentText(nodes) ==
    LET Merge(acc, n) ==
            IF acc # <<>> /\ n.k = "text" /\ Last(acc).k = "text"
            THEN Append(Front(acc), [Last(acc) EXCEPT !.at.v = @ \o n.at.v])
            ELSE Append(acc, n)
    IN  FoldLeft(Merge, <<>>, nodes)
InParagraph(r) == Wrapped(r, Paragraph(<<>>))
BlockTaskItemRenderable(blocks) == blocks # <<>> /\ blocks[1].k = "paragraph" /\ blocks[1].c # <<>>
FlattenedTask(item) ==
    InParagraph([ConcatOf(LAMBDA p : ConvertAdfInlines(p.c), SelectSeq(item.c, LAMBDA n : n.k = "paragraph"))
                    EXCEPT !.out = MergeAdjacentText(@)])
BlockTask(item, blocks) ==
    IF BlockTaskItemRenderable(blocks.out) THEN blocks ELSE Both(Result(<<>>, blocks.log), FlattenedTask(item))
ConvertTaskItem(item) ==
    Wrapped(IF item.k = "taskItem" THEN InParagraph(ConvertAdfInlines(item.c)) ELSE BlockTask(item, ConvertAdfBlocks(item.c)),
            ListItem(IF item.at.state = "DONE" THEN "yes" ELSE "no", <<>>))
ItemsOf(n, kinds) == SelectSeq(n.c, LAMBDA c : c.k \in kinds)
BulletOf(items) == Wrapped(items, List(FALSE, 0, FALSE, <<>>))
ConvertAdfTaskList(n) == BulletOf(ConcatOf(ConvertTaskItem, ItemsOf(n, {"taskItem", "blockTaskItem"})))
ConvertAdfDecisionList(n) ==
    BulletOf(ConcatOf(LAMBDA item : Wrapped(InParagraph(ConvertAdfInlines(item.c)), ListItem("none", <<>>)),
                      ItemsOf(n, {"decisionItem"})))
ConvertAdfListItems(n) ==
    Wrapped(ConcatOf(LAMBDA item : Wrapped(ConvertAdfBlocks(item.c), ListItem("none", <<>>)), ItemsOf(n, {"listItem"})),
            List(n.k = "orderedList", IF n.k = "orderedList" THEN n.at.order ELSE 1, n.at.tight = "loose", <<>>))

\* Tables. A row is padded to the columns of the first one, counted with the
\* columns that cells of earlier rows still cover.
ColumnsOf(cells) == FoldLeft(LAMBDA sum, cell : sum + AtLeast(cell.at.colspan, 1), 0, cells)
TableColwidths(table) ==
    LET rows == ItemsOf(table, {"tableRow"}) IN
    IF rows = <<>> THEN <<>> ELSE FlatMap(LAMBDA cell : cell.at.colwidth, rows[1].c)
EmptyCells(n) == [i \in 1..n |-> TableCell(0, 0, <<>>)]
AdvanceForever(carries, cells) ==
    carries \o Each(LAMBDA cell : [left |-> cell.at.rowspan - 1, width |-> AtLeast(cell.at.colspan, 1)],
                    SelectSeq(cells, LAMBDA cell : cell.at.rowspan > 1))

Advance(carries, cells) ==
    LET standing == SelectSeq(carries, LAMBDA carry : carry.left > 1)
        fresh == SelectSeq(cells, LAMBDA cell : cell.at.rowspan > 1)
    IN  Each(LAMBDA carry : [carry EXCEPT !.left = @ - 1], standing)
            \o Each(LAMBDA cell : [left |-> cell.at.rowspan - 1, width |-> AtLeast(cell.at.colspan, 1)], fresh)

\* A cell holds one line of inlines: blocks give up their form, and the
\* boundary between two of them is a space.
Blockish == {"paragraph", "heading", "thematicBreak", "blockquote", "code", "yaml", "list", "table", "containerDirective",
             "leafDirective", "footnoteDefinition", "definition", "root", "listItem", "tableRow", "tableCell"}
                \cup BlockExtensions
Projected == [out |-> <<>>, sep |-> FALSE]
Boundary(p) == [p EXCEPT !.sep = @ \/ p.out # <<>>]
WriteBoundarySpace(out) ==
    IF Last(out).k # "text" THEN Append(out, Text(<<Space>>))
    ELSE IF Last(out).at.v # <<>> /\ Last(Last(out).at.v) = Space THEN out
    ELSE Append(Front(out), [Last(out) EXCEPT !.at.v = Append(@, Space)])
Emit(p, n) == [out |-> Append(IF p.sep THEN WriteBoundarySpace(p.out) ELSE p.out, n), sep |-> FALSE]
FoldCellLines(v) == Each(LAMBDA w : IF w = Newline THEN Space ELSE w, v)
EmitValue(p, n) == IF n.at.v = <<>> THEN p ELSE Emit(p, InlineCode(FoldCellLines(n.at.v)))

RECURSIVE Project(_, _), PushCell(_, _)
LeafForms == {"media", "jql", "linkCard", "linkEmbed", "extension", "syncBlock", "rawLeaf", "confluenceMacro"}
LeafName(n) == CASE n.k = "rawLeaf" -> "rawNode" [] n.k = "confluenceMacro" -> n.at.name [] OTHER -> n.k
LeafAttrs(n) == IF n.k = "confluenceMacro" THEN n.at.attrs ELSE n.at
AttrOnlyLeaf(n) == n.k \in LeafForms /\ DOMAIN LeafAttrs(n) # {} /\ Project(Projected, n.c).out = <<>>
PushCell(p, n) ==
    CASE n.k \in {"code", "yaml"} -> EmitValue(p, n)
      [] n.k = "html" -> IF n.at.v = <<>> THEN p ELSE Emit(p, HTML(FoldCellLines(n.at.v)))
      [] n.k \in {"thematicBreak", "colwidths"} -> p
      [] n.k = "break" -> Boundary(p)
      [] AttrOnlyLeaf(n) -> Emit(p, TextDirective(LeafName(n), LeafAttrs(n), <<>>))
      [] n.k \in Blockish \ {"code", "yaml", "thematicBreak", "colwidths"} /\ ~AttrOnlyLeaf(n) -> Project(p, n.c)
      [] OTHER -> Emit(p, n)
Project(p, nodes) ==
    LET Next(acc, i) ==
            LET apart == i > 1 /\ {nodes[i].k, nodes[i - 1].k} \cap Blockish # {} IN
            PushCell(IF apart THEN Boundary(acc) ELSE acc, nodes[i])
    IN  FoldLeft(Next, p, [i \in DOMAIN nodes |-> i])
ConvertAdfCell(cell) ==
    Wrapped([ConvertAdfBlocks(cell.c) EXCEPT !.out = Project(Projected, @).out],
            TableCell(SpanAttr(cell.at.colspan), SpanAttr(cell.at.rowspan), <<>>))

Carried(carries) == FoldLeft(LAMBDA sum, carry : sum + carry.width, 0, carries)
Padding(missing) == IF missing > 0 THEN EmptyCells(missing) ELSE <<>>
ConvertAdfRow(columns, carries, row) ==
    Wrapped(Both(ConcatOf(ConvertAdfCell, row.c), Result(Padding(columns - Carried(carries) - ColumnsOf(row.c)), <<>>)),
            TableRow(<<>>))
ConvertRows(rows) ==
    LET Convert(acc, row) ==
            [carries |-> Advance(acc.carries, row.c), r |-> Both(acc.r, ConvertAdfRow(ColumnsOf(rows[1].c), acc.carries, row))]
    IN  FoldLeft(Convert, [carries |-> <<>>, r |-> Nothing], rows).r
BlankHeader(first) ==
    IF ItemsOf(first, {"tableHeader"}) # <<>> THEN <<>> ELSE <<TableRow(EmptyCells(ColumnsOf(first.c)))>>
LiftAlign(align) == AnyAligned(Each(LAMBDA a : IF a \in Alignments THEN a ELSE "", align))
ConvertAdfTable(table) ==
    LET rows == ItemsOf(table, {"tableRow"}) IN
    When(rows # <<>>, Wrapped(Both(Result(BlankHeader(rows[1]), <<>>), ConvertRows(rows)), Table(LiftAlign(table.at.align), <<>>)))

\* Blocks.
ConvertAdfCodeBlock(n) ==
    Only(Code(n.at.language,
              TrimRight(FlatMap(LAMBDA t : t.at.v, SelectSeq(n.c, LAMBDA t : t.k = "text")), Newline)))
FirstChild(n) == IF n.c = <<>> THEN Nothing ELSE Decode(n.c[1])
Decode(n) ==
    CASE n.k = "paragraph" -> InParagraph(ConvertAdfInlines(n.c))
      [] n.k = "heading" ->
            Wrapped(ConvertAdfInlines(n.c),
                    Heading(IF n.at.level > 6 THEN 6 ELSE AtLeast(n.at.level, 1), n.at.anchor, <<>>))
      [] n.k = "rule" -> Only(ThematicBreak)
      [] n.k = "blockquote" -> Wrapped(ConvertAdfBlocks(n.c), Blockquote(<<>>))
      [] n.k = "codeBlock" -> ConvertAdfCodeBlock(n)
      [] n.k \in {"bulletList", "orderedList"} -> ConvertAdfListItems(n)
      [] n.k = "taskList" -> ConvertAdfTaskList(n)
      [] n.k = "decisionList" -> ConvertAdfDecisionList(n)
      [] n.k = "table" -> ConvertAdfTable(n)
      [] n.k \in DecodedBlocks -> Both(ReportRawNode(n), DecodeBlockNode(n, ConvertAdfBlocks(n.c), ConvertAdfInlines(CaptionOf(n))))
      [] OTHER -> FirstChild(n)

\* Block marks wrap what a block became, the first mark innermost.
BlockMarkWrapper(mark, blocks) ==
    CASE mark.m = "alignment" /\ mark.v \in {"center", "end"} -> <<Node("align", [align |-> mark.v], blocks)>>
      [] mark.m = "indentation" /\ mark.v # "" -> <<Node("indent", [level |-> mark.v], blocks)>>
      [] mark.m = "breakout" /\ mark.v # "" -> <<Node("breakout", ("mode" :> mark.v) @@ AttrIf("width", mark.w), blocks)>>
      [] mark.m = "dataConsumer" /\ mark.v # "" -> <<Node("dataConsumer", [sources |-> mark.v], blocks)>>
      [] mark.m = "fragment" /\ mark.v # "" -> <<Node("fragment", ("localId" :> mark.v) @@ AttrIf("name", mark.w), blocks)>>
      [] OTHER -> blocks
WrapBlockMarksReversed(n, blocks) ==
    IF blocks = <<>> THEN blocks
    ELSE FoldLeft(LAMBDA wrapped, mark : BlockMarkWrapper(mark, wrapped), blocks, Reverse(n.marks))

WrapBlockMarks(n, blocks) ==
    IF blocks = <<>> THEN blocks ELSE FoldLeft(LAMBDA wrapped, mark : BlockMarkWrapper(mark, wrapped), blocks, n.marks)
\* What a block brings along: the widths of its columns, or what its list is.
WidthsHint(widths) == IF widths = <<>> THEN <<>> ELSE <<Node("colwidths", [widths |-> widths], <<>>)>>
Companion(n) ==
    CASE n.k = "table" -> WidthsHint(TableColwidths(n))
      [] n.k = "decisionList" -> <<Node("decisions", NoAttrs, <<>>)>>
      [] OTHER -> <<>>
ConvertAdfBlock(n) ==
    [IF n.k = "mediaGroup" THEN DecodeMediaGroup(n) ELSE Both(Result(Companion(n), <<>>), Decode(n))
        EXCEPT !.out = WrapBlockMarks(n, @)]
ConvertAdfBlocks(nodes) == ConcatOf(ConvertAdfBlock, nodes)

FromADF(doc) == [ConvertAdfBlocks(doc) EXCEPT !.out = Root(@)]
=============================================================================
