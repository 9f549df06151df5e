------------------------------ MODULE Normalize ------------------------------
(* The canonical form of a Markdown tree (package convert, normalize.go), for *)
(* the two legs that ask for it: Normalize, before an encode, may drop what   *)
(* ADF has no node for; NormalizeFormat (keep) gives everything back. How a   *)
(* link was spelled (bare, in angle brackets) and blank lines are left out.   *)
EXTENDS AstToAdf, AdfToAst

\* A flat inline under the marks x around it: a text, a code span, a break, or
\* a node that is written as it is.
Atom(v, x) ==
    [v |-> v, x |-> x, spans |-> {m \in ToSet(SpanMarks) : x.styles[m] # ""}, code |-> FALSE, break |-> FALSE, nodes |-> <<>>]
NodeAtom(n, x) == [Atom(<<>>, x) EXCEPT !.nodes = <<n>>]
BreakAtom == [Atom(<<>>, NoMarks) EXCEPT !.break = TRUE]

LinkOnly(x) == IF x.linked THEN Linked(NoMarks, x.href, x.title) ELSE NoMarks
CodeAtom(v, x) == [Atom(v, IF x.linked THEN Linked(NoMarks, x.href, "") ELSE NoMarks) EXCEPT !.code = TRUE]

\* The marks of an atom as nodes around it, the link innermost.
StyleWraps(x) ==
    Each(LAMBDA kind : Mark(kind, x.styles[kind], ""),
         SelectSeq(WrapOrder, LAMBDA kind : kind # "annotation" /\ x.styles[kind] # ""))
WrapInnermostFirst(n, x) ==
    FoldLeft(LAMBDA inner, mark : WrapMark(mark, inner), IF x.linked THEN Link(x.href, x.title, <<n>>) ELSE n,
             StyleWraps(x) \o x.annotations)

WrapAtomMarks(n, x) ==
    FoldLeft(LAMBDA inner, mark : WrapMark(mark, inner), IF x.linked THEN Link(x.href, x.title, <<n>>) ELSE n,
             StyleWraps(x) \o Reverse(x.annotations))
AtomLeaf(a) ==
    CASE a.break -> Break
      [] a.nodes # <<>> -> WrapAtomMarks(a.nodes[1], a.x)
      [] OTHER -> WrapAtomMarks(IF a.code THEN InlineCode(a.v) ELSE Text(a.v), a.x)

IsTextAtom(a) == a.nodes = <<>> /\ ~a.code /\ ~a.break
JoinTextAtoms(atoms) ==
    LET Join(acc, a) ==
            IF acc # <<>> /\ IsTextAtom(Last(acc)) /\ IsTextAtom(a) /\ Last(acc).x = a.x
            THEN Append(Front(acc), [Last(acc) EXCEPT !.v = @ \o a.v])
            ELSE Append(acc, a)
    IN  FoldLeft(Join, <<>>, atoms)

\* Neighbours that are the same mark written twice become one, which keeps the
\* attributes of the first.
KindOnly(n) == IF n.k \in {"link", "sup", "sub", "underline", "bg", "color", "annotation"} THEN <<n.k>> ELSE <<>>

MarkWrapperKey(n) ==
    CASE n.k = "link" /\ ~n.at.inlineCard -> <<"link", n.at.url, n.at.title>>
      [] n.k \in {"sup", "sub", "underline"} -> <<n.k>>
      [] n.k \in {"bg", "color"} -> <<n.k, Attr(n, "color")>>
      [] n.k = "annotation" -> <<n.k, Attr(n, "id"), Attr(n, "annotationType")>>
      [] OTHER -> <<>>
IsMarkWrapper(n) == MarkWrapperKey(n) # <<>> \/ n.k \in {"link", "strong", "emphasis", "delete"}
SameMarkWrapper(m, n) == MarkWrapperKey(m) # <<>> /\ MarkWrapperKey(m) = MarkWrapperKey(n)
JoinedWrappers(nodes) ==
    LET Join(acc, n) ==
            IF acc # <<>> /\ SameMarkWrapper(Last(acc), n)
            THEN Append(Front(acc), [Last(acc) EXCEPT !.c = @ \o n.c])
            ELSE Append(acc, n)
    IN  FoldLeft(Join, <<>>, nodes)
RECURSIVE JoinMarkWrappers(_)
JoinMarkWrappers(nodes) ==
    Each(LAMBDA n : IF IsMarkWrapper(n) THEN [n EXCEPT !.c = JoinMarkWrappers(@)] ELSE n, JoinedWrappers(nodes))

Spanned(a) == [spans |-> a.spans, code |-> a.code, break |-> a.break, v |-> a.v, leaf |-> AtomLeaf(a)]
RegroupAtoms(atoms) ==
    JoinMarkWrappers(GroupSpans(Each(Spanned, JoinTextAtoms(InferAcrossCode(atoms, FALSE))), {}))
Regrouped(r) == [r EXCEPT !.out = RegroupAtoms(@)]

\* The canonical payload of the dialect's inline atoms.
LabelledAtom(n, label) == IF label = <<>> THEN <<>> ELSE <<Node(n.k, Payload(n), <<Text(label)>>)>>
ChipAttrs(n) ==
    Picked(n.at, {"collection", "id", "path", "href"})
        @@ AttrIf("type", IF Attr(n, "type") = "file" THEN "" ELSE Attr(n, "type"))
        @@ AttrIf("hrefTitle", IF Attr(n, "href") = "" THEN "" ELSE Attr(n, "hrefTitle"))
        @@ (IF Attr(n, "annotationId") = "" THEN NoAttrs
            ELSE [annotationId |-> n.at.annotationId, annotationType |-> "inlineComment"])
DateNode(ts, n) == Node("date", ("timestamp" :> ts) @@ Payload(n), IF Found(DayOf, ts) THEN <<Text(DayOf[ts])>> ELSE <<>>)
Derived(n) ==
    CASE n.k \in LabelKinds -> LabelledAtom(n, TrimSpace(PlainText(n.c)))
      [] n.k = "placeholder" -> LabelledAtom(n, PlainText(n.c))
      [] n.k = "mediaInline" -> <<Node("mediaInline", ChipAttrs(n), LabelOf(TrimSpace(PlainText(n.c))))>>
      [] n.k = "date" -> IF Timestamp(n) = "" THEN <<>> ELSE <<DateNode(Timestamp(n), n)>>
      [] n.k = "inlineExtension" -> IF HasKey(n) THEN <<Node(n.k, Payload(n), <<>>)>> ELSE <<>>
      [] n.k = "emoji" ->
            IF Attr(n, "shortName") = "" THEN <<>> ELSE <<Node("emoji", Picked(n.at, {"shortName", "id"}), <<>>)>>
AtomKinds == LabelKinds \cup {"placeholder", "mediaInline", "date", "inlineExtension", "emoji"}

\* The attributes an author wrote that the canonical form does not read.
AtomAttrsRead(n) ==
    IF n.k = "mediaInline"
    THEN {"type", "id", "collection", "path", "href", "hrefTitle", "annotationId", "annotationType"}
    ELSE PayloadKeys[n.k]
MarkAttrsRead == [color |-> {"color"}, bg |-> {"color"}, underline |-> {}, sub |-> {}, sup |-> {}, annotation |-> {"id", "annotationType"}]
HasUnreadAttr(at, read) == DOMAIN at \ read # {}
KeepsUnreadMark(keep, n) == keep /\ n.k \in DOMAIN MarkAttrsRead /\ HasUnreadAttr(n.at, MarkAttrsRead[n.k])
CarryUnread(n, src) == [n EXCEPT !.at = @ @@ [key \in DOMAIN src.at \ AtomAttrsRead(src) |-> src.at[key]]]

LeaveBare(n) == n

\* A chip without attributes would be a word: it says its type.
UnbareChip(n) == IF n.k = "mediaInline" /\ DOMAIN n.at = {} /\ n.c = <<>> THEN [n EXCEPT !.at = [type |-> "file"]] ELSE n
EmojiText(keep, n) ==
    IF n.k # "emoji" \/ Attr(n, "shortName") = "" \/ (keep /\ HasUnreadAttr(n.at, AtomAttrsRead(n))) THEN ""
    ELSE IF Attr(n, "text") # "" THEN n.at.text ELSE Lookup(options.emoji, n.at.shortName, "")
EmptiedDropped(keep, n, atoms, x) == atoms

\* What the format leg cannot turn into a node stays as the author wrote it.
KeepEmptied(keep, n, atoms, x) == IF keep /\ atoms = <<>> THEN <<NodeAtom(n, x)>> ELSE atoms
DialectAtom(keep, n, x) ==
    IF EmojiText(keep, n) # "" THEN <<Atom(<<EmojiText(keep, n)>>, NoMarks)>>
    ELSE KeepEmptied(keep, n, Each(LAMBDA m : NodeAtom(IF keep THEN UnbareChip(CarryUnread(m, n)) ELSE m, NoMarks), Derived(n)), x)

RECURSIVE FlattenInlines(_, _, _)

\* Nodes that ride whole under the marks around them, with a label of their own.
Riders(keep) == {"image", "imageReference", "linkReference", "footnoteReference"} \cup (IF keep THEN {"textDirective"} ELSE {})
RidesUnder(n, x) == IF n.k \in {"image", "imageReference"} THEN LinkOnly(x) ELSE x
Riding(label, n, x) == Result(<<NodeAtom([n EXCEPT !.c = RegroupAtoms(label.out)], x)>>, label.log)

\* The marks a node puts around its children.
MarkedBy(n, x) ==
    CASE n.k = "strong" -> Styled(x, "strong", "on")
      [] n.k = "emphasis" -> Styled(x, "em", "on")
      [] n.k = "delete" -> Styled(x, "strike", "on")
      [] n.k = "link" -> Linked(x, n.at.url, n.at.title)
      [] n.k \in InlineExtensions /\ AddsStyle(n) -> FlattenStyled(x, EncodeStyle(n))
      [] OTHER -> x
Dissolved(keep, n, r, x) ==
    CASE n.k \in StyleKinds \cup {"annotation"} -> [r EXCEPT !.out = KeepEmptied(keep, n, @, x)]
      [] n.k = "fontSize" -> Both(Report("fontSizeDropped", ""), [r EXCEPT !.out = KeepEmptied(keep, n, @, x)])
      [] n.k = "textDirective" -> Both(Only(Atom(<<":" \o n.at.name>>, x)), r)
      [] n.k \in {"code", "yaml"} -> When(n.at.v # <<>>, Only(Atom(n.at.v, x)))
      [] OTHER -> r

FlattenInline(keep, n, x) ==
    CASE n.k = "text" -> When(n.at.v # <<>>, Only(Atom(n.at.v, x)))
      [] n.k = "inlineCode" -> Only(CodeAtom(n.at.v, x))
      [] n.k = "break" -> Only(BreakAtom)
      [] n.k = "html" -> When(n.at.v # <<>>, Only(NodeAtom(n, NoMarks)))
      [] n.k \in Riders(keep) -> Riding(FlattenInlines(keep, n.c, NoMarks), n, RidesUnder(n, x))
      [] KeepsUnreadMark(keep, n) -> Riding(FlattenInlines(keep, n.c, NoMarks), n, x)
      [] n.k \in AtomKinds -> Result(DialectAtom(keep, n, x), <<>>)
      [] n.k \in {"rawText", "bareDirective", "confluenceInlineMacro"} -> Only(NodeAtom(n, x))
      [] n.k \in {"rawBlock", "rawLeaf"} \cup MacroBlocks -> Only(NodeAtom(n, NoMarks))
      [] n.k \in BlockExtensions \ RawKinds -> Nothing
      [] OTHER -> Dissolved(keep, n, FlattenInlines(keep, n.c, MarkedBy(n, x)), x)
FlattenInlines(keep, nodes, x) == Concat([i \in DOMAIN nodes |-> FlattenInline(keep, nodes[i], x)] \o <<>>)
NormalizeInlines(keep, nodes) == Regrouped(FlattenInlines(keep, nodes, NoMarks))

\* A block on its way through the pass: its nodes, and the widths and block
\* marks it takes along until it is written.
Item(kind, nodes) == [kind |-> kind, nodes |-> nodes, widths |-> <<>>, wraps |-> <<>>]
Normal(n) == Only(Item("normal", <<n>>))
Filled(r, n) == Result(<<Item("normal", <<[n EXCEPT !.c = r.out]>>)>>, r.log)

\* Media, as the picture it can be or with the attributes nothing else says.
MediaImaged(n, media, single) == Imaged(media, single) /\ ~(media.at.type = "external" /\ Attr(n, "path") # "")
AssetPath(n, media) == IF HasAsset(media.at.id) THEN options.assets[media.at.id].path ELSE Attr(n, "path")
SourceAttrs(n, media) ==
    IF AssetPath(n, media) = "" THEN AttrIf("id", media.at.id)
    ELSE ("path" :> AssetPath(n, media)) @@ AttrIf("id", IF Attr(n, "path") = "" THEN "" ELSE Attr(n, "id"))
CanonicalMediaAttrs(n, media, single, group) ==
    LET shown == MediaAttrs(media, single, group) IN SourceAttrs(n, media) @@ [key \in DOMAIN shown \ {"id", "path"} |-> shown[key]]
MediaLeafNode(n, media, group) ==
    Node("media", CanonicalMediaAttrs(n, media, IF group THEN NoSingle ELSE MediaSingle(n, media), group), LabelOf(media.at.alt))
SingleNode(n, media) ==
    IF MediaImaged(n, media, MediaSingle(n, media)) THEN ImageParagraph(media, MediaSingle(n, media), "")
    ELSE MediaLeafNode(n, media, FALSE)
CaptionedNode(n, media, inlines) ==
    IF PlainCaption(inlines) /\ MediaImaged(n, media, MediaSingle(n, media))
    THEN ImageParagraph(media, MediaSingle(n, media), AsValue(inlines[1].at.v))
    ELSE Node("mediaCaption", CanonicalMediaAttrs(n, media, MediaSingle(n, media), FALSE),
              (IF media.at.alt = <<>> THEN <<>> ELSE <<LabelParagraph(LabelOf(media.at.alt))>>) \o <<Paragraph(inlines)>>)
MediaItem(n, media) ==
    IF Attr(n, "group") = "true" THEN Item("mediaGroup", <<MediaLeafNode(n, media, TRUE)>>)
    ELSE Item("mediaSingle", <<SingleNode(n, media)>>)
CaptionItem(n, media, caption) ==
    Result(<<Item("mediaSingle", <<IF caption.out = <<>> THEN SingleNode(n, media)
                                   ELSE CaptionedNode(n, media, RegroupAtoms(caption.out))>>)>>, caption.log)
CaptionAtoms(lines) == JoinedLines(lines, BreakAtom)

\* Cards: a label goes back to the key only if the key names the same address.
SmartLinkKey(url) ==
    LET key == IF Len(url) = 1 THEN Lookup(options.keyFromURL, url[1], url) ELSE url IN
    IF Lookup(options.urlForKey, key, <<>>) = url THEN key ELSE url
CardAttrs(n) == IF n.k = "linkEmbed" THEN [layout |-> EmbedLayout(n)] ELSE NoAttrs
CardItem(n, label) ==
    CASE n.k = "jql" /\ EncodesAsDatasource(n) -> Normal(Node("jql", Payload(n), <<Text(label)>>))
      [] n.k = "jql" /\ ~EncodesAsDatasource(n) ->
            Both(Report("jqlDegraded", ""), When(label # <<>>, Normal(Paragraph(<<Text(label)>>))))
      [] n.k \in CardKinds /\ CardResolves(n) -> Normal(Node(n.k, CardAttrs(n), <<Text(SmartLinkKey(SmartLinkURL(label)))>>))
      [] n.k \in CardKinds /\ ~CardResolves(n) ->
            Both(Report("smartLinkDegraded", n.k), When(TrimSpace(label) # <<>>, Normal(Paragraph(<<Text(TrimSpace(label))>>))))

\* Blocks that hold inlines or blocks as they did.
CheckCodeLanguage(n) ==
    When(n.at.lang # "" /\ options.codeLanguages # {} /\ n.at.lang \notin options.codeLanguages,
         Report("unsupportedCodeLanguage", n.at.lang))
Canonical(n) ==
    CASE n.k = "paragraph" -> Paragraph(n.c)
      [] n.k = "heading" -> Heading(IF n.at.depth > 6 THEN 6 ELSE AtLeast(n.at.depth, 1), n.at.id, n.c)
      [] n.k \in {"section", "column", "bodiedExtension", "bodiedSyncBlock"} -> Node(n.k, Payload(n), n.c)
      [] OTHER -> n
FramesOnly(n) == n.c # <<>> /\ \A i \in DOMAIN n.c : n.c[i].k = "frame"
\* An extension whose body is gone says that it had frames for one.
MultiBodied(n, body) ==
    IF n.k = "bodiedExtension" /\ (Attr(n, "multi") # "" \/ FramesOnly(n)) /\ body.out = <<>>
    THEN [Canonical(n) EXCEPT !.at = ("multi" :> "on") @@ @] ELSE Canonical(n)
HoldsInlines(keep, n) == n.k \in {"paragraph", "heading"} \/ (keep /\ n.k = "leafDirective")
HoldsBlocks(keep, n) ==
    \/ n.k \in {"blockquote", "footnoteDefinition", "panel", "expand", "frame", "section", "column"}
    \/ n.k = "bodiedExtension" /\ HasKey(n)
    \/ n.k = "bodiedSyncBlock" /\ Attr(n, "resourceId") # ""
    \/ keep /\ n.k = "containerDirective"
\* The label of a container: an expand's is its text, a generic one's its inlines.
LabelsItself(n) == n.k \in {"expand", "containerDirective"} /\ HasLabel(n.c)
Unlabelled(n) == IF LabelsItself(n) THEN Tail(n.c) ELSE n.c
ExpandLabel(n) == IF TrimSpace(LabelText(n.c)) = <<>> THEN Nothing ELSE Only(LabelParagraph(<<Text(LabelText(n.c))>>))

\* Lists. A task that opens with a paragraph keeps its blocks, any other one is
\* a line; a decision is a line, its paragraphs grouped as one run.
KeepsTaskBlocks(item) == Len(item.c) > 1 /\ item.c[1].k = "paragraph"
TaskListItem(item) == ListItem(IF item.at.checked = "yes" THEN "yes" ELSE "no", <<>>)
PlainList(list) == List(list.at.ordered, IF list.at.ordered THEN list.at.start ELSE 1, list.at.spread, <<>>)

\* What becomes of the items of a container that has no node of its own.
DissolvedItems(n, r) ==
    CASE n.k \in MarkKinds /\ BlockMark(n) # Unmarked ->
            [r EXCEPT !.out = Each(LAMBDA item : [item EXCEPT !.wraps = Append(@, BlockMark(n))], @)]
      [] n.k = "containerDirective" -> [r EXCEPT !.out = IF Len(@) = 1 THEN @ ELSE <<>>]
      [] n.k \in MarkKinds \cup {"bodiedExtension", "bodiedSyncBlock"} -> r
      [] OTHER -> [r EXCEPT !.out = IF @ = <<>> THEN <<>> ELSE <<@[1]>>]
UntouchedBlocks == {"thematicBreak", "definition", "html", "yaml", "rawBlock", "rawLeaf", "bareDirective"} \cup InlineExtensions \cup MacroBlocks
LeafItem(n) ==
    CASE n.k = "code" -> Both(CheckCodeLanguage(n), Normal(n))
      [] n.k = "extension" -> When(HasKey(n), Normal(Node(n.k, Payload(n), <<>>)))
      [] n.k = "syncBlock" -> When(Attr(n, "resourceId") # "", Normal(Node(n.k, Payload(n), <<>>)))
      [] n.k = "colwidths" -> When(n.at.widths # <<>>, Only([Item("colwidths", <<>>) EXCEPT !.widths = n.at.widths]))
      [] n.k = "media" -> Only(MediaItem(n, MediaNode(n, PlainText(n.c))))
      [] n.k \in UntouchedBlocks -> Normal(n)

\* Joining, sizing and writing the items.
AppendItem(items, item) ==
    IF items # <<>> /\ {item.kind, Last(items).kind} = {"mediaGroup"} /\ item.wraps = <<>> /\ Last(items).wraps = <<>>
    THEN Append(Front(items), [Last(items) EXCEPT !.nodes = @ \o item.nodes])
    ELSE Append(items, item)
SizesTable(items, i) == i + 1 \in DOMAIN items /\ items[i].kind = "colwidths" /\ items[i + 1].kind = "table"
ResolveColwidths(items) ==
    LET Resolve(i) ==
            CASE items[i].kind = "colwidths" -> When(~SizesTable(items, i), Report("colwidthsOrphan", ""))
              [] i > 1 /\ SizesTable(items, i - 1) -> Only([items[i] EXCEPT !.widths = items[i - 1].widths])
              [] OTHER -> Only(items[i])
    IN  Concat([i \in DOMAIN items |-> Resolve(i)] \o <<>>)
JoinedItems(r) == Both(Result(<<>>, r.log), ResolveColwidths(FoldLeft(AppendItem, <<>>, r.out)))

\* The widths a table writes are those of its first row's columns.
TableWidths(table, widths) == SubSeq(widths, 1, Min({Len(widths), ColumnsOf(table.c[1].c)}))
ItemHint(item) == IF item.kind = "table" THEN WidthsHint(TableWidths(item.nodes[1], item.widths)) ELSE <<>>
DecodeItem(item) ==
    FoldLeft(LAMBDA nodes, mark : BlockMarkWrapper(mark, nodes), ItemHint(item) \o item.nodes, item.wraps)

RECURSIVE EncodeItems(_, _)
NormalizeBlocks(keep, nodes) == [EncodeItems(keep, nodes) EXCEPT !.out = FlatMap(DecodeItem, @)]

NormalizeParagraphs(keep, item) ==
    InParagraph(ConcatOf(LAMBDA p : NormalizeInlines(keep, p.c), SelectSeq(item.c, LAMBDA b : b.k = "paragraph")))
DecisionLine(keep, item) ==
    Wrapped(InParagraph(Regrouped(ConcatOf(LAMBDA p : FlattenInlines(keep, p.c, NoMarks),
                                           SelectSeq(item.c, LAMBDA b : b.k = "paragraph")))), ListItem("none", <<>>))
NormalizeItem(keep, item, task) ==
    IF task /\ ~KeepsTaskBlocks(item) THEN NormalizeParagraphs(keep, item) ELSE NormalizeBlocks(keep, item.c)
NormalizeList(keep, list, task) ==
    Filled(ConcatOf(LAMBDA item : Wrapped(NormalizeItem(keep, item, task), IF task THEN TaskListItem(item) ELSE ListItem("none", <<>>)), list.c),
           IF task THEN List(FALSE, 0, FALSE, <<>>) ELSE PlainList(list))
DecisionsItem(keep, list) ==
    LET r == ConcatOf(LAMBDA item : DecisionLine(keep, item), list.c) IN
    Result(<<Item("decisions", <<Node("decisions", NoAttrs, <<>>), List(FALSE, 0, FALSE, r.out)>>)>>, r.log)

NormalizeCell(keep, cell) ==
    Wrapped(NormalizeInlines(keep, cell.c), TableCell(SpanAttr(cell.at.colspan), SpanAttr(cell.at.rowspan), <<>>))
NormalizeRow(keep, columns, carries, row) ==
    Wrapped(Both(ConcatOf(LAMBDA cell : NormalizeCell(keep, cell), row.c),
                 Result(Padding(columns - Carried(carries) - ColumnsOf(row.c)), <<>>)), TableRow(<<>>))
NormalizeTable(keep, rows, align) ==
    LET Convert(acc, row) ==
            [carries |-> Advance(acc.carries, row.c),
             r |-> Both(acc.r, NormalizeRow(keep, ColumnsOf(rows[1].c), acc.carries, row))]
        converted == FoldLeft(Convert, [carries |-> <<>>, r |-> Nothing], rows).r
        blank == IF rows[1].c = <<>> THEN <<TableRow(<<>>)>> ELSE <<>>
    IN  Result(<<Item("table", <<Table(align, blank \o converted.out)>>)>>, converted.log)

Labelling(keep, n) ==
    CASE n.k = "expand" -> ExpandLabel(n)
      [] n.k = "containerDirective" /\ HasLabel(n.c) -> Wrapped(NormalizeInlines(keep, n.c[1].c), LabelParagraph(<<>>))
      [] OTHER -> Nothing
EncodeItem(keep, n) ==
    CASE HoldsInlines(keep, n) -> Filled(NormalizeInlines(keep, n.c), Canonical(n))
      [] HoldsBlocks(keep, n) ->
            LET body == NormalizeBlocks(keep, Unlabelled(n)) IN Filled(Both(Labelling(keep, n), body), MultiBodied(n, body))
      [] n.k = "list" -> NormalizeList(keep, n, IsTaskList(n))
      [] n.k = "table" -> When(n.c # <<>>, NormalizeTable(keep, n.c, n.at.align))
      [] n.k = "mediaCaption" ->
            CaptionItem(n, MediaNode(n, LabelText(n.c)), CaptionAtoms(Each(LAMBDA b : FlattenInlines(keep, b.c, NoMarks), Body(n))))
      [] n.k \in CardKinds \cup {"jql"} -> CardItem(n, PlainText(n.c))
      [] n.k \in {"code", "extension", "syncBlock", "colwidths", "media"} \cup UntouchedBlocks -> LeafItem(n)
      [] n.k = "leafDirective" /\ ~keep -> Nothing
      [] OTHER -> DissolvedItems(n, EncodeItems(keep, n.c))
ItemAt(keep, nodes, i) ==
    CASE nodes[i].k = "decisions" -> When(~DecisionTarget(nodes, i), Report("decisionsOrphan", ""))
      [] i > 1 /\ nodes[i - 1].k = "decisions" /\ DecisionTarget(nodes, i - 1) -> DecisionsItem(keep, nodes[i])
      [] OTHER -> EncodeItem(keep, nodes[i])
EncodeItems(keep, nodes) == JoinedItems(Concat([i \in DOMAIN nodes |-> ItemAt(keep, nodes, i)] \o <<>>))

NormalizeRoot(keep, root) ==
    [NormalizeBlocks(keep, root.c) EXCEPT !.out = Root(IF @ = <<>> THEN <<Paragraph(<<>>)>> ELSE @)]
=============================================================================
