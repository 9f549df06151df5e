------------------------------ MODULE AstToAdf ------------------------------
(* Encoding a Markdown tree as an ADF document (package convert, ToADF).      *)
(* The converter's configuration is the variable options of DialectEncode;    *)
(* what it collects before it starts (footnotes and link definitions) is the  *)
(* record e every operator takes; what it reports is the log of its result.   *)
EXTENDS DialectEncode

\* The index of footnotes and link definitions, over the whole tree.
CollectFootnotes(root) ==
    LET all == Walk(root) IN
    [defs |-> SelectSeq(all, LAMBDA n : n.k = "footnoteDefinition"),
     refs |-> {all[i].at.label : i \in {j \in DOMAIN all : all[j].k = "footnoteReference"}}]
FirstWith(label, nodes) == SelectInSeq(nodes, LAMBDA n : n.at.label = label)
\* Forms the code could have had instead; each breaks a property of a run.
NumberedByUse(e, label) ==
    FirstWith(label, SelectSeq(e.footnotes.defs, LAMBDA d : d.at.label \in e.footnotes.refs))

FootnoteNumber(e, label) == FirstWith(label, e.footnotes.defs)
Reachable(e, i) ==
    LET label == e.footnotes.defs[i].at.label IN label \in e.footnotes.refs /\ FootnoteNumber(e, label) = i

CollectDefinitions(root) == SelectSeq(Walk(root), LAMBDA n : n.k = "definition")
Resolves(e, label) == FirstWith(label, e.definitions) # 0
Resolved(e, label) == e.definitions[FirstWith(label, e.definitions)].at
Use(e, label) == When(Resolves(e, label), Report("used", label))
UsedLabels(log) == {log[i].about : i \in {j \in DOMAIN log : log[j].code = "used"}}
DefinitionLosses(e, log) ==
    ConcatOf(LAMBDA d : When(d.at.label \notin UsedLabels(log), Report("unusedDefinitionDropped", d.at.url)), e.definitions)

\* The marks a run of text inherits from the inline nodes around it.
NoMarks == [styles |-> [k \in ToSet(StyleOrder) |-> ""], annotations |-> <<>>, linked |-> FALSE, href |-> "", title |-> ""]
Styled(x, kind, value) == [x EXCEPT !.styles[kind] = value]
FlattenStyled(x, s) ==
    IF s.style = "annotation" THEN [x EXCEPT !.annotations = Append(@, Mark("annotation", s.v, s.w))]
    ELSE Styled(x, s.style, s.v)
LinkMarks(x) == IF x.linked THEN <<LinkMark(x.href, x.title)>> ELSE <<>>
BuildMarks(x) ==
    LET on == SelectSeq(StyleOrder, LAMBDA k : x.styles[k] # "") IN
    Each(LAMBDA k : Mark(k, x.styles[k], ""), on) \o x.annotations \o LinkMarks(x)
EnclosingLink(x) == IF x.href = "" THEN <<>> ELSE LinkMarks(x)

SameMarks(a, b) == a = b

MarksSetEqual(a, b) ==
    Len(a) = Len(b) /\ \A m \in ToSet(a) \cup ToSet(b) :
        Cardinality({i \in DOMAIN a : a[i] = m}) = Cardinality({i \in DOMAIN b : b[i] = m})
MergeAdjacentADFText(nodes) ==
    LET Merge(acc, n) ==
            IF acc # <<>> /\ n.k = "text" /\ Last(acc).k = "text" /\ MarksSetEqual(Last(acc).marks, n.marks)
            THEN Append(Front(acc), [Last(acc) EXCEPT !.at.v = @ \o n.at.v])
            ELSE Append(acc, n)
    IN  FoldLeft(Merge, <<>>, nodes)

\* Images: an uploaded one is media, the rest keep their label as a link.
ImageLabel(img) == IF PlainText(img.c) # <<>> THEN PlainText(img.c) ELSE IF img.at.url = "" THEN <<>> ELSE <<img.at.url>>
InsideLink(x) == x.linked /\ x.href # ""
KeptLink(img, x) == IF InsideLink(x) THEN LinkMark(x.href, x.title) ELSE LinkMark(img.at.url, img.at.title)
DegradeUnplaceableImage(img, x) ==
    LET link == KeptLink(img, x)
        text == ADFText(ImageLabel(img), IF link.v = "" THEN <<>> ELSE <<link>>)
    IN  When(ImageLabel(img) # <<>>,
             Both(When(img.at.url # "", Report("unresolvedAsset", img.at.url)), Only(text)))
DegradeInlineImage(img, x) ==
    Both(Report("inlineImageDegraded", img.at.url), Only(ADFText(ImageLabel(img), <<KeptLink(img, x)>>)))
InlineImage(img, x) ==
    IF AssetID(img.at.url) # ""
    THEN Only([ADF("mediaInline", [type |-> "file", id |-> AssetID(img.at.url), alt |-> PlainText(img.c)], <<>>)
                  EXCEPT !.marks = EnclosingLink(x)])
    ELSE IF AbsoluteHTTP(img.at.url) THEN DegradeInlineImage(img, x) ELSE DegradeUnplaceableImage(img, x)

LinkHref(link) == Lookup(options.linkTargets, link.at.url, link.at.url)
IsSmartLink(link) ==
    \/ link.at.inlineCard
    \/ Found(options.keyFromURL, link.at.url) /\ PlainText(link.c) = options.keyFromURL[link.at.url]
CarriesLink(out, href) ==
    \E i \in DOMAIN WalkAll(out) : \E j \in DOMAIN WalkAll(out)[i].marks :
        WalkAll(out)[i].marks[j].m = "link" /\ WalkAll(out)[i].marks[j].v = href

ReportMediaSource(n) ==
    IF UnresolvedMediaPath(n) THEN Report("unresolvedAsset", MediaLookupPath(n))
    ELSE When(SourcelessMedia(n), Report("unresolvedAsset", ""))
ReportRaw(n) == When(RawNodeCorrupted(n), Report("rawNodeCorrupted", n.k))

\* A reference as the inline node its definition makes of it.
References == {"linkReference", "imageReference"}
FromDefinition(n, def) == IF n.k = "linkReference" THEN Link(def.url, def.title, n.c) ELSE Image(def.url, def.title, n.c)
AsInline(e, n) ==
    IF n.k \in References /\ Resolves(e, n.at.label) THEN FromDefinition(n, Resolved(e, n.at.label)) ELSE n
UseOf(e, n) == When(n.k \in References, Use(e, n.at.label))

RECURSIVE Block(_, _), Blocks(_, _), Inline(_, _, _), Inlines(_, _, _)

\* Inline nodes.
Linked(x, href, title) == [x EXCEPT !.linked = TRUE, !.href = href, !.title = title]
KeepDestinationSilently(label, href) == label

KeepDestination(label, href) ==
    Both(label, When(~CarriesLink(label.out, href) /\ href # "", Report("linkDestinationDropped", href)))
FlattenLink(e, link, x) ==
    CASE IsSmartLink(link) -> Only(ADF("inlineCard", [url |-> link.at.url], <<>>))
      [] ~IsSmartLink(link) /\ Found(options.fileCards, LinkHref(link)) ->
            Only(ADF("mediaInline", [type |-> "file", id |-> options.fileCards[LinkHref(link)], alt |-> <<>>], <<>>))
      [] OTHER -> KeepDestination(Inlines(e, link.c, Linked(x, LinkHref(link), link.at.title)), LinkHref(link))

FlattenFootnoteRef(e, n, x) ==
    IF FootnoteNumber(e, n.at.label) = 0 THEN Only(ADFText(<<"[^" \o n.at.label \o "]">>, BuildMarks(x)))
    ELSE Only(ADFText(<<ToString(FootnoteNumber(e, n.at.label))>>, BuildMarks(Styled(x, "subsup", "sup"))))

UnresolvedRef(e, n, lead, x) ==
    LET Literal(v) == Only(ADFText(v, BuildMarks(x))) IN
    CASE n.at.type = "full" ->
            Concat(<<Literal(<<lead \o "[">>), Inlines(e, n.c, x), Literal(<<"][" \o n.at.label \o "]">>)>>)
      [] n.at.type = "collapsed" -> Literal(<<lead \o "[" \o n.at.label \o "][]">>)
      [] n.at.type = "shortcut" -> Literal(<<lead \o "[" \o n.at.label \o "]">>)

InlineRef(e, n, x) ==
    IF ~Resolves(e, n.at.label) THEN UnresolvedRef(e, n, IF n.k = "imageReference" THEN "!" ELSE "", x)
    ELSE Both(Use(e, n.at.label),
              IF n.k = "imageReference" THEN InlineImage(AsInline(e, n), x) ELSE FlattenLink(e, AsInline(e, n), x))

EncodeExtension(e, n, x) ==
    IF n.k \in BlockExtensions
    THEN EncodeBlock(n, Blocks(e, Body(n)), Each(LAMBDA b : Inlines(e, b.c, x), Body(n)))
    ELSE EncodeInline(n, Inlines(e, n.c, IF AddsStyle(n) THEN FlattenStyled(x, EncodeStyle(n)) ELSE x))
InlineExtension(e, n, x) ==
    Concat(<<When(n.k = "fontSize", Report("fontSizeDropped", "")), ReportRaw(n), ReportMediaSource(n),
             EncodeExtension(e, n, x)>>)

InlineFallback(e, n, x) ==
    IF n.c # <<>> THEN Inlines(e, n.c, x)
    ELSE When(n.k \in {"code", "yaml"} /\ n.at.v # <<>>, Only(ADFText(n.at.v, BuildMarks(x))))

Inline(e, n, x) ==
    CASE n.k \in {"text", "html"} -> When(n.at.v # <<>>, Only(ADFText(n.at.v, BuildMarks(x))))
      [] n.k = "inlineCode" -> Only(ADFText(n.at.v, <<Mark("code", "", "")>> \o LinkMarks(x)))
      [] n.k = "strong" -> Inlines(e, n.c, Styled(x, "strong", "on"))
      [] n.k = "emphasis" -> Inlines(e, n.c, Styled(x, "em", "on"))
      [] n.k = "delete" -> Inlines(e, n.c, Styled(x, "strike", "on"))
      [] n.k = "link" -> FlattenLink(e, n, x)
      [] n.k = "image" -> InlineImage(n, x)
      [] n.k = "break" -> Only(ADF("hardBreak", Plain, <<>>))
      [] n.k = "textDirective" -> Both(Only(ADFText(<<":" \o n.at.name>>, BuildMarks(x))), Inlines(e, n.c, x))
      [] n.k = "footnoteReference" -> FlattenFootnoteRef(e, n, x)
      [] n.k \in {"linkReference", "imageReference"} -> InlineRef(e, n, x)
      [] n.k \in {"footnoteDefinition", "definition"} -> Nothing
      [] n.k \in InlineExtensions \cup BlockExtensions -> InlineExtension(e, n, x)
      [] OTHER -> InlineFallback(e, n, x)

Inlines(e, nodes, x) ==
    [ConcatOf(LAMBDA n : Inline(e, n, x), nodes) EXCEPT !.out = MergeAdjacentADFText(@)]
ConvertInlines(e, nodes) == Inlines(e, nodes, NoMarks)

\* Lists. An item is a task when any item of its list has a checkbox.
IsTaskList(list) == \E i \in DOMAIN list.c : list.c[i].at.checked # "none"
ParagraphInlines(e, item) ==
    ConcatOf(LAMBDA p : ConvertInlines(e, p.c), SelectSeq(item.c, LAMBDA b : b.k = "paragraph"))
TaskItem(e, item) ==
    LET at == [state |-> IF item.at.checked = "yes" THEN "DONE" ELSE "TODO"]
        single == item.c = <<>> \/ (Len(item.c) = 1 /\ item.c[1].k = "paragraph")
    IN  IF ~single /\ item.c[1].k = "paragraph" THEN Wrapped(Blocks(e, item.c), ADF("blockTaskItem", at, <<>>))
        ELSE Wrapped(ParagraphInlines(e, item), ADF("taskItem", at, <<>>))
DecisionItem(e, item) == Wrapped(ParagraphInlines(e, item), ADF("decisionItem", [state |-> "DECIDED"], <<>>))
ListOf(items, kind, at) == Wrapped(Concat(items), ADF(kind, at, <<>>))
ConvertList(e, list) ==
    LET tight == IF options.preserveTight THEN (IF list.at.spread THEN "loose" ELSE "tight") ELSE "" IN
    IF IsTaskList(list) THEN ListOf(Each(LAMBDA item : TaskItem(e, item), list.c), "taskList", Plain)
    ELSE ListOf(Each(LAMBDA item : Wrapped(Blocks(e, item.c), ADF("listItem", Plain, <<>>)), list.c),
                IF list.at.ordered THEN "orderedList" ELSE "bulletList",
                [tight |-> tight, order |-> IF list.at.ordered THEN list.at.start ELSE 0])
DecisionTarget(nodes, i) ==
    /\ i + 1 <= Len(nodes) /\ nodes[i + 1].k = "list" /\ ~nodes[i + 1].at.ordered
    /\ ~IsTaskList(nodes[i + 1])

\* Tables. Widths go to the columns a row's cells really start at: a cell that
\* spans rows covers its columns in the rows below.
InParagraphOf(inlines) == Wrapped(inlines, ADF("paragraph", Plain, <<>>))
ConvertCell(e, cell, kind) ==
    Wrapped(InParagraphOf(ConvertInlines(e, cell.c)),
            ADF(kind, [colspan |-> SpanAttr(cell.at.colspan), rowspan |-> SpanAttr(cell.at.rowspan), colwidth |-> <<>>], <<>>))
ConvertRow(e, row, kind) ==
    Wrapped(ConcatOf(LAMBDA cell : ConvertCell(e, cell, kind), row.c), ADF("tableRow", Plain, <<>>))
ConvertTable(e, table) ==
    LET Row(i) == ConvertRow(e, table.c[i], IF i = 1 THEN "tableHeader" ELSE "tableCell") IN
    When(table.c # <<>>, Wrapped(Concat([i \in DOMAIN table.c |-> Row(i)] \o <<>>), ADF("table", [align |-> AnyAligned(table.at.align)], <<>>)))

NextColumn(covered, row, col) == col

\* The first column from col on that no cell of an earlier row covers.
RECURSIVE FreeColumn(_, _, _)
FreeColumn(covered, row, col) == IF <<row, col>> \in covered THEN FreeColumn(covered, row, col + 1) ELSE col
PlaceCell(acc, row, cell, widths) ==
    LET col == FreeColumn(acc.covered, row, acc.col)
        end == col + AtLeast(cell.at.colspan, 1)
        below == (row + 1)..(row + AtLeast(cell.at.rowspan, 1) - 1)
        own == SubSeq(widths, col, IF end - 1 < Len(widths) THEN end - 1 ELSE Len(widths))
    IN  [covered |-> acc.covered \cup (below \X (col..(end - 1))), col |-> end,
         cells |-> Append(acc.cells, IF col <= Len(widths) THEN [cell EXCEPT !.at.colwidth = own] ELSE cell)]
PlaceRow(acc, row, widths) ==
    LET placed == FoldLeft(LAMBDA a, cell : PlaceCell(a, Len(acc.rows) + 1, cell, widths),
                           [covered |-> acc.covered, col |-> 1, cells |-> <<>>], row.c)
    IN  [covered |-> placed.covered, rows |-> Append(acc.rows, [row EXCEPT !.c = placed.cells])]
ApplyTableColwidths(table, widths) ==
    [table EXCEPT !.c = FoldLeft(LAMBDA acc, row : PlaceRow(acc, row, widths), [covered |-> {}, rows |-> <<>>], @).rows]

KeepOrphanHint(nodes, i) == Only(nodes[i])

\* A hint is used up by the table after it.
SizedBy(nodes, i) == i \in DOMAIN nodes /\ nodes[i].k = "table" /\ i > 1 /\ nodes[i - 1].k = "colwidthsHint"
UseHint(nodes, i) == When(~SizedBy(nodes, i + 1), Report("colwidthsOrphan", ""))
ApplyColwidths(nodes) ==
    LET Sized(i) ==
            CASE nodes[i].k = "colwidthsHint" -> UseHint(nodes, i)
              [] SizedBy(nodes, i) -> Only(ApplyTableColwidths(nodes[i], nodes[i - 1].at.widths))
              [] OTHER -> Only(nodes[i])
    IN  Concat([i \in DOMAIN nodes |-> Sized(i)] \o <<>>)

\* A paragraph of one image, which may be linked, is a media block.
LoneImageMedia(img) ==
    LET id == IF AbsoluteHTTP(img.at.url) THEN "" ELSE AssetID(img.at.url)
        caption == IF img.at.title = "" THEN <<>> ELSE <<ADF("caption", Plain, <<ADFText(<<img.at.title>>, <<>>)>>)>>
        Single(layout, at) == <<ADF("mediaSingle", [layout |-> layout, width |-> ""], <<ADF("media", at, <<>>)>> \o caption)>>
    IN  CASE id # "" -> Single("align-start", [type |-> "file", id |-> id, url |-> "", alt |-> PlainText(img.c),
                                               width |-> AssetDims(img.at.url)])
          [] id = "" /\ ProjectsToImage(img.at.url) ->
                Single("center", [type |-> "external", id |-> "", url |-> img.at.url, alt |-> PlainText(img.c), width |-> ""])
          [] OTHER -> <<>>
WithMediaLink(single, link) ==
    IF LinkHref(link) = "" THEN single
    ELSE [single EXCEPT !.c[1] = AddMark(@, LinkMark(LinkHref(link), link.at.title))]
LoneMedia(n) == IF n.k = "image" THEN LoneImageMedia(n) ELSE <<>>
IsLoneLink(n) == n.k = "link" /\ ~n.at.inlineCard /\ Len(n.c) = 1
LinkedMedia(e, link) ==
    Each(LAMBDA single : WithMediaLink(single, link), LoneMedia(AsInline(e, link.c[1])))
LoneBlock(e, only) == IF IsLoneLink(only) THEN LinkedMedia(e, only) ELSE LoneMedia(only)
InnerUse(e, only) == When(IsLoneLink(only), UseOf(e, only.c[1]))
MediaOrParagraph(media, e, p) == IF media # <<>> THEN Only(media[1]) ELSE InParagraphOf(ConvertInlines(e, p.c))
ConvertParagraph(e, p) ==
    LET lone == Len(p.c) = 1 IN
    Concat(<<When(lone, UseOf(e, p.c[1])), When(lone, InnerUse(e, AsInline(e, p.c[1]))),
             MediaOrParagraph(IF lone THEN LoneBlock(e, AsInline(e, p.c[1])) ELSE <<>>, e, p)>>)

\* Blocks.
ReportBlock(n) ==
    Concat(<<When(n.k = "jql" /\ ~EncodesAsDatasource(n), Report("jqlDegraded", "")),
             When(n.k \in CardKinds /\ ~CardResolves(n), Report("smartLinkDegraded", n.k)),
             ReportRaw(n), ReportMediaSource(n)>>)
BlockExtension(e, n) == Both(ReportBlock(n), EncodeExtension(e, n, NoMarks))
ConvertCode(n) ==
    LET lang == Lookup(options.codeAliases, n.at.lang, n.at.lang)
        listed == lang = "" \/ options.codeLanguages = {} \/ lang \in options.codeLanguages
    IN  Both(When(~listed, Report("unsupportedCodeLanguage", lang)),
             Only(ADF("codeBlock", [language |-> lang], IF n.at.v = <<>> THEN <<>> ELSE <<ADFText(n.at.v, <<>>)>>)))
BlockFallback(e, n) == [Blocks(e, n.c) EXCEPT !.out = IF @ = <<>> THEN <<>> ELSE <<@[1]>>]
ConvertContainerDirective(e, n) == [Blocks(e, n.c) EXCEPT !.out = IF Len(@) = 1 THEN @ ELSE <<>>]

Block(e, n) ==
    CASE n.k = "paragraph" -> ConvertParagraph(e, n)
      [] n.k = "heading" ->
            Wrapped(ConvertInlines(e, n.c),
                    ADF("heading", [level |-> IF n.at.depth > 6 THEN 6 ELSE AtLeast(n.at.depth, 1), anchor |-> n.at.id], <<>>))
      [] n.k = "thematicBreak" -> Only(ADF("rule", Plain, <<>>))
      [] n.k = "blockquote" -> Wrapped(Blocks(e, n.c), ADF("blockquote", Plain, <<>>))
      [] n.k = "code" -> ConvertCode(n)
      [] n.k = "list" -> ConvertList(e, n)
      [] n.k = "table" -> ConvertTable(e, n)
      [] n.k = "containerDirective" -> ConvertContainerDirective(e, n)
      [] n.k \in {"leafDirective", "html", "yaml", "footnoteDefinition", "definition"} -> Nothing
      [] n.k \in {"footnoteReference"} \cup References -> InParagraphOf(ConvertInlines(e, <<n>>))
      [] n.k \in BlockExtensions \cup InlineExtensions -> BlockExtension(e, n)
      [] OTHER -> BlockFallback(e, n)

\* Neighbouring groups of media join, unless one of them is marked.
AppendBlock(out, n) ==
    IF out # <<>> /\ n.k = "mediaGroup" /\ Last(out).k = "mediaGroup" /\ n.marks = <<>> /\ Last(out).marks = <<>>
    THEN Append(Front(out), [Last(out) EXCEPT !.c = @ \o n.c])
    ELSE Append(out, n)
BlockAt(e, nodes, i) ==
    CASE nodes[i].k = "decisions" -> When(~DecisionTarget(nodes, i), Report("decisionsOrphan", ""))
      [] i > 1 /\ nodes[i - 1].k = "decisions" /\ DecisionTarget(nodes, i - 1) ->
            ListOf(Each(LAMBDA item : DecisionItem(e, item), nodes[i].c), "decisionList", Plain)
      [] OTHER -> Block(e, nodes[i])
JoinedBlocks(r) == Both(Result(<<>>, r.log), ApplyColwidths(FoldLeft(AppendBlock, <<>>, r.out)))
Blocks(e, nodes) == JoinedBlocks(Concat([i \in DOMAIN nodes |-> BlockAt(e, nodes, i)] \o <<>>))

\* The definitions of all footnotes, numbered as their references are.
FootnoteItem(e, i) ==
    Both(Wrapped([Blocks(e, e.footnotes.defs[i].c) EXCEPT !.out = IF @ = <<>> THEN <<ADF("paragraph", Plain, <<>>)>> ELSE @],
                 ADF("listItem", Plain, <<>>)),
         Report(IF Reachable(e, i) THEN "footnoteFlattened" ELSE "footnoteKept", ToString(i)))
FootnoteTail(e) ==
    When(e.footnotes.defs # <<>>,
         Both(Only(ADF("rule", Plain, <<>>)),
              ListOf([i \in DOMAIN e.footnotes.defs |-> FootnoteItem(e, i)] \o <<>>, "orderedList",
                     [tight |-> "", order |-> 1])))

\* Checks of the finished document against what the product takes.
ListItemAllowed == {"paragraph", "bulletList", "orderedList", "taskList", "mediaSingle", "codeBlock", "unsupportedBlock", "extension"}
ListItemViolations(doc) ==
    LET items == SelectSeq(WalkAll(doc), LAMBDA n : n.k = "listItem") IN
    UNION {{items[i].c[j].k : j \in DOMAIN items[i].c} : i \in DOMAIN items} \ ListItemAllowed
KindsIn(doc) ==
    LET all == WalkAll(doc) IN
    {all[i].k : i \in DOMAIN all} \cup UNION {{all[i].marks[j].m : j \in DOMAIN all[i].marks} : i \in DOMAIN all}
CheckKinds(doc) ==
    ConcatOf(LAMBDA k : Report("unsupportedInProduct", k), SetToSeq(KindsIn(doc) \cap options.unsupported))
CheckListItems(doc) ==
    ConcatOf(LAMBDA k : Report("listItemContent", k), SetToSeq(ListItemViolations(doc)))

RECURSIVE DropHeadingAnchors(_)
DropHeadingAnchors(nodes) ==
    ConcatOf(LAMBDA n :
        IF n.k = "heading" THEN Both(When(n.at.anchor # "", Report("headingAnchorDropped", n.at.anchor)),
                                     Only([n EXCEPT !.at.anchor = ""]))
        ELSE Wrapped(DropHeadingAnchors(n.c), n), nodes)

NonEmpty(r) == [r EXCEPT !.out = IF @ = <<>> THEN <<ADF("paragraph", Plain, <<>>)>> ELSE @]
Anchored(r) ==
    IF options.headingAnchors THEN r ELSE Both(Result(<<>>, r.log), DropHeadingAnchors(r.out))
Checked(r) == Result(r.out, Concat(<<r, CheckKinds(r.out), CheckListItems(r.out)>>).log)
Encoded(e, body) == Checked(Anchored(NonEmpty(Both(body, DefinitionLosses(e, body.log)))))
EncodedWith(e, root) == Encoded(e, Both(Blocks(e, root.c), FootnoteTail(e)))
ToADF(root) == EncodedWith([footnotes |-> CollectFootnotes(root), definitions |-> CollectDefinitions(root)], root)
=============================================================================
