---------------------------- MODULE MCConversion ----------------------------
(* Small pages and documents for TLC: one block for each way the conversions  *)
(* treat content, so that any two of them meet on a page.                     *)
EXTENDS Conversion

W(w) == Text(<<w>>)
P(w) == Paragraph(<<W(w)>>)
T(w) == ADFText(<<w>>, <<>>)
Strongly(v) == ADFText(v, <<Mark("strong", "on", "")>>)
Para(c) == ADF("paragraph", Plain, c)
CellOf(kind, colspan, rowspan, w) ==
    ADF(kind, [colspan |-> colspan, rowspan |-> rowspan, colwidth |-> <<>>], <<Para(<<T(w)>>)>>)

PageAt(id, slug) == [id |-> id, slug |-> slug, tail |-> ""]
Configured ==
    [assetIDs |-> ("a.png" :> "7"), assetDims |-> ("a.png" :> "w"), assets |-> ("7" :> [path |-> "a.png", dims |-> "w"]),
     remote |-> {"http"}, preserveLocalImages |-> FALSE,
     urlForKey |-> (<<"K">> :> <<"http-K">>), keyFromURL |-> ("http-K" :> <<"K">>),
     linkTargets |-> ("x.md" :> "page"), linkSources |-> ("page" :> "x.md"),
     fileCards |-> ("f" :> "9"), fileLinks |-> ("9" :> [href |-> "f", label |-> <<"F">>]),
     preserveTight |-> TRUE, codeAliases |-> ("golang" :> "go"), codeLanguages |-> {"go"},
     unsupported |-> {"panel"}, headingAnchors |-> TRUE, emoji |-> (":s:" :> "smile"),
     product |-> "none", macros |-> FALSE, expandKeys |-> FALSE,
     pages |-> ("1" :> PageAt("1", "") @@ "1/One" :> PageAt("1", "One") @@ "2" :> PageAt("2", "") @@ "2/Two" :> PageAt("2", "Two")
               @@ "3" :> PageAt("3", "")),
     titles |-> ("1" :> <<"One">> @@ "2" :> <<"Two">>)]
OnConfluence == [Configured EXCEPT !.product = "confluence", !.macros = TRUE, !.preserveTight = FALSE]
OnJira ==
    [Configured EXCEPT !.product = "jira", !.expandKeys = TRUE, !.assetIDs = <<>>, !.assetDims = <<>>, !.assets = <<>>,
        !.linkTargets = <<>>, !.linkSources = <<>>, !.fileCards = <<>>, !.fileLinks = <<>>, !.preserveTight = FALSE,
        !.headingAnchors = FALSE, !.emoji = <<>>, !.preserveLocalImages = TRUE]
MCConfigurations == {Configured, OnConfluence, OnJira}

Mention == TextDirective("mention", [id |-> "1"], <<W("J")>>)
Anchor(id) == TextDirective("anchor", NoAttrs, <<W(id)>>)
Noted(id, c) == TextDirective("annotation", [id |-> id], c)
Sized(widths) == LeafDirective("colwidths", [widths |-> widths], <<>>)
Cell(colspan, rowspan, w) == TableCell(colspan, rowspan, <<W(w)>>)
Single(block) == <<block>>
CommonPassages == {
    <<FootnoteDef("p", <<P("third"), Heading(1, "deep", <<W("fourth")>>)>>)>>,
    <<Paragraph(<<W("ref"), FootnoteRef("p"), FootnoteRef("nowhere")>>)>>,
    <<Sized(<<10, 20, 40>>),
      Table(<<>>, <<TableRow(<<Cell(1, 2, "q"), Cell(1, 1, "r"), Cell(1, 3, "r3")>>), TableRow(<<Cell(1, 1, "s")>>),
                    TableRow(<<Cell(2, 1, "s2")>>)>>)>>,
    <<LeafDirective("decisions", NoAttrs, <<>>), List(FALSE, 1, FALSE, <<ListItem("none", <<P("dec")>>)>>)>>} \cup {Single(block) : block \in {
    Heading(7, "h", <<W("H")>>),
    Paragraph(<<W("a"), Strong(<<W("b"), InlineCode(<<"c">>), Text(<<" ", "d">>)>>)>>),
    Paragraph(<<Link("x.md", "t", <<W("i")>>), W("j")>>),
    Paragraph(<<Image("a.png", "T", <<W("alt")>>)>>),
    Paragraph(<<Link("http-K", "", <<W("K")>>), Link("f", "", <<W("file")>>)>>),
    List(FALSE, 1, TRUE, <<ListItem("none", <<P("t")>>), ListItem("none", <<P("u"), Code("golang", <<"v">>)>>)>>),
    List(FALSE, 1, FALSE, <<ListItem("yes", <<P("w")>>), ListItem("no", <<P("x"), P("y")>>)>>),
    ContainerDirective("info", NoAttrs, <<List(TRUE, 2, FALSE, <<ListItem("none", <<P("z")>>)>>)>>),
    ContainerDirective("other", NoAttrs, <<Paragraph(<<Link("z.md", "", <<W("bb")>>)>>), P("cc")>>),
    ContainerDirective("center", NoAttrs, <<P("dd")>>),
    ContainerDirective("media", [path |-> "a.png", layout |-> "wide"], <<LabelParagraph(<<W("ff")>>), P("gg"), P("hh")>>),
    Table(<<"center", "", "right">>, <<
        TableRow(<<Cell(1, 2, "ta"), Cell(1, 1, "tb"), Cell(1, 1, "tc")>>), TableRow(<<Cell(2, 1, "td")>>),
        TableRow(<<Cell(1, 1, "te"), Cell(1, 1, "tf"), Cell(1, 1, "tg")>>)>>)}}

PlainPassages == {
    <<Paragraph(<<W("m"), FootnoteRef("n"), W("n2"), FootnoteRef("o"), FootnoteRef("n")>>), FootnoteDef("o", <<P("other")>>),
      FootnoteDef("n", <<Paragraph(<<W("note"), FootnoteRef("o")>>)>>), FootnoteDef("o", <<P("again")>>)>>,
    <<Paragraph(<<LinkRef("l", "full", <<W("p")>>), ImageRef("i", "full", <<W("pic2")>>)>>)>>,
    <<Definition("l", "y.md", ""), Definition("i", "a.png", "T2")>>,
    <<Sized(<<10, 20>>)>>,
    <<LeafDirective("decisions", NoAttrs, <<>>)>>} \cup {Single(block) : block \in {
    Paragraph(<<Emphasis(<<W("e"), Strong(<<W("f")>>)>>), Strong(<<W("g"), Break, W("h")>>)>>),
    Paragraph(<<Link("x.md", "", <<Mention>>)>>),
    Paragraph(<<W("k"), Image("a.png", "", <<W("alt")>>)>>),
    Paragraph(<<Link("x.md", "", <<Image("http", "", <<>>)>>)>>),
    Paragraph(<<Strong(<<W("l"), Image("http", "", <<W("pic")>>)>>)>>),
    ContainerDirective("expand", NoAttrs, <<LabelParagraph(<<W("E")>>), Blockquote(<<P("aa")>>)>>),
    LeafDirective("media", [path |-> "b.png", group |-> "true"], <<W("ee")>>),
    LeafDirective("jql", [cloudId |-> "c", datasource |-> "d"], <<W("query")>>),
    LeafDirective("linkCard", NoAttrs, <<W("K")>>),
    Paragraph(<<TextDirective("other", NoAttrs, <<W("ii")>>), TextDirective("status", NoAttrs, <<>>)>>),
    Paragraph(<<TextDirective("color", [color |-> "red"], <<W("jj")>>), TextDirective("annotation", [id |-> "4"], <<W("kk")>>)>>),
    Paragraph(<<Noted("5", <<Noted("6", <<W("mm")>>)>>), Noted("6", <<Noted("5", <<W("nn")>>)>>)>>),
    Paragraph(<<TextDirective("u", [a |-> "b"], <<W("ux")>>), Strong(<<TextDirective("u", [e |-> "f"], <<>>),
                TextDirective("status", [text |-> "done"], <<>>)>>), TextDirective("status", [foo |-> "bar"], <<W("uy")>>)>>),
    Paragraph(<<W("chip"), TextDirective("media", [type |-> "file"], <<>>), TextDirective("mention", [id |-> "2", zz |-> "3"], <<W("B")>>)>>),
    Paragraph(<<Emphasis(<<Link("z.md", "", <<W("o1"), TextDirective("other", NoAttrs, <<>>), W("o2")>>)>>), TextDirective("u", NoAttrs, <<W("o3")>>)>>),
    LeafDirective("other", [q |-> "1"], <<W("leaf")>>),
    ContainerDirective("other", [q |-> "1"], <<LabelParagraph(<<W("lab")>>), P("body")>>),
    HTML(<<"<b>">>),
    ContainerDirective("rawNode", [type |-> "", data |-> ""], <<P("ll")>>)}}

\* Code that leads to a page Confluence does not know, beside a link to one it
\* knows whose text is the same, in two nodes.
TwoRepairs ==
    <<Paragraph(<<Link("3", "", <<InlineCode(<<"one", "two">>)>>), Text(<<" ">>), Link("1/One", "", <<W("one"), Strong(<<W("two")>>)>>)>>)>>
MacroPassages == {
    <<Heading(2, "hid", <<W("HH"), Anchor("own")>>), LeafDirective("toc", [maxLevel |-> "2"], <<>>), Paragraph(<<W("pp"), Anchor("here")>>),
      ContainerDirective("excerpt", [title |-> "t", layout |-> "wide"], <<LabelParagraph(<<W("el")>>), P("mb")>>)>>,
    <<List(FALSE, 1, FALSE, <<ListItem("yes", <<P("tp"), P("tq")>>), ListItem("no", <<P("tr"), Code("go", <<"ts">>), P("tt")>>)>>),
      List(FALSE, 1, FALSE, <<ListItem("none", <<P("tu"), Blockquote(<<P("tv")>>)>>)>>)>>,
    <<Paragraph(<<Link("1/One", "", <<W("same")>>), Text(<<" ">>), Link("z.md", "", <<InlineCode(<<"code">>)>>), Text(<<" ">>),
                Link("2/Two", "", <<W("same")>>), Link("z.md", "", <<W("more")>>)>>)>>,
    TwoRepairs}
KeyPassages == {Single(block) : block \in {
    Paragraph(<<Text(<<"see", " ", "K", ".", " ", "and">>), Strong(<<Text(<<"so", " ", "K">>)>>)>>),
    Paragraph(<<W("kk"), Image("a.png", "", <<W("alt")>>)>>),
    Paragraph(<<Strong(<<W("l"), Image("http", "", <<W("pic")>>)>>)>>)}}

FewContainers == {
    Blockquote(<<>>),
    List(TRUE, 3, FALSE, <<ListItem("none", <<>>)>>),
    List(FALSE, 1, FALSE, <<ListItem("yes", <<P("task")>>)>>)}
ManyContainers == FewContainers \cup {
    ContainerDirective("expand", NoAttrs, <<LabelParagraph(<<W("E2")>>)>>),
    ContainerDirective("section", NoAttrs, <<ContainerDirective("column", NoAttrs, <<>>)>>),
    ContainerDirective("extension", [type |-> "t", key |-> "k"], <<ContainerDirective("frame", NoAttrs, <<>>)>>),
    ContainerDirective("indent", [level |-> "1"], <<>>),
    ContainerDirective("rawNode", [type |-> "odd", data |-> "d"], <<>>),
    ContainerDirective("other", NoAttrs, <<>>)}

AnchorMacro(id) == ADF("inlineExtension", MacroAttrs("anchor", NoAttrs, id), <<>>)
Wrappers(n) ==
    FoldLeft(LAMBDA inner, i : <<LegacyContent(<<Para(<<T("w" \o ToString(i))>>)>> \o inner, 1)>>,
             <<Para(<<T("w0")>>)>>, [i \in 1..n |-> i])
AlignedCell(w, align) ==
    ADF("tableCell", [colspan |-> 0, rowspan |-> 0, colwidth |-> <<>>], <<[Para(<<T(w)>>) EXCEPT !.marks = <<Mark("alignment", align, "")>>]>>)
ConfluenceBlocks == {
    ADF("panel", [type |-> "info"], Wrappers(9) \o <<LegacyContent(<<Para(<<T("no")>>)>>, 2)>>),
    ADF("heading", [level |-> 2, anchor |-> ""], <<ADFText(<<"AB", " ">>, <<>>), AnchorMacro("ac"), T("AD")>>),
    ADF("heading", [level |-> 2, anchor |-> ""], <<T("AE"), AnchorMacro("af"), AnchorMacro("ag")>>),
    ADF("heading", [level |-> 2, anchor |-> ""], <<T("AH"), AnchorMacro("a b")>>),
    ADF("extension", MacroAttrs("toc", NoAttrs, ""), <<>>),
    ADF("extension", [MacroAttrs("toc", NoAttrs, "") EXCEPT !.parameters.macroMetadata = @ @@ ("other" :> "o")], <<>>)}
CommonBlocks == {
    ADF("table", [align |-> <<>>], <<
        ADF("tableRow", Plain, <<AlignedCell("AI", "end"), AlignedCell("AJ", "center"), CellOf("tableCell", 0, 0, "AK")>>),
        ADF("tableRow", Plain, <<AlignedCell("AL", "end"), AlignedCell("AM", "end"), AlignedCell("AN", "end")>>)>>),
    Para(<<ADFText(<<"A", Newline, Space, "B">>, <<>>), Strongly(<<Newline, "C">>), ADF("hardBreak", Plain, <<>>), ADFText(<<Newline, "D">>, <<>>)>>),
    Para(<<ADFText(<<"E">>, <<Mark("code", "", "")>>), Strongly(<<Space, "F">>), ADFText(<<"G">>, <<Mark("code", "", "")>>), T("I")>>),
    Para(<<ADFText(<<"J">>, <<Mark("annotation", "1", ""), Mark("annotation", "2", ""), Mark("fontSize", "s", ""), LinkMark("page", "")>>)>>),
    Para(<<ADF("emoji", [shortName |-> ":s:"], <<>>), ADF("inlineCard", [url |-> "http-K"], <<>>),
           ADF("mediaInline", [type |-> "file", id |-> "", alt |-> <<>>], <<>>)>>),
    ADF("heading", [level |-> 0, anchor |-> "k"], <<T("L")>>),
    ADF("table", [align |-> <<>>], <<
        ADF("tableRow", Plain, <<CellOf("tableCell", 0, 2, "M"), CellOf("tableCell", 2, 0, "N")>>),
        ADF("tableRow", Plain, <<CellOf("tableCell", 0, 0, "O")>>),
        ADF("tableRow", Plain, <<CellOf("tableCell", 2, 0, "OO")>>)>>),
    ADF("table", [align |-> <<>>], <<
        ADF("tableRow", Plain, <<ADF("tableHeader", [colspan |-> 0, rowspan |-> 0, colwidth |-> <<30>>],
            <<Para(<<T("Q")>>), ADF("bulletList", [tight |-> "", order |-> 0], <<ADF("listItem", Plain, <<Para(<<T("R")>>)>>)>>),
              ADF("extension", [type |-> "t", key |-> "k"], <<>>)>>)>>)>>),
    ADF("taskList", Plain, <<ADF("blockTaskItem", [state |-> "DONE"], <<ADF("rule", Plain, <<>>), Para(<<T("S")>>), Para(<<T("U")>>)>>)>>)}
PlainBlocks == {
    ADF("decisionList", Plain, <<ADF("decisionItem", [state |-> "DECIDED"], <<T("V")>>)>>),
    ADF("mediaGroup", Plain, <<ADF("media", [type |-> "file", id |-> "7", url |-> "", alt |-> <<>>, width |-> "w"], <<>>)>>),
    ADF("mediaSingle", [layout |-> "wide", width |-> "w"], <<
        [ADF("media", [type |-> "file", id |-> "7", url |-> "", alt |-> <<"X">>, width |-> "w"], <<>>) EXCEPT !.marks = <<LinkMark("page", "ti")>>],
        ADF("caption", Plain, <<T("cap")>>)>>),
    [Para(<<T("Y")>>) EXCEPT !.marks = <<Mark("alignment", "end", ""), Mark("indentation", "1", "")>>],
    ADF("rawNode", [type |-> "odd", data |-> ""], <<Para(<<T("Z")>>)>>),
    ADF("nestedExpand", [title |-> <<"NE">>], <<Para(<<T("AA")>>)>>),
    ADF("layoutSection", NoAttrs, <<ADF("layoutColumn", NoAttrs, <<Para(<<T("BB")>>)>>)>>),
    ADF("multiBodiedExtension", [type |-> "t", key |-> "k"], <<>>)}

\* Documents as JSON: what the fields hold, what they cannot, and what has none.
\* They are written as nested nodes and laid out by place.
J(t, v) == [t |-> t, v |-> v]
JS(v) == J("string", v)
JSONNode(type, attrs, content) == [type |-> type, text |-> "", attrs |-> attrs, marks |-> <<>>, content |-> content]
JSONMark(type, attrs) == [type |-> type, attrs |-> attrs]
JText(w) == [JSONNode("text", NoAttrs, <<>>) EXCEPT !.text = w]
JMarked(w, marks) == [JText(w) EXCEPT !.marks = marks]
JPara(c) == JSONNode("paragraph", NoAttrs, c)
Quoted(n, c) == FoldLeft(LAMBDA inner, i : <<JSONNode("blockquote", NoAttrs, inner)>>, c, [i \in 1..n |-> i])
JHint(widths, c) == JSONNode("colwidthsHint", [widths |-> widths], c)
RECURSIVE Placed(_, _)
Placed(nodes, above) ==
    IF nodes = <<>> THEN <<>>
    ELSE LET place == Append(above, Len(nodes))
             j == Last(nodes)
         IN  (place :> [type |-> j.type, text |-> j.text, attrs |-> j.attrs, marks |-> j.marks])
                 @@ Placed(j.content, place) @@ Placed(Front(nodes), above)
Arrivals == Quoted(3, <<JText("deep")>>) \o Quoted(2, <<JSONNode("mediaGroup", NoAttrs, <<JPara(<<>>)>>), JHint(J("numbers", "10"), <<>>)>>) \o <<
    JSONNode("heading", [level |-> J("number", "1.5"), anchor |-> JS("a"), localId |-> JS("l")], <<JText("A")>>),
    JSONNode("heading", [level |-> J("number", "0"), anchor |-> JS("")], <<JText("B")>>),
    JSONNode("heading", [level |-> JS("2"), anchor |-> J("null", "")], <<>>),
    JPara(<<JMarked("C", <<JSONMark("strong", NoAttrs), JSONMark("new", [x |-> JS("y")]),
                           JSONMark("link", [href |-> JS(""), title |-> J("null", ""), id |-> JS("i")])>>),
            JMarked("D", <<JSONMark("indentation", [level |-> J("number", "0.5")]), JSONMark("border", [size |-> J("number", "2"), color |-> JS("")]),
                           JSONMark("dataConsumer", [sources |-> J("numbers", "1")])>>)>>),
    JSONNode("orderedList", [order |-> J("number", "0"), tight |-> J("bool", "false")],
        <<JSONNode("listItem", [localId |-> JS("i")], <<JSONNode("bulletList", [tight |-> JS("true")], <<>>)>>)>>),
    JSONNode("orderedList", [order |-> J("number", "1.5"), tight |-> J("null", "")], <<>>),
    JSONNode("table", [align |-> J("strings", "left"), layout |-> JS("wide"), width |-> J("number", "0.5"), displayMode |-> JS("")], <<
        JSONNode("tableRow", NoAttrs, <<
            JSONNode("tableCell", [colspan |-> J("number", "1.5"), rowspan |-> J("number", "2"), colwidth |-> J("mixed", "m")], <<>>)>>)>>),
    JSONNode("table", [align |-> J("empty", ""), isNumberColumnEnabled |-> J("bool", "false"), width |-> J("null", "")], <<>>),
    JSONNode("table", [align |-> J("numbers", "1"), localId |-> JS("t")], <<>>),
    JSONNode("extension", [extensionType |-> JS("t"), parameters |-> J("null", ""), layout |-> JS("")], <<>>),
    JSONNode("extension", [extensionKey |-> JS("k"), parameters |-> J("object", "p")], <<JPara(<<>>)>>),
    JSONNode("inlineExtension", [layout |-> JS("wide"), parameters |-> J("number", "0"), text |-> JS("x")], <<>>),
    [JPara(<<JHint(J("empty", ""), <<>>)>>) EXCEPT !.text = "t"],
    [JSONNode("heading", [level |-> J("number", "1"), anchor |-> JS("kept")], <<>>) EXCEPT !.text = "t"],
    JSONNode("rule", NoAttrs, <<JHint(J("numbers", "20"), <<>>)>>),
    JHint(J("null", ""), <<JText("in")>>),
    JSONNode("unknown", [y |-> J("bool", "true")], <<JSONNode("heading", [anchor |-> JS("b")], <<JText("E")>>)>>),
    JSONNode("expand", [title |-> JS(""), other |-> J("object", "o")], <<JSONNode("nestedExpand", [title |-> J("null", "")], <<>>)>>),
    JSONNode("mediaSingle", [layout |-> JS(""), width |-> J("number", "0"), widthType |-> J("bool", "true")], <<
        JSONNode("media", [type |-> JS("file"), id |-> JS("7"), collection |-> JS(""), width |-> J("number", "1.5"), alt |-> JS(""), x |-> JS("y")], <<>>)>>),
    JPara(<<JSONNode("mention", [id |-> JS("1"), text |-> JS(""), accessLevel |-> JS(""), layout |-> JS("wide")], <<>>),
            JSONNode("status", [text |-> JS("s"), color |-> JS("red"), style |-> JS("bold"), localId |-> JS("")], <<>>),
            JSONNode("date", [timestamp |-> J("number", "1")], <<>>),
            JSONNode("inlineCard", [url |-> JS(""), data |-> J("object", "d")], <<>>)>>),
    JSONNode("blockCard", [datasource |-> J("object", "d"), url |-> JS("u")], <<>>),
    JSONNode("blockCard", [datasource |-> JS("d"), layout |-> JS("wide")], <<>>),
    JSONNode("taskList", [localId |-> JS("")], <<
        JSONNode("taskItem", [localId |-> JS("1"), state |-> JS("TODO")], <<>>), JSONNode("blockTaskItem", [localId |-> J("null", ""), state |-> JS("")], <<>>)>>)>>

\* The numbers that are no integers, and what an int makes of them.
MCIntPart == "0.5" :> "0" @@ "1.5" :> "1"

MCDocuments == {Placed(nodes, <<>>) : nodes \in UNION {[1..n -> ToSet(Arrivals)] : n \in 1..2}}

MCPassages ==
    [none |-> CommonPassages \cup PlainPassages, confluence |-> CommonPassages \cup MacroPassages,
     jira |-> CommonPassages \cup KeyPassages]
MCContainers == [none |-> ManyContainers, confluence |-> FewContainers, jira |-> FewContainers]
MCDocBlocks ==
    [none |-> CommonBlocks \cup PlainBlocks, confluence |-> CommonBlocks \cup ConfluenceBlocks, jira |-> CommonBlocks]
=============================================================================
