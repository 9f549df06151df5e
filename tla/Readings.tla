------------------------------ MODULE Readings ------------------------------
(* What a reader finds in the two trees, read without the converters: the     *)
(* words and the marks they stand under, the destinations, the columns of a   *)
(* table. The properties of Conversion compare these readings.                *)
EXTENDS Normalize, Products

NodesOf(nodes) == ToSet(WalkAll(nodes))
OfKind(nodes, k) == {n \in NodesOf(nodes) : n.k = k}

\* The part of a page that reaches its document, or the page it is formatted
\* to. ADF has no node for a generic directive (docs/design.md, "the encode leg
\* may drop"); neither leg has more than a line of text for a decision and for a
\* task that does not open with a paragraph.
IsDropped(n) == n.k \in {"containerDirective", "leafDirective"}
TaskOpensOnBlock(n) == n.k = "listItem" /\ n.at.checked # "none" /\ n.c # <<>> /\ n.c[1].k # "paragraph"
ParagraphsOf(n) == [n EXCEPT !.c = SelectSeq(@, LAMBDA b : b.k = "paragraph")]
IsDecisions(nodes, i) == i > 1 /\ nodes[i - 1].k = "decisions" /\ nodes[i].k = "list"
AsHeld(drop, nodes, i) ==
    CASE drop /\ IsDropped(nodes[i]) -> <<>>
      [] TaskOpensOnBlock(nodes[i]) -> <<ParagraphsOf(nodes[i])>>
      [] IsDecisions(nodes, i) -> <<[nodes[i] EXCEPT !.c = Each(ParagraphsOf, @)]>>
      [] OTHER -> <<nodes[i]>>
RECURSIVE Holding(_, _)
Holding(drop, nodes) ==
    FlatMap(LAMBDA i : Each(LAMBDA n : [n EXCEPT !.c = Holding(drop, @)], AsHeld(drop, nodes, i)), [j \in DOMAIN nodes |-> j])
Kept(nodes) == Holding(TRUE, nodes)
Written(nodes) == Holding(FALSE, nodes)

\* Words a text node or a code span carries, each with the marks around it.
\* On a page a mark is a node, in a document it is on the text itself.
MarkNodes == [strong |-> "strong", emphasis |-> "em", delete |-> "strike", underline |-> "underline",
              color |-> "textColor", bg |-> "backgroundColor", sub |-> "subsup", sup |-> "subsup",
              annotation |-> "annotation", link |-> "link", image |-> "image", imageReference |-> "image"]
\* Code has no room for other marks in ADF, and a picture's label is no text.
Unmarkable == {"code", "image"}
WordsUnder(v, marks) == {<<v[i], marks>> : i \in {j \in DOMAIN v : v[j] \notin {Space, Newline}}}
RECURSIVE PageWords(_, _)
PageWords(nodes, marks) ==
    UNION {LET n == nodes[i] IN
           CASE n.k = "text" -> WordsUnder(n.at.v, marks)
             [] n.k = "inlineCode" -> WordsUnder(n.at.v, marks \cup {"code"})
             [] n.k = "code" -> WordsUnder(n.at.v, marks)
             [] OTHER -> PageWords(n.c, marks \cup (IF n.k \in DOMAIN MarkNodes THEN {MarkNodes[n.k]} ELSE {}))
           : i \in DOMAIN nodes}
DocWords(nodes) ==
    UNION {WordsUnder(n.at.v, {n.marks[j].m : j \in DOMAIN n.marks}) : n \in OfKind(nodes, "text")}
WordsOf(pairs) == {p[1] : p \in pairs}

\* Words a document holds as attributes: labels, titles, alternative texts.
LabelWords(nodes) ==
    UNION {UNION {ToSet(n.at[key]) : key \in DOMAIN n.at \cap {"label", "title", "alt", "text", "query"}}
           : n \in {m \in NodesOf(nodes) : m.k \in {"mention", "status", "expand", "media", "mediaInline", "placeholder", "blockCard"}}}
        \cup {MacroLabel(n) : n \in {m \in NodesOf(nodes) : "parameters" \in DOMAIN m.at}}
CardWords(nodes) ==
    LET urls == {n.at.url : n \in OfKind(nodes, "blockCard") \cup OfKind(nodes, "embedCard")}
                    \cup {<<n.at.url>> : n \in OfKind(nodes, "inlineCard")}
        keys == {key \in DOMAIN options.urlForKey : options.urlForKey[key] \in urls}
    IN  UNION {ToSet(words) : words \in urls \cup keys}

\* Where the links and pictures of a page lead, and those of a document.
TargetOf(url) == Lookup(options.linkTargets, url, url)
PageDestinations(nodes) ==
    {TargetOf(n.at.url) : n \in {m \in NodesOf(nodes) : m.k = "link"}}
        \cup {n.at.url : n \in {m \in NodesOf(nodes) : m.k = "image"}}
MarkedDestinations(nodes) ==
    UNION {{n.marks[j].v : j \in {i \in DOMAIN n.marks : n.marks[i].m = "link"}} : n \in NodesOf(nodes)}
IdDestinations(table, ids) == {ref \in DOMAIN table : table[ref] \in ids}
DocDestinations(nodes) ==
    LET media == {n \in NodesOf(nodes) : n.k \in {"media", "mediaInline"}} IN
    MarkedDestinations(nodes)
        \cup {n.at.url : n \in OfKind(nodes, "inlineCard") \cup OfKind(nodes, "media")}
        \cup IdDestinations(options.assetIDs, {n.at.id : n \in media})
        \cup IdDestinations(options.fileCards, {n.at.id : n \in media})

\* What a page says besides its words: where it points, the directives nobody
\* knows, the attributes that no encoder reads.
RECURSIVE HasMarkable(_)
HasMarkable(nodes) ==
    \E i \in DOMAIN nodes : nodes[i].k \notin AtomKinds /\ (nodes[i].c = <<>> \/ HasMarkable(nodes[i].c))
Sources(nodes) ==
    {n.at.url : n \in {m \in OfKind(nodes, "link") : HasMarkable(m.c)} \cup OfKind(nodes, "image")}
        \cup UNION {{n.at[key] : key \in DOMAIN n.at \cap {"path", "url"}} : n \in {m \in NodesOf(nodes) : m.k \in MediaKinds}}
GenericNames(nodes) == {n.at.name : n \in {m \in NodesOf(nodes) : m.k \in {"textDirective", "leafDirective", "containerDirective"}}}
Unread(n) ==
    {<<key, n.at[key]>> : key \in DOMAIN n.at \ (CASE n.k \in AtomKinds -> AtomAttrsRead(n)
                                                   [] n.k \in DOMAIN MarkAttrsRead -> MarkAttrsRead[n.k]
                                                   [] OTHER -> DOMAIN n.at)}
UnreadAttrs(nodes) == UNION {Unread(n) : n \in NodesOf(nodes)}

\* The shapes whose canonical form encodes to another document.
SeveralLeaves(nodes) == Cardinality({i \in DOMAIN WalkAll(nodes) : WalkAll(nodes)[i].c = <<>>}) > 1
IsCard(n) == n.k = "link" /\ (IsSmartLink(n) \/ Found(options.fileCards, LinkHref(n)))
Vanishes(n) == IsDropped(n) \/ n.k \in HintKinds \cup {"definition", "footnoteDefinition", "html"}
LosesItsBlocks(item) == KeepsTaskBlocks(item) /\ \A i \in 2..Len(item.c) : Vanishes(item.c[i])
MarkedAlone(n) == n.k = "paragraph" /\ Len(n.c) = 1 /\ n.c[1].k \notin {"image", "link"} /\ OfKind(n.c, "image") # {}
RespellsNode(n) ==
    \/ EmojiText(FALSE, n) # ""
    \/ IsCard(n) /\ SeveralLeaves(n.c)
    \/ n.k = "bodiedExtension" /\ Attr(n, "multi") # "" /\ n.c # <<>> /\ ~FramesOnly(n)
    \/ MarkedAlone(n)
    \/ n.k = "containerDirective" /\ \E d \in NodesOf(n.c) : d.k \in {"footnoteDefinition", "definition"}
    \/ n.k = "list" /\ IsTaskList(n) /\ \E i \in DOMAIN n.c : LosesItsBlocks(n.c[i])
    \/ n.k = "expand" /\ HasLabel(n.c) /\ TrimSpace(LabelText(n.c)) = <<>>
EncodesDifferently(page) == \E n \in NodesOf(page.c) : RespellsNode(n)

\* The shapes that the product itself does not give back: a task of paragraphs
\* that becomes a line, and a page's address that is not what the page is called
\* now.
StaleSlug(href) == IsKnownPage(href) /\ options.pages[href].slug # PageSlug(options.titles[options.pages[href].id])
ReadsDifferently(nodes) ==
    \/ \E n \in OfKind(nodes, "blockTaskItem") : OnlyParagraphs(n)
    \/ \E n \in OfKind(nodes, "text") : StaleSlug(LinkOf(n))

\* The columns each cell of a table starts at and ends before, by counting the
\* cells of all earlier rows that reach down to its row: <<row, col>> pairs.
Width(cell) == AtLeast(cell.at.colspan, 1)
Height(cell) == AtLeast(cell.at.rowspan, 1)
RowWidth(row) == FoldLeft(LAMBDA sum, cell : sum + Width(cell), 0, row.c)
\* Columns of row i that cells of earlier rows cover.
CoveredWidth(table, i) ==
    FoldLeft(LAMBDA sum, j :
        sum + FoldLeft(LAMBDA s, cell : IF j + Height(cell) > i THEN s + Width(cell) ELSE s, 0, table.c[j].c),
        0, [j \in 1..(i - 1) |-> j])
=============================================================================
