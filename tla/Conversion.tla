----------------------------- MODULE Conversion -----------------------------
(* A page going back and forth between its author and a product. The author   *)
(* writes it block by block as Markdown (a tree, with the directives promoted *)
(* to their kinds), or the product hands over a document block by block;      *)
(* Push encodes the page (convert.ToADF), Pull decodes the document           *)
(* (convert.FromADF), each with the passes the product asks for. Confluence   *)
(* may save a pushed document and hand over its own rendition of it, which is *)
(* repaired and pulled. Or the written page is only brought to its canonical  *)
(* form, for an encode (convert.Normalize) or for the page itself             *)
(* (convert.NormalizeFormat). Text, its parser and its renderer are left out. *)
(* Apart from that, a document that arrives as JSON goes through the codec of *)
(* package adf (Wire), which must neither lose nor invent anything of it.     *)
EXTENDS Normalize, Readings, Products, Wire

CONSTANTS
    Configurations,   \* what the caller may have configured
    Passages,         \* for each product, what an author may write: sequences of blocks
    Containers,       \* and what an author may put around them: blocks to be filled
    DocBlocks,        \* and the blocks the product may hand over
    MaxParts,         \* passages of a page, or blocks of a document
    MaxRounds         \* conversions made of it

VARIABLES
    page,             \* the Markdown tree
    doc,              \* the content of the ADF document
    log,              \* what the last conversion reported
    saved,            \* the page at the product: its document as it is read, its stored links
    at,               \* what was done last, one of Stages
    parts,            \* passages written or blocks received
    rounds            \* conversions made so far

conversion == <<options, page, doc, log, saved, at, parts, rounds>>
vars == <<conversion, wire>>

Stages ==
    {"new", "writing", "receiving", "pushed", "saved", "readback", "pulled", "canonical", "formatted"}
Unsaved == [doc |-> <<>>, links |-> <<>>]

Init ==
    /\ options \in Configurations
    /\ page = Root(<<>>) /\ doc = <<>> /\ log = <<>> /\ saved = Unsaved
    /\ at = "new" /\ parts = 0 /\ rounds = 0
    /\ WireInit

RECURSIVE FillInnermost(_, _)
FillInnermost(n, nodes) ==
    IF n.c # <<>> /\ Last(n.c).k # "paragraph"
    THEN [n EXCEPT !.c[Len(n.c)] = FillInnermost(@, nodes)]
    ELSE [n EXCEPT !.c = @ \o nodes]

Write(passage) ==
    /\ at \in {"new", "writing"} /\ parts < MaxParts
    /\ page' = [page EXCEPT !.c = @ \o Each(PromoteNode, passage)]
    /\ at' = "writing" /\ parts' = parts + 1
    /\ UNCHANGED <<options, doc, log, saved, rounds>>

\* The author puts what is written into a container, a list or a quote.
Enclose(container) ==
    /\ at = "writing" /\ parts < MaxParts
    /\ page' = [page EXCEPT !.c = <<FillInnermost(PromoteNode(container), @)>>]
    /\ parts' = parts + 1
    /\ UNCHANGED <<options, doc, log, saved, at, rounds>>

Receive(block) ==
    /\ at \in {"new", "receiving"} /\ parts < MaxParts
    /\ doc' = Append(doc, block)
    /\ at' = "receiving" /\ parts' = parts + 1
    /\ UNCHANGED <<options, page, log, saved, rounds>>

Push ==
    /\ at \in {"writing", "pulled"} /\ rounds < MaxRounds
    /\ \E r \in {EncodePage(page)} : doc' = r.out /\ log' = r.log
    /\ at' = "pushed" /\ rounds' = rounds + 1
    /\ UNCHANGED <<options, page, saved, parts>>

Pull ==
    /\ at \in {"receiving", "pushed", "readback"} /\ rounds < MaxRounds
    /\ \E r \in {DecodeDocument(doc)} : page' = r.out /\ log' = r.log
    /\ at' = "pulled" /\ rounds' = rounds + 1
    /\ UNCHANGED <<options, doc, saved, parts>>

\* Confluence saves a document and makes of it what it can hold.
Save ==
    /\ at = "pushed" /\ options.product = "confluence" /\ saved = Unsaved /\ rounds <= MaxRounds - 3
    /\ saved' = [doc |-> ReadBack(SavedDocument(doc)), links |-> StorageLinks(doc)]
    /\ at' = "saved"
    /\ UNCHANGED <<options, page, doc, log, parts, rounds>>

\* It is fetched again, and repaired with the links of the stored page.
Fetch ==
    /\ at = "saved"
    /\ doc' = RepairReadBack(saved.doc, saved.links)
    /\ at' = "readback"
    /\ UNCHANGED <<options, page, log, saved, parts, rounds>>

\* The canonical form of what is written, and once more that of this form.
Canonicalize(keep) ==
    LET form == IF keep THEN "formatted" ELSE "canonical" IN
    /\ at \in {"writing", form}
    /\ \E r \in {NormalizeRoot(keep, page)} : page' = r.out /\ log' = r.log
    /\ at' = form
    /\ UNCHANGED <<options, doc, saved, parts, rounds>>

Convert ==
    \/ \E passage \in Passages[options.product] : Write(passage)
    \/ \E container \in Containers[options.product] : Enclose(container)
    \/ \E block \in DocBlocks[options.product] : Receive(block)
    \/ Push
    \/ Pull
    \/ Save
    \/ Fetch
    \/ \E keep \in BOOLEAN : Canonicalize(keep)

\* A page is converted, or a document goes through the codec.
Next ==
    \/ stage = "waiting" /\ Convert /\ UNCHANGED wire
    \/ at = "new" /\ options.product = "none" /\ WireNext /\ UNCHANGED conversion

Spec == Init /\ [][Next]_vars

---------------------------------------------------------------------------
Pushed == at = "pushed"
Pulled == at = "pulled"
ReportedAbout == {log[i].about : i \in DOMAIN log}

\* The kinds of node of the two trees never mix, and a hint of the encoder's own
\* (column widths waiting for their table) is in no finished document.
TypeOK ==
    /\ at \in Stages /\ rounds \in 0..MaxRounds
    /\ page.k = "root" /\ \A n \in NodesOf(page.c) : DOMAIN n = {"k", "at", "c"}
    /\ \A n \in NodesOf(doc) : DOMAIN n = {"k", "at", "c", "marks"} /\ n.k # "colwidthsHint"

\* Every link and picture of a page leads somewhere in its document, as a mark,
\* a card or a file, or the conversion has said what it left behind
\* (FlattenLink, InlineImage, ConvertParagraph).
EveryDestinationKeptOrReported ==
    Pushed => \A url \in PageDestinations(Kept(page.c)) \ {""} : url \in DocDestinations(doc) \/ url \in ReportedAbout

\* A footnote's number is the place of its definition in the list that ends the
\* document, and that item holds the definition's words (footnote.go). Two
\* references side by side are left out: their numbers join to one text.
FootnoteLabels == {n.at.label : n \in OfKind(page.c, "footnoteDefinition")}
FirstDefinition(label) ==
    LET all == SelectSeq(WalkAll(page.c), LAMBDA n : n.k = "footnoteDefinition") IN
    all[SelectInSeq(all, LAMBDA n : n.at.label = label)]
LoneReferences(nodes) ==
    UNION {{n.c[i] : i \in {j \in DOMAIN n.c :
                /\ n.c[j].k = "footnoteReference"
                /\ \A near \in {j - 1, j + 1} \cap DOMAIN n.c : n.c[near].k # "footnoteReference"}}
           : n \in ToSet(nodes)}
Superscripts(nodes) ==
    {n.at.v[1] : n \in {m \in OfKind(nodes, "text") : HasMark(m.marks, "subsup") /\ Len(m.at.v) = 1}}
FootnotesAgree ==
    Pushed /\ FootnoteLabels # {} =>
        LET items == Last(doc).c IN
        \A n \in LoneReferences(WalkAll(Kept(page.c))) :
            n.at.label \in FootnoteLabels =>
                \E k \in DOMAIN items :
                    /\ ToString(k) \in Superscripts(doc)
                    /\ WordsOf(PageWords(FirstDefinition(n.at.label).c, {})) \subseteq WordsOf(DocWords(items[k].c))

\* No word of a page is lost on the way to its document, and none on the way
\* back (the converters' fallbacks, the cell projector, MergeAdjacentText).
FileLabels(nodes) ==
    WordsOf(PageWords(SelectSeq(WalkAll(nodes), LAMBDA n : n.k = "link" /\ Found(options.fileCards, TargetOf(n.at.url))), {}))
TitlesOf(nodes) == {n.at.title : n \in OfKind(nodes, "image")}
EveryWordKept ==
    /\ Pushed => WordsOf(PageWords(Kept(page.c), {}))
                     \subseteq WordsOf(DocWords(doc)) \cup LabelWords(doc) \cup CardWords(doc) \cup FileLabels(page.c)
    /\ Pulled => WordsOf(DocWords(doc))
                     \subseteq WordsOf(PageWords(page.c, {})) \cup TitlesOf(page.c)

\* A word keeps its marks both ways, whatever nests around it. (Text around an
\* issue key that Jira makes a card is left out: the cards take the marks along.)
AroundKeys(nodes) ==
    IF ~options.expandKeys THEN {}
    ELSE UNION {ToSet(n.at.v) : n \in {m \in OfKind(nodes, "text") : \E i \in DOMAIN m.at.v : IsBareKey(m.at.v, i)}}
Holds(p, pairs) == \E q \in pairs : q[1] = p[1] /\ p[2] \subseteq q[2]
MarksSurvive ==
    LET onPage == PageWords(page.c, {})
        inDoc == DocWords(doc)
    IN  /\ Pushed => \A p \in onPage :
            p[2] \cap Unmarkable # {} \/ p[1] \notin WordsOf(inDoc) \ AroundKeys(page.c) \/ Holds(p, inDoc)
        /\ Pulled => \A q \in inDoc :
            q[1] \notin WordsOf(onPage) \/ Holds(<<q[1], q[2] \ {"fontSize"}>>, onPage)

\* Two neighbouring texts of a paragraph differ in their marks: what the author
\* wrote as one text arrives as one (mergeAdjacentADFText). What follows the card
\* of an issue is left out, for its punctuation is a text of its own.
HoldsIssueCard(n) == options.product = "jira" /\ \E i \in DOMAIN n.c : n.c[i].k = "inlineCard"
NoMergeableText ==
    Pushed => \A n \in NodesOf(doc) : \A i \in 2..Len(n.c) :
        n.k \in {"paragraph", "heading"} /\ ~HoldsIssueCard(n) /\ n.c[i].k = "text" /\ n.c[i - 1].k = "text" =>
            ToSet(n.c[i].marks) # ToSet(n.c[i - 1].marks)

\* Column widths: every full row of a sized table has each width once, those of
\* the cells that reach down from earlier rows among them (applyTableColwidths).
RowWidths(row) == FlatMap(LAMBDA cell : cell.at.colwidth, row.c)
ReachingCells(table, i) ==
    FlatMap(LAMBDA j : SelectSeq(table.c[j].c, LAMBDA cell : j + Height(cell) > i), [j \in 1..(i - 1) |-> j])
WidthsFollowColumns ==
    Pushed => \A table \in OfKind(doc, "table") : \A i \in DOMAIN table.c :
        LET all == RowWidths(table.c[1])
            here == RowWidths(table.c[i]) \o FlatMap(LAMBDA cell : cell.at.colwidth, ReachingCells(table, i))
        IN  RowWidth(table.c[i]) + CoveredWidth(table, i) = RowWidth(table.c[1]) =>
                ToSet(here) = ToSet(all) /\ Len(here) = Len(all)

\* A table that was read back has its first row's columns in every row, also
\* below cells that span rows (convertRow, carryState).
TableRowsFull ==
    Pulled => \A table \in OfKind(page.c, "table") : \A i \in DOMAIN table.c :
        RowWidth(table.c[i]) + CoveredWidth(table, i) >= RowWidth(table.c[1])

\* Round trips settle: from the third conversion on, a page read back is the
\* page it was, and a document encoded again the document it was. (The first
\* ones lose what the other side cannot hold, and the first encoding of a
\* footnote list says nothing of its tightness, as later ones do.) A text
\* that a product cut in pieces is one again a conversion later. Every reading
\* opens only so many wrappers, one inside the other; a page with more is left
\* out until they are open.
SettledAfter == IF saved # Unsaved \/ options.expandKeys THEN 4 ELSE 3
HasWrapped(nodes) == \E n \in NodesOf(nodes) : IsLegacyContent(n) /\ NestedContent(n) # <<>>
Settles ==
    [][rounds >= SettledAfter /\ rounds' > rounds /\ ~HasWrapped(doc) => page' = page /\ doc' = doc]_vars

\* A page and its canonical form encode to the same document (the comment of
\* normalize.go, lines 35-38), but for the shapes in which they really differ:
\* an emoji that is a character, a card whose label has several marks, a
\* multi-bodied extension with other content than frames, a picture alone under
\* its marks, an expand with a blank label, and a task whose blocks below its
\* line all vanish, and footnotes or definitions in a container that is dropped.
NormalizeChangesNoDocument ==
    [][at' \in {"canonical", "formatted"} /\ ~EncodesDifferently(page) =>
        Cardinality({ToADF(root).out : root \in {page, page'}}) = 1]_vars

\* A canonical form has itself for its canonical form (normalize.go, line 35).
CanonicalFormSettles == [][at' = at /\ at \in {"canonical", "formatted"} => page' = page]_vars

\* The format leg keeps what the author wrote: words, destinations, the names of
\* directives nobody knows, and the attributes no encoder reads. (A link around
\* nothing but a mention, a status or another atom is left out: the canonical
\* atom takes no marks, and its link is lost.)
FormatKeepsWhatWasWritten ==
    [][at = "writing" /\ at' = "formatted" =>
        /\ WordsOf(PageWords(Written(page.c), {}))
              \subseteq WordsOf(PageWords(page'.c, {})) \cup TitlesOf(page'.c)
        /\ Sources(page.c) \subseteq Sources(page'.c)
        /\ GenericNames(page.c) \subseteq GenericNames(page'.c)
        /\ UnreadAttrs(page.c) \subseteq UnreadAttrs(page'.c)]_vars

\* Every inline directive of a formatted page is read back as one: none has
\* come down to its bare name, which is a word (bare.go).
DirectivesReadBack ==
    at = "formatted" =>
        \A n \in NodesOf(page.c) : n.k \in InlineExtensions => DOMAIN n.at # {} \/ n.c # <<>>

\* What is sent to a product has no attribute that it does not take: an id of a
\* heading, an alignment of columns (confluence.MarkdownOptions, adf/wire.go).
WireSafe == Pushed /\ options.product # "none" => IsWireSafe(doc)

\* Every name a heading can be reached by arrives: an id becomes an attribute or
\* a macro at any depth, and a macro an id or a directive (anchors.go).
HeadingIds(nodes) == {n.at.id : n \in OfKind(nodes, "heading")} \ {""}
HeadingAnchors(nodes) == {n.at.anchor : n \in OfKind(nodes, "heading")} \ {""}
MacroAnchors(nodes) == {MacroLabel(n) : n \in {m \in OfKind(nodes, "inlineExtension") : IsAnchorMacro(m)}} \ {""}
AnchorDirectives(nodes) ==
    UNION {WordsOf(PageWords(n.c, {})) : n \in {m \in OfKind(nodes, "confluenceInlineMacro") : m.at.name = "anchor"}}
AnchorsSurvive ==
    /\ Pushed /\ options.headingAnchors => HeadingIds(Kept(page.c)) \subseteq HeadingAnchors(doc) \cup MacroAnchors(doc)
    /\ Pulled /\ options.product = "confluence" =>
            HeadingAnchors(doc) \cup MacroAnchors(doc) \subseteq HeadingIds(page.c) \cup AnchorDirectives(page.c)

\* The columns an author centered or aligned right come back so, past cells that
\* span columns and rows (tablealign.go, the majority of the marks of a column).
ColumnWords(table, col) ==
    UNION {UNION {WordsOf(PageWords(table.c[i].c[j].c, {})) :
               j \in {k \in DOMAIN table.c[i].c : TableCellColumns(table)[i][k] = col /\ Width(table.c[i].c[k]) = 1}}
           : i \in DOMAIN table.c}
AlignedWords(nodes) ==
    UNION {UNION {{<<w, n.at.align[col]>> : w \in ColumnWords(n, col)} :
               col \in {i \in DOMAIN n.at.align : n.at.align[i] \in {"center", "right"}}}
           : n \in OfKind(nodes, "table")}
AlignmentReturns ==
    [][Pushed /\ Pulled' /\ options.product # "none" => AlignedWords(Kept(page.c)) \subseteq AlignedWords(page'.c)]_vars

\* Saving joins no two words that were apart: a task's paragraphs become a line
\* (blocktaskitem.go).
TextRuns(n) == [i \in DOMAIN n.c |-> IF n.c[i].k = "text" THEN n.c[i].at.v ELSE <<Space>>]
Neighbours(nodes) ==
    UNION {LET v == FlattenSeq(TextRuns(n) \o <<>>) IN {<<v[i - 1], v[i]>> : i \in 2..Len(v)} : n \in NodesOf(nodes)}
Joined(nodes) == {p \in Neighbours(nodes) : p[1] \notin {Space, Newline} /\ p[2] \notin {Space, Newline}}
TaskWordsStayApart == [][at' = "saved" => Joined(saved'.doc) \subseteq Joined(doc)]_vars

\* A page nobody edited reads back as it was pushed, but for the second name of
\* an anchor (readback.go, legacycontent.go, macroparams.go). Left out are pages
\* on which a link to a page that Confluence does not know has the text of a
\* link to one it knows: links and titles are paired by text alone, so the first
\* may be given the slug of the second (restorePageSlugs), and then loses the
\* code mark it was given before.
RECURSIVE WithoutSecondNames(_)
WithoutSecondNames(nodes) ==
    Each(LAMBDA n : IF n.k \in MacroKinds
                    THEN [n EXCEPT !.at.attrs = [key \in DOMAIN @ \ {"legacyAnchorId"} |-> @[key]], !.c = WithoutSecondNames(@)]
                    ELSE [n EXCEPT !.c = WithoutSecondNames(@)], nodes)
TextsTellPages ==
    \A n \in ToSet(LinkedText(saved.doc)), s \in ToSet(saved.links) :
        Slugless(LinkOf(n)) /\ ~IsKnownPage(LinkOf(n)) /\ s.title # <<>> => s.text # n.at.v
ReadBackIsNoEdit ==
    [][at' = "readback" /\ ~ReadsDifferently(doc) /\ TextsTellPages =>
        Cardinality({WithoutSecondNames(DecodeDocument(nodes).out.c) : nodes \in {doc, doc'}}) = 1]_vars

\* A link that lacks both its code mark and the slug of its page is given both,
\* as the comment of RepairReadBack says (readback.go:86-87). The code gives it
\* the slug alone: restorePageSlugs starts from the marks that were read.
BothRepairsKept ==
    at = "readback" =>
        LET links == LinkedText(saved.doc) IN
        \A i \in DOMAIN links :
            LET code == CodeRepair(links, saved.links, i) IN
            SlugRepair(links, saved.links, i) # 0 /\ TakesCode(links[i]) /\ (code # 0 /\ saved.links[code].code)
                => HasMark(LinkedText(doc)[i].marks, "code") /\ ~Slugless(LinkOf(LinkedText(doc)[i]))

\* The content Confluence wrapped is on the page, however deep its wrappers
\* nest, up to the depth the code goes to (legacycontent.go:103).
RECURSIVE WrappedWords(_, _)
WrappedWords(nodes, depth) ==
    IF depth = 0 THEN {}
    ELSE UNION {WordsOf(DocWords(NestedContent(n))) \cup WrappedWords(NestedContent(n), depth - 1) :
                n \in {m \in NodesOf(nodes) : IsLegacyContent(m)}}
WrappersOpen ==
    Pulled /\ options.product = "confluence" =>
        WrappedWords(doc, MaxLegacyNesting) \subseteq WordsOf(PageWords(page.c, {})) \cup TitlesOf(page.c)
=============================================================================
