----------------------------- MODULE Confluence -----------------------------
(* What Confluence needs of a document before it is saved and after it is     *)
(* read (package confluence), and what Confluence itself does to one, as far  *)
(* as the package's comments measured it: Saved, ReadBack and StorageLinks    *)
(* stand for the product, the rest for the passes of the package.             *)
EXTENDS AstToAdf, AdfToAst, Documents

\* Anchors of headings, as the macro that Confluence has for them.
LoweredHeading(n) ==
    [n EXCEPT !.at.anchor = "",
              !.c = Append(@, ADF("inlineExtension", MacroAttrs("anchor", NoAttrs, n.at.anchor), <<>>))]
\* Forms the code could have had instead; each breaks a property of a run.
LowerTopAnchors(nodes) ==
    Each(LAMBDA n : IF n.k = "heading" /\ n.at.anchor # "" THEN LoweredHeading(n) ELSE n, nodes)
StripAnchors(nodes) == StripSynthetic(nodes)

RECURSIVE LoweredAnchors(_)
LoweredAnchors(nodes) ==
    Each(LAMBDA n : IF n.k = "heading" /\ n.at.anchor # "" THEN LoweredHeading(n)
                    ELSE [n EXCEPT !.c = LoweredAnchors(@)], nodes)
LowerAnchors(nodes) == LoweredAnchors(nodes)

IsAnchorMacro(n) ==
    n.k = "inlineExtension" /\ Attr(n, "type") = MacroExtensionType /\ Attr(n, "key") = MacroSpecs.anchor.key
AnchorLiftable(n) ==
    /\ MacroSugared(n) /\ MacroLabel(n) \notin Unspellable \cup {""}
    /\ DOMAIN MacroDirectiveAttrs(n) \subseteq {"legacyAnchorId"}
TrimSpaceEnd(content) ==
    IF content = <<>> \/ Last(content).k # "text" \/ TrimRight(Last(content).at.v, Space) = Last(content).at.v THEN content
    ELSE IF TrimRight(Last(content).at.v, Space) = <<>> THEN Front(content)
    ELSE Append(Front(content), [Last(content) EXCEPT !.at.v = TrimRight(@, Space)])
TrimAnchorGap(content, at) == TrimSpaceEnd(SubSeq(content, 1, at - 1)) \o SubSeq(content, at + 1, Len(content))
AnchorMacros(n) == {i \in DOMAIN n.c : IsAnchorMacro(n.c[i])}
LiftAnchor(n) ==
    LET at == CHOOSE i \in AnchorMacros(n) : TRUE IN
    [n EXCEPT !.at.anchor = MacroLabel(n.c[at]), !.c = TrimAnchorGap(@, at)]
HasSoleAnchor(n) == Cardinality(AnchorMacros(n)) = 1
HasLiftableAnchor(n) == HasSoleAnchor(n) /\ \A i \in AnchorMacros(n) : AnchorLiftable(n.c[i])
RECURSIVE LiftAnchors(_)
LiftAnchors(nodes) ==
    Each(LAMBDA n : IF n.k = "heading" /\ HasLiftableAnchor(n) THEN LiftAnchor(n)
                    ELSE [n EXCEPT !.c = LiftAnchors(@)], nodes)

\* Tasks with several blocks: a space between two of them, for Confluence puts
\* none there when it makes them a line.
SeparatorParagraph == ADF("paragraph", Plain, <<ADFText(<<Space>>, <<>>)>>)
IsSeparatorParagraph(n) ==
    n.k = "paragraph" /\ n.c # <<>> /\ \A i \in DOMAIN n.c : n.c[i].k = "text" /\ TrimSpace(n.c[i].at.v) = <<>>
ParagraphEndingInSpace(p) ==
    IF p.c = <<>> \/ Last(p.c).k # "text" THEN [p EXCEPT !.c = Append(@, ADFText(<<Space>>, <<>>))]
    ELSE IF TrimRight(Last(p.c).at.v, Space) # Last(p.c).at.v THEN p
    ELSE [p EXCEPT !.c[Len(p.c)].at.v = Append(@, Space)]
LeaveTaskBody(blocks) == blocks

SeparatedTaskBody(blocks) ==
    LET Separated(i) ==
            CASE i = Len(blocks) -> <<blocks[i]>>
              [] i < Len(blocks) /\ blocks[i].k = "paragraph" -> <<ParagraphEndingInSpace(blocks[i])>>
              [] OTHER -> IF IsSeparatorParagraph(blocks[i + 1]) THEN <<blocks[i]>> ELSE <<blocks[i], SeparatorParagraph>>
    IN  FlatMap(Separated, [i \in DOMAIN blocks |-> i])
RECURSIVE SeparateBlockTaskItems(_)
SeparateBlockTaskItems(nodes) ==
    Each(LAMBDA n : LET c == SeparateBlockTaskItems(n.c) IN
                    [n EXCEPT !.c = IF n.k = "blockTaskItem" THEN SeparatedTaskBody(c) ELSE c], nodes)

\* What Confluence could not hold in its place is a wrapper around it, which is
\* opened again, as are the wrappers inside, up to a depth.
LegacyContentType == "confluence.migration"
LegacyContent(content, version) ==
    ADF("extension", [type |-> LegacyContentType, key |-> "legacy-content",
                      parameters |-> [nestedContent |-> [version |-> version, content |-> content]]], <<>>)
IsLegacyContent(n) ==
    /\ n.k = "extension" /\ Attr(n, "type") = LegacyContentType /\ Attr(n, "key") = "legacy-content"
    /\ "parameters" \in DOMAIN n.at /\ "nestedContent" \in DOMAIN n.at.parameters
NestedContent(n) == IF n.at.parameters.nestedContent.version = 1 THEN n.at.parameters.nestedContent.content ELSE <<>>
MaxLegacyNesting == 8
ExpandOutermost(n, depth) == NestedContent(n)

RECURSIVE ExpandLegacyContentDepth(_, _), Expansion(_, _)
Expansion(n, depth) == ExpandLegacyContentDepth(NestedContent(n), depth + 1)
ExpandLegacyContentDepth(nodes, depth) ==
    IF depth >= MaxLegacyNesting THEN nodes
    ELSE FlatMap(LAMBDA n : IF IsLegacyContent(n) /\ NestedContent(n) # <<>> THEN Expansion(n, depth)
                            ELSE <<[n EXCEPT !.c = ExpandLegacyContentDepth(@, depth)]>>, nodes)
ExpandLegacyContent(nodes) == ExpandLegacyContentDepth(nodes, 0)

\* Addresses of pages: the page, the slug of its title, and what follows. The
\* table options.pages reads the addresses that occur; options.titles is what
\* the pages that the product knows are called now.
IsPage(href) == Found(options.pages, href)
Slugless(href) == IsPage(href) /\ options.pages[href].slug = ""
IsKnownPage(href) == IsPage(href) /\ options.pages[href].id \in DOMAIN options.titles
PageSlug(title) ==
    FoldLeft(LAMBDA slug, w : CASE w = Space -> slug [] slug = "" -> w [] OTHER -> slug \o "+" \o w, "", title)
WithSlug(href, slug) == options.pages[href].id \o "/" \o slug \o options.pages[href].tail

\* The links of a page as Confluence stores them, read in document order: a run
\* of texts with one address, by the title of the page it leads to, if it is one
\* that the product knows, or by href.
LinkOf(n) == IF n.k = "text" /\ HasMark(n.marks, "link") THEN FirstMark(n.marks, "link").v ELSE ""
SameLinkAs(nodes, i, j) == i \in DOMAIN nodes /\ LinkOf(nodes[i]) = LinkOf(nodes[j])
StorageLink(run) ==
    LET href == LinkOf(run[1]) IN
    [href |-> IF IsKnownPage(href) THEN "" ELSE href,
     title |-> IF IsKnownPage(href) THEN options.titles[options.pages[href].id] ELSE <<>>,
     text |-> FlatMap(LAMBDA n : n.at.v, run), code |-> \A i \in DOMAIN run : HasMark(run[i].marks, "code")]
RECURSIVE StorageLinks(_)
StorageLinks(nodes) ==
    LET Run(i) == SubSeq(nodes, i, (CHOOSE end \in i..Len(nodes) :
                                        (\A j \in i..end : SameLinkAs(nodes, j, i)) /\ ~SameLinkAs(nodes, end + 1, i)))
        From(i) ==
            IF LinkOf(nodes[i]) = "" THEN StorageLinks(nodes[i].c)
            ELSE IF SameLinkAs(nodes, i - 1, i) THEN <<>> ELSE <<StorageLink(Run(i))>>
    IN  FlatMap(From, [i \in DOMAIN nodes |-> i])

\* Saving: a task of paragraphs is a line, a block that may not stand in a list
\* item is wrapped, a macro gets an id and an anchor a second name.
OnlyParagraphs(item) == \A i \in DOMAIN item.c : item.c[i].k = "paragraph"
Wrappable(parent, n) ==
    \/ parent.k = "listItem" /\ n.k \notin ListItemAllowed
    \/ parent.k = "blockTaskItem" /\ ~OnlyParagraphs(parent) /\ n.k = "codeBlock"
Stamped(n) ==
    IF ~(n.k \in {"extension", "bodiedExtension", "inlineExtension"} /\ MacroSugared(n) /\ "parameters" \in DOMAIN n.at) THEN n
    ELSE [n EXCEPT !.at.parameters =
            [macroMetadata |-> ("macroId" :> "m") @@ Section(n, "macroMetadata"),
             macroParams |-> (IF IsAnchorMacro(n) THEN AttrIf("legacyAnchorId", "Page-" \o MacroLabel(n)) ELSE NoAttrs)
                                @@ Section(n, "macroParams")]]
AsLine(item) ==
    IF item.k = "blockTaskItem" /\ OnlyParagraphs(item)
    THEN [item EXCEPT !.k = "taskItem", !.c = FlatMap(LAMBDA p : p.c, item.c)] ELSE item
RECURSIVE Saved(_)
Saved(n) ==
    AsLine([Stamped(n) EXCEPT !.c = Each(LAMBDA c : IF Wrappable(n, c) THEN LegacyContent(<<c>>, 1) ELSE Saved(c), @)])
SavedDocument(nodes) == Each(Saved, nodes)

\* Reading: a link's text has lost its code mark, a known page's address its slug.
ReadHref(href) == IF IsKnownPage(href) THEN options.pages[href].id \o options.pages[href].tail ELSE href
RelinkMark(mark, href) == IF mark.m = "link" THEN [mark EXCEPT !.v = href] ELSE mark
WithHref(n, href) == [n EXCEPT !.marks = Each(LAMBDA mark : RelinkMark(mark, href), @)]
ReadText(n) ==
    LET href == LinkOf(n)
        marks == IF IsKnownPage(href) THEN n.marks ELSE SelectSeq(n.marks, LAMBDA mark : mark.m # "code")
    IN  IF href = "" THEN n ELSE WithHref([n EXCEPT !.marks = marks], ReadHref(href))
RECURSIVE ReadBack(_)
ReadBack(nodes) == Each(LAMBDA n : [ReadText(n) EXCEPT !.c = ReadBack(@)], nodes)

\* Repairing what was read with what is stored: the links of both sides pair up
\* by key, position for position, and not at all where their numbers differ.
LinkedText(nodes) == SelectSeq(WalkAll(nodes), LAMBDA n : LinkOf(n) # "")
Positions(keys, key) == {i \in DOMAIN keys : keys[i] = key}
Rank(positions, i) == Cardinality({j \in positions : j <= i})
AlignLoosely(storedKeys, linkKeys, i) ==
    LET side == Positions(storedKeys, linkKeys[i]) IN IF linkKeys[i] = <<>> \/ side = {} THEN 0 ELSE Min(side)

Align(storedKeys, linkKeys, i) ==
    LET side == Positions(storedKeys, linkKeys[i])
        group == Positions(linkKeys, linkKeys[i])
    IN  IF linkKeys[i] = <<>> \/ Cardinality(side) # Cardinality(group) THEN 0
        ELSE CHOOSE j \in side : Rank(side, j) = Rank(group, i)

\* Code goes by address and text, and never onto text whose marks exclude it.
CodeKeys(stored) == Each(LAMBDA s : IF s.href = "" THEN <<>> ELSE <<s.href, s.text>>, stored)
LinkCodeKeys(links) == Each(LAMBDA n : <<LinkOf(n), n.at.v>>, links)
TakesCode(n) == \A i \in DOMAIN n.marks : n.marks[i].m \notin {"code", "strong", "em", "strike"}
WithCode(n, s) == IF s.code /\ TakesCode(n) THEN AddMark(n, Mark("code", "", "")) ELSE n
\* A slug goes by text alone, for storage names the page by its title.
SlugKeys(stored) == Each(LAMBDA s : IF s.title = <<>> THEN <<>> ELSE <<s.text>>, stored)
LinkSlugKeys(links) == Each(LAMBDA n : IF Slugless(LinkOf(n)) THEN <<n.at.v>> ELSE <<>>, links)
WithPageSlug(n, s) == WithHref(n, WithSlug(LinkOf(n), PageSlug(s.title)))

\* Either repair starts from the text as it was read, so that a slug undoes the
\* code mark of the other.
CodeRepair(links, stored, i) == Align(CodeKeys(stored), LinkCodeKeys(links), i)
SlugRepair(links, stored, i) ==
    LET s == Align(SlugKeys(stored), LinkSlugKeys(links), i) IN
    IF s = 0 THEN 0 ELSE IF PageSlug(stored[s].title) = "" THEN 0 ELSE s
RepairedLinks(links, stored) ==
    LET Repaired(i) ==
            LET code == CodeRepair(links, stored, i)
                slug == SlugRepair(links, stored, i)
            IN  IF slug # 0 THEN WithPageSlug(links[i], stored[slug])
                ELSE IF code # 0 THEN WithCode(links[i], stored[code]) ELSE links[i]
    IN  [i \in DOMAIN links |-> Repaired(i)]
RECURSIVE WithLinks(_, _)
WithLinks(nodes, links) ==
    LET Put(acc, n) ==
            LET own == Len(LinkedText(<<n>>)) IN
            [left |-> SubSeq(acc.left, own + 1, Len(acc.left)),
             out |-> Append(acc.out, IF LinkOf(n) # "" THEN acc.left[1]
                                     ELSE [n EXCEPT !.c = WithLinks(@, SubSeq(acc.left, 1, own))])]
    IN  FoldLeft(Put, [left |-> links, out |-> <<>>], nodes).out
RepairReadBack(nodes, stored) == WithLinks(nodes, RepairedLinks(LinkedText(nodes), stored))
=============================================================================
