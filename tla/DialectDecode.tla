---------------------------- MODULE DialectDecode ----------------------------
(* How the dialect's directives come to be: from the generic directives of a  *)
(* parsed page (the promotions) and from the ADF nodes each kind owns (the    *)
(* decode hooks). A hook is handed what the converter made of the node's      *)
(* children: body as blocks, content as inlines; it answers a result as well. *)
EXTENDS DialectEncode

PanelTypes == {"info", "note", "warning", "success", "error"}

\* The kind a directive's name stands for, by the form it is written in.
TextKinds == [mention |-> "mention", status |-> "status", media |-> "mediaInline", color |-> "color", bg |-> "bg",
              u |-> "underline", sub |-> "sub", sup |-> "sup", date |-> "date", placeholder |-> "placeholder",
              emoji |-> "emoji", annotation |-> "annotation", fontSize |-> "fontSize",
              extension |-> "inlineExtension", rawNode |-> "rawText"]
LeafKindsByName == [k \in {"media", "jql", "linkCard", "linkEmbed", "colwidths", "decisions", "extension", "syncBlock"} |-> k]
                       @@ ("rawNode" :> "rawLeaf")
ContainerKinds == [k \in {"expand", "frame", "section", "column", "indent", "breakout", "dataConsumer", "fragment"} |-> k]
                      @@ [k \in PanelTypes |-> "panel"] @@ [k \in {"center", "end"} |-> "align"]
                      @@ [media |-> "mediaCaption", extension |-> "bodiedExtension", syncBlock |-> "bodiedSyncBlock",
                          rawNode |-> "rawBlock"]

StripMentionAt(children) ==
    IF children # <<>> /\ children[1].k = "text" /\ children[1].at.v # <<>> /\ children[1].at.v[1] = "@"
    THEN (IF Len(children[1].at.v) = 1 THEN <<>> ELSE <<Text(Tail(children[1].at.v))>>) \o Tail(children)
    ELSE children

\* An inline directive that is nothing but a known name is a word after a colon.
BareDirective(name) == Node("bareDirective", NoAttrs, <<Text(<<":" \o name>>)>>)
PromoteText(d, c) ==
    CASE DOMAIN d.at.attrs = {} /\ c = <<>> -> BareDirective(d.at.name)
      [] d.at.name = "mention" /\ ~(DOMAIN d.at.attrs = {} /\ c = <<>>) -> Node("mention", d.at.attrs, StripMentionAt(c))
      [] OTHER -> Node(TextKinds[d.at.name], d.at.attrs, c)
PromoteContainer(d, c) ==
    LET kind == ContainerKinds[d.at.name] IN
    Node(kind, CASE kind = "panel" -> [type |-> d.at.name] @@ d.at.attrs
                 [] kind = "align" -> [align |-> d.at.name] @@ d.at.attrs
                 [] OTHER -> d.at.attrs, c)

\* What a product registers goes before the kinds of the dialect.
PromotesToMacro(n) == options.macros /\ n.k \in DOMAIN MacroForms /\ n.at.name \in DOMAIN MacroSpecs
IsMacro(n) == options.macros /\ MacroSugared(n)

\* The typed nodes in place of the generic ones, children first.
RECURSIVE PromoteNode(_)
PromoteNode(n) ==
    LET c == Each(PromoteNode, n.c) IN
    CASE PromotesToMacro(n) -> MacroNode(MacroForms[n.k], n.at.name, n.at.attrs, c)
      [] n.k = "textDirective" /\ n.at.name \in DOMAIN TextKinds -> PromoteText(n, c)
      [] n.k = "leafDirective" /\ n.at.name \in DOMAIN LeafKindsByName -> Node(LeafKindsByName[n.at.name], n.at.attrs, c)
      [] n.k = "containerDirective" /\ n.at.name \in DOMAIN ContainerKinds -> PromoteContainer(n, c)
      [] OTHER -> [n EXCEPT !.c = c]

SmartLinkLabel(url) == IF Len(url) = 1 THEN Lookup(options.keyFromURL, url[1], url) ELSE url
HasAsset(id) == id # "" /\ Found(options.assets, id)
FirstMark(marks, m) == marks[SelectInSeq(marks, LAMBDA x : x.m = m)]
LabelOf(v) == IF v = <<>> THEN <<>> ELSE <<Text(v)>>

\* Text marks the dialect wraps content in; a mark it does not know wraps nothing.
WrapMark(mark, n) ==
    CASE mark.m = "textColor" -> Node("color", [color |-> mark.v], <<n>>)
      [] mark.m = "backgroundColor" -> Node("bg", [color |-> mark.v], <<n>>)
      [] mark.m = "underline" -> Node("underline", NoAttrs, <<n>>)
      [] mark.m = "subsup" -> Node(IF mark.v = "sup" THEN "sup" ELSE "sub", NoAttrs, <<n>>)
      [] mark.m = "annotation" ->
            Node("annotation", [id |-> mark.v, annotationType |-> IF mark.w = "" THEN "inlineComment" ELSE mark.w], <<n>>)
      [] OTHER -> n

\* Media. A picture is written as an image when an image can say all of it.
NoSingle == ADF("mediaSingle", [layout |-> "", width |-> ""], <<>>)
MediaLinkMark(marks) ==
    IF HasMark(marks, "link") /\ FirstMark(marks, "link").v # "" THEN FirstMark(marks, "link") ELSE LinkMark("", "")
MediaLink(media, single) ==
    IF MediaLinkMark(media.marks).v # "" THEN MediaLinkMark(media.marks) ELSE MediaLinkMark(single.marks)
MediaAnnotation(marks) == HasMark(marks, "annotation") /\ FirstMark(marks, "annotation").v # ""
NaturalDisplayWidth(media, single) == single.at.width # "" /\ single.at.width = media.at.width
SingleBlocksImage(single, defaultLayout, natural) ==
    \/ single.at.width # "" /\ ~natural
    \/ single.at.layout \notin {"", defaultLayout}
MediaBlocksImage(media, single, defaultLayout) ==
    \/ HasMark(media.marks, "border")
    \/ MediaAnnotation(media.marks)
    \/ SingleBlocksImage(single, defaultLayout, NaturalDisplayWidth(media, single))
DimsMatchAsset(media) ==
    /\ HasAsset(media.at.id)
    /\ options.assets[media.at.id].dims # "" /\ options.assets[media.at.id].dims = media.at.width
MediaAsImage(media, single) ==
    media.at.type = "external" /\ ProjectsToImage(media.at.url) /\ media.at.width = ""
        /\ ~MediaBlocksImage(media, single, "center")
FileMediaAsImage(media, single) ==
    media.at.type = "file" /\ DimsMatchAsset(media) /\ ~MediaBlocksImage(media, single, "align-start")
Imaged(media, single) == MediaAsImage(media, single) \/ FileMediaAsImage(media, single)

LinkedImage(img, link) == IF link.v = "" THEN img ELSE Link(link.v, link.w, <<img>>)
ImageURL(media) == IF media.at.type = "external" THEN media.at.url ELSE options.assets[media.at.id].path
ImageParagraph(media, single, title) ==
    Paragraph(<<LinkedImage(Image(ImageURL(media), title, LabelOf(media.at.alt)), MediaLink(media, single))>>)

MarkAttrs(marks, link) ==
    (IF MediaAnnotation(marks)
     THEN [annotationId |-> FirstMark(marks, "annotation").v, annotationType |-> "inlineComment"] ELSE NoAttrs)
        @@ (IF link.v = "" THEN NoAttrs ELSE AttrIf("href", link.v) @@ AttrIf("hrefTitle", link.w))
MediaAttrs(media, single, group) ==
    LET file == media.at.type \in {"", "file"}
        natural == NaturalDisplayWidth(media, single)
    IN  MarkAttrs(media.marks, MediaLink(media, single))
            @@ (IF HasMark(media.marks, "border") THEN AttrIf("border", FirstMark(media.marks, "border").v) ELSE NoAttrs)
            @@ AttrIf("group", IF group THEN "true" ELSE "")
            @@ AttrIf("width", IF DimsMatchAsset(media) THEN "" ELSE media.at.width)
            @@ AttrIf("layout", IF media.at.type = "file" /\ single.at.layout = "align-start" THEN "" ELSE single.at.layout)
            @@ AttrIf("layoutWidth", IF natural THEN "" ELSE single.at.width)
            @@ (IF HasAsset(media.at.id) THEN AttrIf("path", options.assets[media.at.id].path)
                ELSE AttrIf("id", media.at.id))
            @@ AttrIf("type", IF file THEN "" ELSE media.at.type) @@ AttrIf("url", media.at.url)
MediaLeaf(media, single, group) == Node("media", MediaAttrs(media, single, group), LabelOf(media.at.alt))

DecodeMediaNode(media, single) ==
    IF Imaged(media, single) THEN ImageParagraph(media, single, "") ELSE MediaLeaf(media, single, FALSE)
PlainCaption(inlines) == Len(inlines) = 1 /\ inlines[1].k = "text" /\ inlines[1].at.v # <<>>
DecodeCaptionedMedia(media, single, r) ==
    LET label == LabelOf(media.at.alt)
        body == (IF label = <<>> THEN <<>> ELSE <<LabelParagraph(label)>>)
                    \o (IF r.out = <<>> THEN <<>> ELSE <<Paragraph(r.out)>>)
    IN  IF PlainCaption(r.out) /\ Imaged(media, single)
        THEN Result(<<ImageParagraph(media, single, AsValue(r.out[1].at.v))>>, r.log)
        ELSE Result(<<Node("mediaCaption", MediaAttrs(media, single, FALSE), body)>>, r.log)
CaptionOf(single) ==
    LET captions == SelectSeq(single.c, LAMBDA n : n.k = "caption") IN IF captions = <<>> THEN <<>> ELSE captions[1].c
DecodeMediaSingle(single, caption) ==
    LET media == SelectSeq(single.c, LAMBDA n : n.k = "media") IN
        IF media = <<>> THEN Nothing
        ELSE IF CaptionOf(single) # <<>> THEN DecodeCaptionedMedia(media[1], single, caption)
        ELSE Only(DecodeMediaNode(media[1], single))
DecodeMediaGroup(group) ==
    Result(Each(LAMBDA m : MediaLeaf(m, NoSingle, TRUE), SelectSeq(group.c, LAMBDA n : n.k = "media")), <<>>)

\* Cards. A card that says nothing a directive could say is left out.
DecodeBlockCard(card) ==
    LET of(key) == IF key \in DOMAIN card.at.of THEN card.at.of[key] ELSE "" IN
    IF card.at.query # <<>> /\ of("cloudId") # "" /\ of("datasource") # ""
    THEN Only(Node("jql", card.at.of, <<Text(card.at.query)>>))
    ELSE When(card.at.url # <<>>, Only(Node("linkCard", NoAttrs, <<Text(SmartLinkLabel(card.at.url))>>)))
DecodeEmbedCard(card) ==
    When(card.at.url # <<>>, Only(Node("linkEmbed", AttrIf("layout", card.at.layout), <<Text(SmartLinkLabel(card.at.url))>>)))

DecodeExpand(n, body) ==
    IF TrimSpace(n.at.title) = <<>> THEN Wrapped(body, Node("expand", NoAttrs, <<>>))
    ELSE Result(<<Node("expand", NoAttrs, <<LabelParagraph(<<Text(n.at.title)>>)>> \o body.out)>>, body.log)
DecodeMultiBodied(n, body) ==
    Wrapped(body, Node("bodiedExtension", IF body.out = <<>> THEN ("multi" :> "on") @@ n.at ELSE n.at, <<>>))
DecodeRaw(n, leaf, kind, children) ==
    IF n.c = <<>> THEN Only(Node(leaf, n.at, <<>>)) ELSE Wrapped(children, Node(kind, n.at, <<>>))

DirectiveOf == [bodiedExtension |-> "bodiedExtension", extensionFrame |-> "frame", bodiedSyncBlock |-> "bodiedSyncBlock",
                layoutSection |-> "section", layoutColumn |-> "column"]
DecodedBlocks == {"panel", "expand", "nestedExpand", "mediaSingle", "media", "blockCard", "embedCard", "extension",
                  "multiBodiedExtension", "syncBlock", "rawNode"} \cup DOMAIN DirectiveOf
DecodeBlockNode(n, body, caption) ==
    CASE n.k = "panel" ->
            Wrapped(body, Node("panel", [type |-> IF n.at.type \in PanelTypes THEN n.at.type ELSE "info"], <<>>))
      [] n.k \in {"expand", "nestedExpand"} -> DecodeExpand(n, body)
      [] n.k = "mediaSingle" -> DecodeMediaSingle(n, caption)
      [] n.k = "media" -> Only(DecodeMediaNode(n, NoSingle))
      [] n.k = "blockCard" -> DecodeBlockCard(n)
      [] n.k = "embedCard" -> DecodeEmbedCard(n)
      [] n.k = "extension" /\ IsMacro(n) -> Only(MacroDirective(n, "confluenceMacro", MacroLabelText(n)))
      [] n.k = "bodiedExtension" /\ IsMacro(n) -> DecodeBodiedMacro(n, body)
      [] n.k \in {"extension", "syncBlock"} -> Only(Node(n.k, n.at, <<>>))
      [] n.k = "multiBodiedExtension" -> DecodeMultiBodied(n, body)
      [] n.k \in DOMAIN DirectiveOf -> Wrapped(body, Node(DirectiveOf[n.k], n.at, <<>>))
      [] n.k = "rawNode" -> DecodeRaw(n, "rawLeaf", "rawBlock", body)

\* Inline nodes.
DayOf == [t \in {Dates[day] : day \in DOMAIN Dates} |-> CHOOSE day \in DOMAIN Dates : Dates[day] = t]
DecodeDate(n) ==
    LET t == Attr(n, "timestamp") IN
    When(t # "", Only(Node("date", n.at, IF Found(DayOf, t) THEN <<Text(DayOf[t])>> ELSE <<>>)))
DecodeMediaInline(n) ==
    LET attrs == AttrIf("id", n.at.id) @@ AttrIf("type", IF n.at.type = "file" THEN "" ELSE n.at.type)
                     @@ MarkAttrs(n.marks, MediaLinkMark(n.marks))
        \* A chip that would be its bare name says its type.
        spelled == IF DOMAIN attrs = {} /\ n.at.alt = <<>> THEN "type" :> "file" ELSE attrs
    IN  Only(Node("mediaInline", spelled, LabelOf(n.at.alt)))
DecodedInlines == {"mention", "status", "mediaInline", "date", "placeholder", "inlineExtension", "rawNode"}
DecodeInlineNode(n, content) ==
    CASE n.k \in LabelKinds -> When(n.at.label # <<>>, Only(Node(n.k, n.at.of, <<Text(n.at.label)>>)))
      [] n.k = "mediaInline" -> DecodeMediaInline(n)
      [] n.k = "date" -> DecodeDate(n)
      [] n.k = "placeholder" -> When(n.at.text # <<>>, Only(Node("placeholder", n.at.of, <<Text(n.at.text)>>)))
      [] n.k = "inlineExtension" /\ IsMacro(n) -> Only(MacroDirective(n, "confluenceInlineMacro", MacroLabelText(n)))
      [] n.k = "inlineExtension" -> Only(Node("inlineExtension", n.at, <<>>))
      [] n.k = "rawNode" -> DecodeRaw(n, "rawText", "rawText", content)
=============================================================================
