---------------------------- MODULE DialectEncode ----------------------------
(* How the dialect's directives encode to ADF (package dialect). A directive  *)
(* sees the converter through an encode context; here it is handed what the   *)
(* context would answer: body, its children as blocks; lines, the inlines of  *)
(* each of them; content, its children as inlines under its own style.        *)
(* What the caller configured is in options.                                  *)
EXTENDS Macros

VARIABLE options

\* A caller's lookup table, and the answer of a lookup that finds nothing.
Found(table, key) == key \in DOMAIN table
Lookup(table, key, otherwise) == IF Found(table, key) THEN table[key] ELSE otherwise

StyleOrder == <<"strong", "em", "strike", "textColor", "backgroundColor", "underline", "subsup", "fontSize">>
Style(kind, value) == [style |-> kind, v |-> value, w |-> ""]
AnnotationStyle(id, type) == [style |-> "annotation", v |-> id, w |-> type]

AssetID(ref) == IF ref = "" THEN "" ELSE Lookup(options.assetIDs, ref, "")
AssetDims(ref) == IF ref = "" THEN "" ELSE Lookup(options.assetDims, ref, "")
AbsoluteHTTP(url) == url \in options.remote
ProjectsToImage(url) == url # "" /\ (AbsoluteHTTP(url) \/ options.preserveLocalImages)

\* The alignment of a table's columns, as far as any of them has one.
Alignments == {"left", "center", "right"}
AnyAligned(align) == IF ToSet(align) \cap Alignments = {} THEN <<>> ELSE align

SmartLinkURL(label) == Lookup(options.urlForKey, TrimSpace(label), TrimSpace(label))

\* The dialect's kinds of node, by the place they stand in.
MediaKinds == {"media", "mediaCaption", "mediaInline"}
RawKinds == {"rawBlock", "rawLeaf", "rawText"}
CardKinds == {"linkCard", "linkEmbed"}
TitledKinds == {"panel", "expand"}
HintKinds == {"colwidths", "decisions"}
LabelKinds == {"mention", "status"}
StyleKinds == {"color", "bg", "underline", "sub", "sup"}
ValueKinds == {"date", "placeholder", "emoji", "annotation", "fontSize", "inlineExtension"}
LeafKinds == {"extension", "syncBlock"}
BodyKinds == {"bodiedExtension", "frame", "bodiedSyncBlock", "section", "column"}
MarkKinds == {"align", "indent", "breakout", "dataConsumer", "fragment"}
BlockExtensions == {"media", "mediaCaption", "jql", "rawBlock", "rawLeaf"} \cup CardKinds \cup TitledKinds
    \cup HintKinds \cup LeafKinds \cup BodyKinds \cup MarkKinds \cup MacroBlocks
InlineExtensions == {"mediaInline", "rawText", "confluenceInlineMacro"} \cup LabelKinds \cup StyleKinds \cup ValueKinds

MediaLookupPath(n) ==
    IF n.k \notin MediaKinds \/ Attr(n, "type") = "external" \/ Attr(n, "id") # "" THEN "" ELSE Attr(n, "path")
UnresolvedMediaPath(n) == MediaLookupPath(n) # "" /\ AssetID(MediaLookupPath(n)) = ""
SourcelessMedia(n) ==
    n.k \in {"media", "mediaCaption"} /\ \A key \in {"id", "url", "path"} : Attr(n, key) = ""

RawNodeCorrupted(n) == n.k \in RawKinds /\ (Attr(n, "type") = "" \/ Attr(n, "data") = "torn")
EncodesAsDatasource(n) == PlainText(n.c) # <<>> /\ Attr(n, "cloudId") # "" /\ Attr(n, "datasource") # ""
CardResolves(n) == SmartLinkURL(PlainText(n.c)) # <<>>

HasLabel(children) == children # <<>> /\ children[1].k = "paragraph" /\ children[1].at.label
LabelText(children) == IF HasLabel(children) THEN PlainText(children[1].c) ELSE <<>>
\* The children of a directive that has a label of its own, without it.
Body(n) == IF n.k \in {"expand", "mediaCaption", "confluenceBodiedMacro"} /\ HasLabel(n.c) THEN Tail(n.c) ELSE n.c

InlineMediaMarks(n) ==
    (IF Attr(n, "href") # "" THEN <<LinkMark(Attr(n, "href"), Attr(n, "hrefTitle"))>> ELSE <<>>)
        \o (IF Attr(n, "annotationId") # "" THEN <<Mark("annotation", Attr(n, "annotationId"), "inlineComment")>>
            ELSE <<>>)

\* Marks a media directive carries as attributes, in the order they are written.
MediaMarks(n) ==
    (IF Attr(n, "border") # "" THEN <<Mark("border", Attr(n, "border"), "")>> ELSE <<>>)
        \o InlineMediaMarks(n)

MediaNode(n, alt) ==
    LET type == IF Attr(n, "type") # "" THEN Attr(n, "type") ELSE "file"
        id == IF Attr(n, "id") # "" THEN Attr(n, "id") ELSE AssetID(Attr(n, "path"))
        width == IF Attr(n, "width") # "" THEN Attr(n, "width") ELSE AssetDims(Attr(n, "path"))
    IN  [ADF("media", [type |-> type, id |-> id, url |-> Attr(n, "url"),
                       alt |-> alt, width |-> width], <<>>)
            EXCEPT !.marks = MediaMarks(n)]

MediaSingle(n, media) ==
    LET layout == IF Attr(n, "layout") # "" THEN Attr(n, "layout")
                  ELSE IF media.at.type = "file" THEN "align-start" ELSE "center"
    IN  ADF("mediaSingle", [layout |-> layout, width |-> Attr(n, "layoutWidth")], <<media>>)

DegradedCardLabel(label) ==
    IF label = <<>> THEN Nothing ELSE Only(ADF("paragraph", Plain, <<ADFText(label, <<>>)>>))

BlockCard(url, query, of) == Only(ADF("blockCard", [url |-> url, query |-> query, of |-> of], <<>>))
\* The attributes a kind reads; what else is written on it has no place in ADF.
ExtensionKeys == {"type", "key", "parameters", "text", "localId"}
PayloadKeys ==
    [mention |-> {"id", "accessLevel"}, status |-> {"color", "style"}, date |-> {"timestamp", "localId"},
     placeholder |-> {"localId"}, emoji |-> {"shortName", "id", "text"}, inlineExtension |-> ExtensionKeys,
     extension |-> ExtensionKeys \cup {"layout"}, bodiedExtension |-> ExtensionKeys \cup {"layout"},
     jql |-> {"cloudId", "datasource", "url", "columns"}, syncBlock |-> {"resourceId", "localId"},
     bodiedSyncBlock |-> {"resourceId", "localId"}, section |-> {"columnRuleStyle", "localId"},
     column |-> {"localId", "valign", "width"}, rawBlock |-> {"type", "data"}, rawLeaf |-> {"type", "data"},
     rawText |-> {"type", "data"}]
Picked(at, keys) == [key \in {k \in keys \cap DOMAIN at : k = "parameters" \/ at[k] # ""} |-> at[key]]
Payload(n) ==
    (IF n.k = "status" /\ Attr(n, "color") = "" THEN "color" :> "neutral" ELSE NoAttrs) @@ Picked(n.at, PayloadKeys[n.k])
Named(n, kind) == ADF(kind, Payload(n), <<>>)
HasKey(n) == Attr(n, "type") # "" /\ Attr(n, "key") # ""

FirstCaptionLine(lines) == IF lines = <<>> THEN Nothing ELSE lines[1]

\* Captions keep the inlines of their blocks, with a break between two of them.
JoinedLines(lines, break) ==
    LET Joined(acc, line) ==
            IF line.out = <<>> \/ acc.out = <<>> THEN Both(acc, line) ELSE Both(Both(acc, Only(break)), line)
    IN  FoldLeft(Joined, Nothing, lines)
CaptionInlines(lines) == JoinedLines(lines, ADF("hardBreak", Plain, <<>>))

\* A container that adds a mark to each of its blocks, and adds none when its
\* own value is missing or out of range (levels other than "1" and "2" stand
\* for the numbers below one and for the texts that are no number).
Unmarked == Mark("none", "", "")
BlockMark(n) ==
    CASE n.k = "align" /\ Attr(n, "align") \in {"center", "end"} -> Mark("alignment", Attr(n, "align"), "")
      [] n.k = "indent" /\ Attr(n, "level") \in {"1", "2"} -> Mark("indentation", Attr(n, "level"), "")
      [] n.k = "breakout" /\ Attr(n, "mode") # "" -> Mark("breakout", Attr(n, "mode"), Attr(n, "width"))
      [] n.k = "dataConsumer" /\ Attr(n, "sources") # "" -> Mark("dataConsumer", Attr(n, "sources"), "")
      [] n.k = "fragment" /\ Attr(n, "localId") # "" -> Mark("fragment", Attr(n, "localId"), Attr(n, "name"))
      [] OTHER -> Unmarked
MarkedBlocks(n, blocks) ==
    IF BlockMark(n) = Unmarked THEN blocks
    ELSE [blocks EXCEPT !.out = Each(LAMBDA b : AddMark(b, BlockMark(n)), @)]

\* Directives in block position.
GroupedOrSingle(n, media) ==
    IF Attr(n, "group") = "true" THEN ADF("mediaGroup", Plain, <<media>>) ELSE MediaSingle(n, media)
EncodeMedia(n) == Only(GroupedOrSingle(n, MediaNode(n, PlainText(n.c))))
Captioned(single, caption) ==
    Result(<<IF caption.out = <<>> THEN single
             ELSE [single EXCEPT !.c = Append(@, ADF("caption", Plain, caption.out))]>>, caption.log)
EncodeCaptioned(n, lines) == Captioned(MediaSingle(n, MediaNode(n, LabelText(n.c))), CaptionInlines(lines))
EncodeColwidths(n) ==
    IF n.at.widths = <<>> THEN Nothing ELSE Only(ADF("colwidthsHint", [widths |-> n.at.widths], <<>>))
EncodeBodied(n, body) ==
    LET frames == n.c # <<>> /\ \A i \in DOMAIN n.c : n.c[i].k = "frame"
    IN  CASE ~HasKey(n) -> body
          [] HasKey(n) /\ (Attr(n, "multi") # "" \/ frames) -> Wrapped(body, Named(n, "multiBodiedExtension"))
          [] OTHER -> Wrapped(body, Named(n, IF body.out = <<>> THEN "extension" ELSE "bodiedExtension"))

EmbedLayout(n) == IF Attr(n, "layout") = "" THEN "center" ELSE Attr(n, "layout")
EncodeCard(n) ==
    CASE n.k = "jql" /\ EncodesAsDatasource(n) -> BlockCard(AsWords(Attr(n, "url")), PlainText(n.c), Payload(n))
      [] n.k = "jql" /\ ~EncodesAsDatasource(n) -> DegradedCardLabel(PlainText(n.c))
      [] n.k \in CardKinds /\ ~CardResolves(n) -> DegradedCardLabel(TrimSpace(PlainText(n.c)))
      [] n.k = "linkCard" /\ CardResolves(n) -> BlockCard(SmartLinkURL(PlainText(n.c)), <<>>, NoAttrs)
      [] n.k = "linkEmbed" /\ CardResolves(n) ->
            Only(ADF("embedCard", [url |-> SmartLinkURL(PlainText(n.c)), layout |-> EmbedLayout(n)], <<>>))
EncodeNested(n, body) ==
    CASE n.k = "bodiedExtension" -> EncodeBodied(n, body)
      [] n.k = "frame" -> Wrapped(body, ADF("extensionFrame", Plain, <<>>))
      [] n.k = "bodiedSyncBlock" -> IF Attr(n, "resourceId") = "" THEN body
                                    ELSE Wrapped(body, Named(n, "bodiedSyncBlock"))
      [] n.k = "section" -> Wrapped(body, Named(n, "layoutSection"))
      [] n.k = "column" -> Wrapped(body, Named(n, "layoutColumn"))
\* A raw node becomes the unknown node it was; a corrupted one leaves its content.
EncodeRaw(n, children) ==
    CASE n.k = "rawLeaf" -> When(~RawNodeCorrupted(n), Only(Named(n, "rawNode")))
      [] n.k # "rawLeaf" /\ RawNodeCorrupted(n) -> children
      [] n.k # "rawLeaf" /\ ~RawNodeCorrupted(n) -> Wrapped(children, Named(n, "rawNode"))

EncodeBlock(n, body, lines) ==
    CASE n.k = "panel" -> Wrapped(body, ADF("panel", [type |-> n.at.type], <<>>))
      [] n.k = "expand" -> Wrapped(body, ADF("expand", [title |-> LabelText(n.c)], <<>>))
      [] n.k = "media" -> EncodeMedia(n)
      [] n.k = "mediaCaption" -> EncodeCaptioned(n, lines)
      [] n.k \in CardKinds \cup {"jql"} -> EncodeCard(n)
      [] n.k = "colwidths" -> EncodeColwidths(n)
      [] n.k = "decisions" -> Nothing
      [] n.k = "extension" -> When(HasKey(n), Only(Named(n, "extension")))
      [] n.k = "syncBlock" -> When(Attr(n, "resourceId") # "", Only(Named(n, "syncBlock")))
      [] n.k \in BodyKinds -> EncodeNested(n, body)
      [] n.k \in MarkKinds -> MarkedBlocks(n, body)
      [] n.k \in RawKinds -> EncodeRaw(n, body)
      [] n.k = "confluenceMacro" -> Only(BodilessMacro(n, AsValue(PlainText(n.c))))
      [] n.k = "confluenceBodiedMacro" -> EncodeBodiedMacro(n, AsValue(LabelText(n.c)), body)

\* Directives in inline position. Dates are the labels that read as a day.
Dates == << "2024-05-06" >> :> "1714953600000"
Timestamp(n) == IF Attr(n, "timestamp") # "" THEN n.at.timestamp ELSE Lookup(Dates, PlainText(n.c), "")
Labelled(n, kind) ==
    LET label == TrimSpace(PlainText(n.c)) IN
    When(label # <<>>, Only(ADF(kind, [label |-> label, of |-> Payload(n)], <<>>)))
EncodeMediaInline(n) ==
    LET id == IF Attr(n, "id") # "" THEN Attr(n, "id") ELSE AssetID(Attr(n, "path"))
        type == IF Attr(n, "type") # "" THEN Attr(n, "type") ELSE "file"
    IN  Only([ADF("mediaInline", [type |-> type, id |-> id, alt |-> TrimSpace(PlainText(n.c))], <<>>)
                  EXCEPT !.marks = InlineMediaMarks(n)])

\* An annotation without an id, like the retired font size, styles nothing.
AddsStyle(n) == n.k \in StyleKinds \/ (n.k = "annotation" /\ Attr(n, "id") # "")
EncodeStyle(n) ==
    CASE n.k = "color" -> Style("textColor", Attr(n, "color"))
      [] n.k = "bg" -> Style("backgroundColor", Attr(n, "color"))
      [] n.k = "underline" -> Style("underline", "on")
      [] n.k \in {"sub", "sup"} -> Style("subsup", n.k)
      [] n.k = "annotation" -> AnnotationStyle(Attr(n, "id"), "inlineComment")

EncodeInline(n, content) ==
    CASE n.k \in LabelKinds -> Labelled(n, n.k)
      [] n.k = "date" -> When(Timestamp(n) # "", Only(ADF("date", ("timestamp" :> Timestamp(n)) @@ Payload(n), <<>>)))
      [] n.k = "placeholder" ->
            When(PlainText(n.c) # <<>>, Only(ADF("placeholder", [text |-> PlainText(n.c), of |-> Payload(n)], <<>>)))
      [] n.k = "emoji" -> When(Attr(n, "shortName") # "", Only(Named(n, "emoji")))
      [] n.k = "inlineExtension" -> When(HasKey(n), Only(Named(n, "inlineExtension")))
      [] n.k = "mediaInline" -> EncodeMediaInline(n)
      [] n.k \in StyleKinds \cup {"fontSize", "annotation"} -> content
      [] n.k = "rawText" -> EncodeRaw(n, content)
      [] n.k = "confluenceInlineMacro" -> Only(EncodeInlineMacro(n))
=============================================================================
