--------------------------------- MODULE Wire ---------------------------------
(* The JSON codec of package adf. A document arrives as JSON; every node of a *)
(* kind the library knows becomes a typed node, whose fields hold the         *)
(* attributes their types can hold, and whatever else it carries is kept      *)
(* beside them, so that nothing is lost when it is encoded again; in between  *)
(* it may be stripped of what no product takes. A document is a tree: a       *)
(* function from places to nodes. The place of a node is the way to it from   *)
(* the top, so it is as long as the node is deep, and begins with the place   *)
(* of every node around it; the content of a node is what stands directly     *)
(* below it, in the order of the places. (An empty array of children stands   *)
(* for none.)                                                                 *)
EXTENDS WireAttrs, Naturals, Sequences, SequencesExt

CONSTANTS
    MaxDecodeDepth,   \* how deep the content of a document is read
    Documents         \* the documents that may arrive

IsAttrs(attrs) == attrs = [key \in DOMAIN attrs |-> attrs[key]]
IsMark(mark) == mark = [type |-> mark.type, attrs |-> mark.attrs] /\ IsAttrs(mark.attrs)
IsNode(j) ==
    /\ j = [type |-> j.type, text |-> j.text, attrs |-> j.attrs, marks |-> j.marks]
    /\ IsAttrs(j.attrs)
    /\ j.marks = [i \in DOMAIN j.marks |-> j.marks[i]] /\ \A i \in DOMAIN j.marks : IsMark(j.marks[i])
IsDocument(doc) ==
    /\ DOMAIN doc \subseteq Seq(Nat)
    /\ \A place \in DOMAIN doc : place # <<>> /\ \A n \in 1..Len(place) : SubSeq(place, 1, n) \in DOMAIN doc
    /\ doc = [place \in DOMAIN doc |-> doc[place]] /\ \A place \in DOMAIN doc : IsNode(doc[place])

ASSUME WireAssumption ==
    /\ MaxDecodeDepth \in Nat
    /\ \A doc \in Documents : IsDocument(doc)

VARIABLES
    json,             \* a document as JSON
    typed,            \* the nodes it was decoded to, at their places
    stage,            \* what was done last with it
    reported          \* what the last decode reported

wire == <<json, typed, stage, reported>>
NoDocument == <<>>

HasContent(doc, place) ==
    \E below \in DOMAIN doc : Len(below) = Len(place) + 1 /\ IsPrefix(place, below)

\* Decoding. A known kind fits its type if it has no text or children the type
\* has no room for; a node that does not fit is kept as it is.
Readable(doc) == Restrict(doc, {place \in DOMAIN doc : Len(place) <= MaxDecodeDepth})
Fits(j, hasContent) ==
    /\ j.type \in DOMAIN NodeFields
    /\ j.type # "text" => j.text = ""
    /\ j.type \notin DOMAIN BranchFields => ~hasContent
FitsAt(doc, place) == Fits(doc[place], HasContent(doc, place))
ReadMarks(marks) == [i \in DOMAIN marks |-> DecodedMark(marks[i].type, marks[i].attrs)]
ReadNode(j, fits) ==
    [kind |-> j.type, raw |-> ~fits, text |-> j.text, attrs |-> DecodedAttrs(j.type, fits, j.attrs),
     marks |-> ReadMarks(j.marks)]
ReadContent(doc) == [place \in DOMAIN doc |-> ReadNode(doc[place], FitsAt(doc, place))]
DecodeDoc(doc) == ReadContent(Readable(doc))

\* What it reports: kinds and attributes nobody knows, and once that it was too deep.
Diagnostic(code, about) == [code |-> code, about |-> about]
ReportAttrs(types, attrs, kind) ==
    {Diagnostic("unknown-attr", <<kind, key>>) : key \in DOMAIN attrs \ DOMAIN types}
ReportMark(mark) ==
    IF mark.type \in DOMAIN MarkFields THEN ReportAttrs(MarkFields[mark.type], mark.attrs, mark.type)
    ELSE {Diagnostic("unknown-mark", <<mark.type>>)}
ReportMarks(marks) == UNION {ReportMark(marks[i]) : i \in DOMAIN marks}
ReportKind(j, fits) ==
    IF fits THEN ReportAttrs(NodeFields[j.type], j.attrs, j.type)
    ELSE IF j.type \in DOMAIN NodeFields THEN {}
    ELSE {Diagnostic("unknown-node", <<j.type>>)}
ReportNode(j, fits) == ReportMarks(j.marks) \cup ReportKind(j, fits)
ReportContent(doc) == UNION {ReportNode(doc[place], FitsAt(doc, place)) : place \in DOMAIN doc}
TooDeep == Diagnostic("depth-exceeded", <<>>)
ReportDoc(doc) == ReportContent(Readable(doc)) \cup (IF Readable(doc) = doc THEN {} ELSE {TooDeep})

\* Encoding.
HasContentSlot(n) == n.raw \/ n.kind \in DOMAIN BranchFields
NodeText(n) == IF n.raw \/ n.kind = "text" THEN n.text ELSE ""
WriteMarks(marks) == [i \in DOMAIN marks |-> [type |-> marks[i].kind, attrs |-> AttrsOfMark(marks[i])]]
WriteNode(n) == [type |-> n.kind, text |-> NodeText(n), attrs |-> AttrsOfNode(n), marks |-> WriteMarks(n.marks)]
Reached(nodes) ==
    {place \in DOMAIN nodes : \A above \in DOMAIN nodes :
        IsStrictPrefix(above, place) => HasContentSlot(nodes[above])}
EncodeNodes(nodes) == [place \in Reached(nodes) |-> WriteNode(nodes[place])]

\* The document without the nodes and attributes no product takes.
IsHint(n) == ~n.raw /\ n.kind = "colwidthsHint"
NotInHint(nodes) ==
    {place \in DOMAIN nodes : \A above \in DOMAIN nodes : IsPrefix(above, place) => ~IsHint(nodes[above])}
WithoutSynthetic(nodes) == [place \in NotInHint(nodes) |-> ClearedNode(nodes[place])]

------------------------------------------------------------------------------
WireInit == json = NoDocument /\ typed = <<>> /\ stage = "waiting" /\ reported = {}

Arrive(doc) ==
    /\ stage = "waiting"
    /\ json' = doc /\ stage' = "arrived"
    /\ UNCHANGED <<typed, reported>>

ReadWire ==
    /\ stage \in {"arrived", "encoded"}
    /\ typed' = DecodeDoc(json) /\ reported' = ReportDoc(json)
    /\ stage' = "decoded"
    /\ UNCHANGED json

StripWire ==
    /\ stage = "decoded"
    /\ typed' = WithoutSynthetic(typed)
    /\ stage' = "stripped"
    /\ UNCHANGED <<json, reported>>

WriteWire ==
    /\ stage \in {"decoded", "stripped"}
    /\ json' = EncodeNodes(typed)
    /\ stage' = "encoded"
    /\ UNCHANGED <<typed, reported>>

WireNext ==
    \/ \E doc \in Documents : Arrive(doc)
    \/ ReadWire
    \/ StripWire
    \/ WriteWire

WireSpec == WireInit /\ [][WireNext]_wire

------------------------------------------------------------------------------
\* A document decoded is encoded as it arrived, whatever it holds, down to the
\* depth it is read to; what is deeper is cut and reported. Made fit to be sent,
\* it lacks only what no product takes: the attributes of the library's own that
\* have the type of their field, and hints (decode.go, encode.go, wire.go).
OwnAttr(j, key) ==
    /\ j.text = ""
    /\ \/ j.type = "heading" /\ key = "anchor" /\ j.attrs[key].t = "string" /\ j.attrs[key].v # ""
       \/ j.type = "table" /\ key = "align" /\ j.attrs[key].t \in {"strings", "empty"}
       \/ j.type \in {"bulletList", "orderedList"} /\ key = "tight" /\ j.attrs[key].t = "bool"
IsOwnHint(doc, place) == doc[place].type = "colwidthsHint" /\ doc[place].text = "" /\ ~HasContent(doc, place)
SendableNode(j) == [j EXCEPT !.attrs = Restrict(@, {key \in DOMAIN @ : ~OwnAttr(j, key)})]
Sent(doc) ==
    {place \in DOMAIN doc : \A above \in DOMAIN doc : IsPrefix(above, place) => ~IsOwnHint(doc, above)}
Sendable(doc) == [place \in Sent(doc) |-> SendableNode(doc[place])]
WireKeepsEverything ==
    [][LET read == Readable(json)
       IN  /\ stage' = "decoded" => EncodeNodes(typed') = read /\ (TooDeep \in reported' <=> read # json)
           /\ stage = "decoded" /\ stage' = "encoded" => json' = read
           /\ stage = "stripped" /\ stage' = "encoded" => json' = Sendable(read)]_wire
===============================================================================
