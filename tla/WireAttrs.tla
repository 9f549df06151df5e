------------------------------ MODULE WireAttrs ------------------------------
(* The attributes of one node or mark in the JSON codec of package adf. The   *)
(* decoder has a field for each attribute a kind knows; a value its field     *)
(* cannot hold exactly is kept beside the fields, with the attributes nobody  *)
(* knows. The encoder writes the fields of a kind from a list of its own and  *)
(* lays over them what was kept. A value is its JSON type t and its text v.   *)

CONSTANT IntPart   \* what is left of each number that is no integer, in an int

NoFields == <<>>
Whole(v) == v \notin DOMAIN IntPart
Truncated(j) == IF Whole(j.v) THEN j ELSE [j EXCEPT !.v = IntPart[@]]

\* The attributes each kind has a field for, and the field's Go type.
WithId(type) == [localId |-> type]
Stated == [localId |-> "*string", state |-> "string"]
CellFields == [colspan |-> "int", rowspan |-> "int", colwidth |-> "[]float"]
ExtensionFields ==
    [extensionType |-> "string", extensionKey |-> "string", parameters |-> "any", text |-> "string", localId |-> "string"]
LaidOutFields ==
    [key \in DOMAIN ExtensionFields \cup {"layout"} |-> IF key = "layout" THEN "string" ELSE ExtensionFields[key]]
BranchFields ==
    [paragraph |-> NoFields, blockquote |-> NoFields, heading |-> [level |-> "int", anchor |-> "string"],
     codeBlock |-> [language |-> "string"], listItem |-> NoFields, bulletList |-> [tight |-> "*bool"],
     orderedList |-> [order |-> "*int", tight |-> "*bool"], taskList |-> WithId("*string"), taskItem |-> Stated,
     blockTaskItem |-> Stated, decisionList |-> WithId("*string"), decisionItem |-> Stated, tableRow |-> NoFields,
     table |-> [align |-> "[]string", layout |-> "string", width |-> "*float", isNumberColumnEnabled |-> "*bool",
                localId |-> "string", displayMode |-> "string"],
     tableCell |-> CellFields, tableHeader |-> CellFields, panel |-> [panelType |-> "string"],
     expand |-> [title |-> "*string"], nestedExpand |-> [title |-> "*string"], caption |-> WithId("string"),
     layoutSection |-> [localId |-> "string", columnRuleStyle |-> "string"],
     layoutColumn |-> [width |-> "*float", localId |-> "string", valign |-> "string"],
     mediaGroup |-> NoFields, mediaSingle |-> [layout |-> "*string", width |-> "*float", widthType |-> "*string"],
     extensionFrame |-> NoFields, bodiedExtension |-> LaidOutFields, multiBodiedExtension |-> LaidOutFields,
     bodiedSyncBlock |-> [resourceId |-> "string", localId |-> "string"]]
LeafFields ==
    [media |-> [type |-> "string", id |-> "string", url |-> "string", alt |-> "string", collection |-> "*string",
                width |-> "*float", height |-> "*float", occurrenceKey |-> "*string"],
     mediaInline |-> [type |-> "string", id |-> "string", alt |-> "string", collection |-> "*string"],
     blockCard |-> [url |-> "string", datasource |-> "map"], inlineCard |-> [url |-> "*string"],
     embedCard |-> [url |-> "string", layout |-> "string", width |-> "*float"],
     rule |-> NoFields, hardBreak |-> NoFields, text |-> NoFields,
     emoji |-> [shortName |-> "string", id |-> "string", text |-> "*string"],
     mention |-> [id |-> "string", text |-> "*string", accessLevel |-> "string"],
     status |-> [text |-> "*string", color |-> "string", style |-> "string", localId |-> "string"],
     date |-> [timestamp |-> "string", localId |-> "string"], placeholder |-> [text |-> "string", localId |-> "string"],
     colwidthsHint |-> [widths |-> "[]float"], extension |-> LaidOutFields, inlineExtension |-> ExtensionFields,
     syncBlock |-> [resourceId |-> "string", localId |-> "string"]]
MarkFields ==
    [strong |-> NoFields, em |-> NoFields, strike |-> NoFields, code |-> NoFields, underline |-> NoFields,
     link |-> [href |-> "*string", title |-> "*string"], textColor |-> [color |-> "string"],
     backgroundColor |-> [color |-> "string"], subsup |-> [type |-> "string"], alignment |-> [align |-> "string"],
     indentation |-> [level |-> "int"], fontSize |-> [fontSize |-> "string"], dataConsumer |-> [sources |-> "[]string"],
     breakout |-> [mode |-> "string", width |-> "*float"], border |-> [color |-> "string", size |-> "int"],
     annotation |-> [id |-> "string", annotationType |-> "string"], fragment |-> [localId |-> "string", name |-> "string"]]
NodeFields ==
    [kind \in DOMAIN BranchFields \cup DOMAIN LeafFields |->
        IF kind \in DOMAIN BranchFields THEN BranchFields[kind] ELSE LeafFields[kind]]

\* What the encoder writes of a typed node: a list of its own in the code.
WrittenLayouts == {"table", "mediaSingle", "embedCard", "extension", "bodiedExtension", "multiBodiedExtension"}
WrittenIds ==
    {"taskList", "taskItem", "blockTaskItem", "decisionList", "decisionItem", "table", "caption", "layoutSection", "layoutColumn",
     "status", "date", "placeholder", "extension", "inlineExtension", "bodiedExtension", "multiBodiedExtension", "syncBlock",
     "bodiedSyncBlock"}
WrittenOfCells == {"colspan", "rowspan", "colwidth"}
WrittenOwn ==
    [heading |-> {"level", "anchor"}, codeBlock |-> {"language"}, bulletList |-> {"tight"}, orderedList |-> {"order", "tight"},
     taskItem |-> {"state"}, blockTaskItem |-> {"state"}, decisionItem |-> {"state"},
     table |-> {"align", "width", "isNumberColumnEnabled", "displayMode"}, panel |-> {"panelType"},
     expand |-> {"title"}, nestedExpand |-> {"title"}, layoutSection |-> {"columnRuleStyle"}, layoutColumn |-> {"width", "valign"},
     mediaSingle |-> {"width", "widthType"}, bodiedSyncBlock |-> {"resourceId"},
     tableCell |-> WrittenOfCells, tableHeader |-> WrittenOfCells]
WrittenOfExtensions == {"extensionType", "extensionKey", "parameters", "text"}
WrittenOwnOfLeaves ==
    [media |-> {"type", "id", "url", "alt", "collection", "width", "height", "occurrenceKey"},
     mediaInline |-> {"type", "id", "alt", "collection"}, blockCard |-> {"url", "datasource"}, inlineCard |-> {"url"},
     embedCard |-> {"url", "width"}, emoji |-> {"shortName", "id", "text"}, mention |-> {"id", "text", "accessLevel"},
     status |-> {"text", "color", "style"}, date |-> {"timestamp"}, placeholder |-> {"text"}, colwidthsHint |-> {"widths"},
     syncBlock |-> {"resourceId"}, extension |-> WrittenOfExtensions, inlineExtension |-> WrittenOfExtensions,
     bodiedExtension |-> WrittenOfExtensions, multiBodiedExtension |-> WrittenOfExtensions]
WrittenOfMarks ==
    [link |-> {"href", "title"}, subsup |-> {"type"}, annotation |-> {"id", "annotationType"}, fontSize |-> {"fontSize"},
     alignment |-> {"align"}, indentation |-> {"level"}, breakout |-> {"mode", "width"}, border |-> {"color", "size"},
     dataConsumer |-> {"sources"}, fragment |-> {"localId", "name"},
     textColor |-> {"color"}, backgroundColor |-> {"color"}]
OwnAttrs(table, kind) == IF kind \in DOMAIN table THEN table[kind] ELSE {}
WrittenBy(kind) ==
    OwnAttrs(WrittenOwn, kind) \cup OwnAttrs(WrittenOwnOfLeaves, kind)
        \cup (IF kind \in WrittenLayouts THEN {"layout"} ELSE {}) \cup (IF kind \in WrittenIds THEN {"localId"} ELSE {})

\* What a field of a type can hold exactly; a plain field says nothing when zero.
Holdable(type, j) ==
    CASE type = "string" -> j.t = "string" /\ j.v # ""
      [] type = "*string" -> j.t = "string"
      [] type = "int" -> j.t = "number" /\ Whole(j.v) /\ j.v # "0"
      [] type = "*int" -> j.t = "number" /\ Whole(j.v)
      [] type = "*float" -> j.t = "number"
      [] type = "*bool" -> j.t = "bool"
      [] type = "[]float" -> j.t \in {"numbers", "empty"}
      [] type = "[]string" -> j.t \in {"strings", "empty"}
      [] type = "map" -> j.t = "object"
      [] type = "any" -> j.t # "null"
\* A number that is no integer is cut off in its field, and kept beside it.
Fills(type, j) == Holdable(type, j) \/ (type \in {"int", "*int"} /\ j.t = "number")

ReadAttrs(types, attrs) ==
    LET known == DOMAIN types \cap DOMAIN attrs
        filled == {key \in known : Fills(types[key], attrs[key])}
        kept == (DOMAIN attrs \ known) \cup {key \in known : ~Holdable(types[key], attrs[key])}
    IN  [fields |-> [key \in filled |-> IF types[key] \in {"int", "*int"} THEN Truncated(attrs[key]) ELSE attrs[key]],
         extra |-> [key \in kept |-> attrs[key]]]
\* A mark or node of no known kind, or one that does not fit its kind, is kept as it is.
Verbatim(attrs) == [fields |-> NoFields, extra |-> attrs]
DecodedMark(type, attrs) ==
    LET known == type \in DOMAIN MarkFields
    IN  [kind |-> type, raw |-> ~known, attrs |-> IF known THEN ReadAttrs(MarkFields[type], attrs) ELSE Verbatim(attrs)]
DecodedAttrs(type, fits, attrs) == IF fits THEN ReadAttrs(NodeFields[type], attrs) ELSE Verbatim(attrs)

\* Variant: the fields win.
FieldsWin(fields, extra) ==
    [key \in DOMAIN fields \cup DOMAIN extra |-> IF key \in DOMAIN fields THEN fields[key] ELSE extra[key]]

\* Encoding: what is kept beside a field wins over it.
Overlaid(fields, extra) ==
    [key \in DOMAIN fields \cup DOMAIN extra |-> IF key \in DOMAIN extra THEN extra[key] ELSE fields[key]]

ZeroInt(types, key, j) == types[key] = "int" /\ j.v = "0"
WrittenAttrs(attrs, types, written) ==
    LET emitted == {key \in written \cap DOMAIN attrs.fields : ~ZeroInt(types, key, attrs.fields[key])}
    IN  Overlaid([key \in emitted |-> attrs.fields[key]], attrs.extra)
AttrsOfNode(n) == IF n.raw THEN n.attrs.extra ELSE WrittenAttrs(n.attrs, NodeFields[n.kind], WrittenBy(n.kind))
AttrsOfMark(m) == IF m.raw THEN m.attrs.extra ELSE WrittenAttrs(m.attrs, MarkFields[m.kind], OwnAttrs(WrittenOfMarks, m.kind))

\* The attributes no product takes, and a node without them.
Synthetic == [heading |-> "anchor", table |-> "align", bulletList |-> "tight", orderedList |-> "tight"]
CarriesSynthetic(n) == ~n.raw /\ n.kind \in DOMAIN Synthetic /\ Synthetic[n.kind] \in DOMAIN n.attrs.fields
ClearedNode(n) ==
    IF ~CarriesSynthetic(n) THEN n
    ELSE [n EXCEPT !.attrs.fields = [key \in DOMAIN @ \ {Synthetic[n.kind]} |-> @[key]]]
===============================================================================
