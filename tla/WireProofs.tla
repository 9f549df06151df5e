------------------------------ MODULE WireProofs ------------------------------
(* Theorems about the attributes of WireAttrs, for any JSON values: what is   *)
(* decoded is encoded as it was, whatever a field can hold, and the strip     *)
(* takes what is the library's own and nothing else.                          *)
EXTENDS Wire, SequenceTheorems, TLAPS

------------------------------------------------------------------------------
(* The two lists of a kind: the decoder's fields, and what the encoder writes. *)

Covers(fields, kind) == DOMAIN fields[kind] \subseteq WrittenBy(kind)

\* Every kind that holds content is encoded with all the fields it is decoded to.
LEMMA BranchesCovered == \A kind \in DOMAIN BranchFields : Covers(BranchFields, kind)
<1> USE DEF Covers, BranchFields, NoFields, WithId, Stated, CellFields, ExtensionFields, LaidOutFields,
            WrittenBy, OwnAttrs, WrittenOwn, WrittenOwnOfLeaves, WrittenOfCells, WrittenOfExtensions,
            WrittenLayouts, WrittenIds
<1>1. /\ Covers(BranchFields, "paragraph") /\ Covers(BranchFields, "blockquote") /\ Covers(BranchFields, "heading") /\ Covers(BranchFields, "codeBlock")
      /\ Covers(BranchFields, "panel") /\ Covers(BranchFields, "expand") /\ Covers(BranchFields, "nestedExpand")
  OBVIOUS
<1>2. /\ Covers(BranchFields, "bulletList") /\ Covers(BranchFields, "orderedList") /\ Covers(BranchFields, "listItem")
      /\ Covers(BranchFields, "taskList") /\ Covers(BranchFields, "taskItem") /\ Covers(BranchFields, "blockTaskItem")
      /\ Covers(BranchFields, "decisionList") /\ Covers(BranchFields, "decisionItem")
  OBVIOUS
<1>3. /\ Covers(BranchFields, "table") /\ Covers(BranchFields, "tableRow") /\ Covers(BranchFields, "tableCell") /\ Covers(BranchFields, "tableHeader")
      /\ Covers(BranchFields, "layoutSection") /\ Covers(BranchFields, "layoutColumn")
  OBVIOUS
<1>4. /\ Covers(BranchFields, "caption") /\ Covers(BranchFields, "mediaGroup") /\ Covers(BranchFields, "mediaSingle") /\ Covers(BranchFields, "extensionFrame")
      /\ Covers(BranchFields, "bodiedExtension") /\ Covers(BranchFields, "multiBodiedExtension") /\ Covers(BranchFields, "bodiedSyncBlock")
  OBVIOUS
<1>5. \A kind \in DOMAIN BranchFields :
         kind \in {"paragraph", "blockquote", "heading", "codeBlock", "panel", "expand", "nestedExpand",
                   "bulletList", "orderedList", "listItem", "taskList", "taskItem", "blockTaskItem", "decisionList",
                   "decisionItem", "table", "tableRow", "tableCell", "tableHeader", "layoutSection", "layoutColumn",
                   "caption", "mediaGroup", "mediaSingle", "extensionFrame", "bodiedExtension",
                   "multiBodiedExtension", "bodiedSyncBlock"}
  BY DEF BranchFields
<1> HIDE DEF Covers
<1>6. QED
  BY <1>1, <1>2, <1>3, <1>4, <1>5

\* And so is every leaf.
LEMMA LeavesCovered == \A kind \in DOMAIN LeafFields : Covers(LeafFields, kind)
<1> USE DEF Covers, LeafFields, NoFields, ExtensionFields, LaidOutFields,
            WrittenBy, OwnAttrs, WrittenOwn, WrittenOwnOfLeaves, WrittenOfExtensions, WrittenLayouts, WrittenIds
<1>1. /\ Covers(LeafFields, "media") /\ Covers(LeafFields, "mediaInline") /\ Covers(LeafFields, "blockCard") /\ Covers(LeafFields, "inlineCard")
      /\ Covers(LeafFields, "embedCard") /\ Covers(LeafFields, "rule")
  OBVIOUS
<1>2. /\ Covers(LeafFields, "hardBreak") /\ Covers(LeafFields, "text") /\ Covers(LeafFields, "emoji") /\ Covers(LeafFields, "mention")
      /\ Covers(LeafFields, "status") /\ Covers(LeafFields, "date")
  OBVIOUS
<1>3. /\ Covers(LeafFields, "placeholder") /\ Covers(LeafFields, "colwidthsHint") /\ Covers(LeafFields, "extension") /\ Covers(LeafFields, "inlineExtension")
      /\ Covers(LeafFields, "syncBlock")
  OBVIOUS
<1>4. \A kind \in DOMAIN LeafFields :
         kind \in {"media", "mediaInline", "blockCard", "inlineCard", "embedCard", "rule", "hardBreak", "text",
                   "emoji", "mention", "status", "date", "placeholder", "colwidthsHint", "extension",
                   "inlineExtension", "syncBlock"}
  BY DEF LeafFields
<1> HIDE DEF Covers
<1>5. QED
  BY <1>1, <1>2, <1>3, <1>4

\* And every mark.
LEMMA MarksCovered ==
    ASSUME NEW kind \in DOMAIN MarkFields
    PROVE  DOMAIN MarkFields[kind] \subseteq OwnAttrs(WrittenOfMarks, kind)
  BY DEF MarkFields, NoFields, OwnAttrs, WrittenOfMarks

LEMMA NodesCovered ==
    ASSUME NEW kind \in DOMAIN NodeFields
    PROVE  Covers(NodeFields, kind)
  BY BranchesCovered, LeavesCovered DEF NodeFields, Covers

------------------------------------------------------------------------------
(* Reading and writing. *)

Without(attrs, keys) == [key \in DOMAIN attrs \ keys |-> attrs[key]]

\* The attributes that their fields hold exactly.
Held(types, attrs) == {key \in DOMAIN types \cap DOMAIN attrs : Holdable(types[key], attrs[key])}

\* Each attribute is in its field as it is, or kept beside it.
Splits(read, types, attrs) ==
    /\ DOMAIN read.fields \cup DOMAIN read.extra = DOMAIN attrs
    /\ DOMAIN read.fields \subseteq DOMAIN types
    /\ \A key \in DOMAIN read.extra : read.extra[key] = attrs[key]
    /\ DOMAIN read.fields \ DOMAIN read.extra = Held(types, attrs)
    /\ \A key \in Held(types, attrs) : read.fields[key] = attrs[key]
    /\ IsAttrs(read.fields)

LEMMA ReadSplits ==
    ASSUME NEW types, NEW attrs
    PROVE  Splits(ReadAttrs(types, attrs), types, attrs)
<1> DEFINE known == DOMAIN types \cap DOMAIN attrs
           filled == {key \in known : Fills(types[key], attrs[key])}
           kept == (DOMAIN attrs \ known) \cup {key \in known : ~Holdable(types[key], attrs[key])}
           fields == [key \in filled |->
                        IF types[key] \in {"int", "*int"} THEN Truncated(attrs[key]) ELSE attrs[key]]
           extra == [key \in kept |-> attrs[key]]
           read == ReadAttrs(types, attrs)
<1>1. read = [fields |-> fields, extra |-> extra]
  BY DEF ReadAttrs
<1>2. filled \cup kept = DOMAIN attrs
  BY DEF Fills
<1>3. filled \ kept = Held(types, attrs)
  BY DEF Fills, Held
<1>4. ASSUME NEW key \in Held(types, attrs)
      PROVE  fields[key] = attrs[key]
  <2>1. Holdable(types[key], attrs[key]) /\ key \in filled
    BY <1>3 DEF Held
  <2>2. CASE types[key] \in {"int", "*int"}
    <3>1. Whole(attrs[key].v)
      BY <2>1, <2>2 DEF Holdable
    <3>2. QED
      BY <2>1, <2>2, <3>1 DEF Truncated
  <2>3. QED
    BY <2>1, <2>2
<1>5. QED
  <2> HIDE DEF filled, kept
  <2>1. /\ DOMAIN fields = filled /\ DOMAIN extra = kept /\ \A key \in kept : extra[key] = attrs[key]
        /\ IsAttrs(fields)
    BY DEF IsAttrs
  <2>2. filled \subseteq DOMAIN types
    BY DEF filled
  <2> HIDE DEF fields, extra, read
  <2>3. read.fields = fields /\ read.extra = extra
    BY <1>1
  <2>4. Splits(read, types, attrs)
    BY <1>2, <1>3, <1>4, <2>1, <2>2, <2>3 DEF Splits
  <2>5. QED
    BY <2>4 DEF read

\* What was read, with some fields emptied.
Emptied(left, read, gone) ==
    left.extra = read.extra /\ left.fields = [key \in DOMAIN read.fields \ gone |-> read.fields[key]]

\* A writer that knows the fields of the reader gives all attributes back as they were, less
\* those whose fields were emptied in between and had held them.
LEMMA WrittenAsRead ==
    ASSUME NEW types, NEW attrs, NEW written, DOMAIN types \subseteq written,
           NEW gone, NEW left, Emptied(left, ReadAttrs(types, attrs), gone)
    PROVE  WrittenAttrs(left, types, written) = Without(attrs, Held(types, attrs) \cap gone)
<1> DEFINE read == ReadAttrs(types, attrs)
           emitted == {key \in written \cap DOMAIN left.fields : ~ZeroInt(types, key, left.fields[key])}
           fields == [key \in emitted |-> left.fields[key]]
<1>1. Splits(read, types, attrs)
  BY ReadSplits
<1>2. WrittenAttrs(left, types, written) = Overlaid(fields, read.extra)
  BY DEF WrittenAttrs, Emptied
<1> HIDE DEF read
<1>3. /\ DOMAIN left.fields = DOMAIN read.fields \ gone
      /\ \A key \in DOMAIN left.fields : left.fields[key] = read.fields[key]
  BY DEF Emptied, read
<1>4. Held(types, attrs) \ gone \subseteq emitted
  <2>1. ASSUME NEW key \in Held(types, attrs), key \notin gone
        PROVE  key \in emitted
    <3>1. key \in DOMAIN left.fields /\ left.fields[key] = attrs[key] /\ key \in written
      BY <1>1, <1>3, <2>1 DEF Splits
    <3>2. ~ZeroInt(types, key, attrs[key])
      BY DEF Held, Holdable, ZeroInt
    <3>3. QED
      BY <3>1, <3>2
  <2>2. QED
    BY <2>1
<1>5. DOMAIN fields = emitted /\ \A key \in emitted : fields[key] = left.fields[key]
  OBVIOUS
<1>6. emitted \subseteq DOMAIN left.fields
  OBVIOUS
<1> HIDE DEF emitted, fields
<1>7. DOMAIN fields \cup DOMAIN read.extra = DOMAIN attrs \ (Held(types, attrs) \cap gone)
  BY <1>1, <1>3, <1>4, <1>5, <1>6 DEF Splits
<1>8. \A key \in DOMAIN fields \ DOMAIN read.extra : fields[key] = attrs[key]
  BY <1>1, <1>3, <1>5, <1>6 DEF Splits
<1>9. QED
  BY <1>1, <1>2, <1>7, <1>8 DEF Overlaid, Without, Splits

\* A writer loses nothing of what nobody touched.
LEMMA WrittenBack ==
    ASSUME NEW types, NEW attrs, IsAttrs(attrs), NEW written, DOMAIN types \subseteq written
    PROVE  WrittenAttrs(ReadAttrs(types, attrs), types, written) = attrs
<1> DEFINE read == ReadAttrs(types, attrs)
<1>1. IsAttrs(read.fields)
  BY ReadSplits DEF Splits
<1>2. Emptied(read, read, {})
  BY <1>1 DEF IsAttrs, Emptied
<1>3. WrittenAttrs(read, types, written) = Without(attrs, Held(types, attrs) \cap {})
  BY <1>2, WrittenAsRead
<1> HIDE DEF read
<1>4. Without(attrs, Held(types, attrs) \cap {}) = attrs
  BY DEF Without, IsAttrs
<1>5. QED
  BY <1>3, <1>4 DEF read

------------------------------------------------------------------------------
(* The theorems. *)

\* DecodeDoc and NodeAttrs: a node of any kind, known or not, fitting its kind or not, is
\* encoded with exactly the attributes it was decoded from, whatever values they have.
THEOREM NodeAttrsKept ==
    ASSUME NEW kind, NEW fits \in BOOLEAN, fits => kind \in DOMAIN NodeFields,
           NEW attrs, IsAttrs(attrs),
           NEW n, n.kind = kind, n.raw <=> ~fits, n.attrs = DecodedAttrs(kind, fits, attrs)
    PROVE  AttrsOfNode(n) = attrs
<1>1. CASE fits
  <2>1. DOMAIN NodeFields[kind] \subseteq WrittenBy(kind)
    BY <1>1, NodesCovered DEF Covers
  <2>2. QED
    BY <1>1, <2>1, WrittenBack DEF AttrsOfNode, DecodedAttrs
<1>2. CASE ~fits
  BY <1>2 DEF AttrsOfNode, DecodedAttrs, Verbatim
<1>3. QED
  BY <1>1, <1>2

\* The same of a mark.
THEOREM MarkAttrsKept ==
    ASSUME NEW type, NEW attrs, IsAttrs(attrs)
    PROVE  AttrsOfMark(DecodedMark(type, attrs)) = attrs
<1> DEFINE m == DecodedMark(type, attrs)
<1>1. CASE type \in DOMAIN MarkFields
  <2>1. DOMAIN MarkFields[type] \subseteq OwnAttrs(WrittenOfMarks, type)
    BY <1>1, MarksCovered
  <2>2. m.kind = type /\ m.raw = FALSE /\ m.attrs = ReadAttrs(MarkFields[type], attrs)
    BY <1>1 DEF DecodedMark
  <2> HIDE DEF m
  <2>3. AttrsOfMark(m) = attrs
    BY <2>1, <2>2, WrittenBack DEF AttrsOfMark
  <2>4. QED
    BY <2>3 DEF m
<1>2. CASE type \notin DOMAIN MarkFields
  BY <1>2 DEF AttrsOfMark, DecodedMark, Verbatim
<1>3. QED
  BY <1>1, <1>2

LEMMA TypedAttrsKept ==
    ASSUME NEW kind \in DOMAIN NodeFields, NEW attrs, IsAttrs(attrs),
           NEW n, n.kind = kind, n.raw = FALSE, n.attrs = DecodedAttrs(kind, TRUE, attrs)
    PROVE  AttrsOfNode(n) = attrs
  BY NodeAttrsKept

\* A typed node, decoded from these attributes.
IsTyped(n, kind, attrs) ==
    n = [kind |-> kind, raw |-> FALSE, text |-> n.text, attrs |-> DecodedAttrs(kind, TRUE, attrs), marks |-> n.marks]

\* StripSynthetic: a stripped node is encoded with all attributes it was decoded from, less the
\* one of its kind that no product takes, and that only if its field held it exactly.
THEOREM StripTakesItsOwn ==
    ASSUME NEW kind \in DOMAIN NodeFields, NEW attrs, IsAttrs(attrs),
           NEW n, IsTyped(n, kind, attrs)
    PROVE  AttrsOfNode(ClearedNode(n)) =
             IF kind \in DOMAIN Synthetic
             THEN Without(attrs, Held(NodeFields[kind], attrs) \cap {Synthetic[kind]})
             ELSE attrs
<1> DEFINE types == NodeFields[kind]
           read == ReadAttrs(types, attrs)
           c == ClearedNode(n)
<1>1. DOMAIN types \subseteq WrittenBy(kind)
  BY NodesCovered DEF Covers
<1>2. n.kind = kind /\ n.raw = FALSE /\ n.attrs = read
  BY DEF DecodedAttrs, IsTyped
<1>3. AttrsOfNode(n) = attrs
  <2>1. n.attrs = DecodedAttrs(kind, TRUE, attrs)
    BY <1>2 DEF DecodedAttrs
  <2>2. QED
    BY <1>2, <2>1, TypedAttrsKept
<1>4. CASE CarriesSynthetic(n)
  <2> DEFINE key == Synthetic[kind]
             fields == [k \in DOMAIN read.fields \ {key} |-> read.fields[k]]
  <2>1. kind \in DOMAIN Synthetic
    BY <1>2, <1>4 DEF CarriesSynthetic
  <2>2. c = [n EXCEPT !.attrs.fields = fields]
    BY <1>2, <1>4 DEF ClearedNode
  <2>3. read = [fields |-> read.fields, extra |-> read.extra]
    BY DEF ReadAttrs
  <2> HIDE DEF c, read, types, fields
  <2>4. c.kind = kind /\ c.raw = FALSE /\ c.attrs = [read EXCEPT !.fields = fields]
    BY <1>2, <2>2 DEF IsTyped
  <2>5. c.attrs.fields = fields /\ c.attrs.extra = read.extra
    BY <2>3, <2>4
  <2>6. Emptied(c.attrs, ReadAttrs(types, attrs), {key})
    BY <2>5 DEF Emptied, fields, read
  <2>7. WrittenAttrs(c.attrs, types, WrittenBy(kind)) = Without(attrs, Held(types, attrs) \cap {key})
    BY <1>1, <2>6, WrittenAsRead
  <2>8. QED
    BY <2>1, <2>4, <2>7 DEF AttrsOfNode, c, types
<1>5. CASE ~CarriesSynthetic(n)
  <2>1. ClearedNode(n) = n
    BY <1>5 DEF ClearedNode
  <2>2. ASSUME kind \in DOMAIN Synthetic
        PROVE  Without(attrs, Held(types, attrs) \cap {Synthetic[kind]}) = attrs
    <3>1. Synthetic[kind] \notin DOMAIN read.fields
      BY <1>2, <1>5, <2>2 DEF CarriesSynthetic
    <3>2. Splits(read, types, attrs)
      BY ReadSplits
    <3> HIDE DEF read, types
    <3>3. Synthetic[kind] \notin Held(types, attrs)
      BY <3>1, <3>2 DEF Splits
    <3>4. Held(types, attrs) \cap {Synthetic[kind]} = {}
      BY <3>3
    <3>5. QED
      BY <3>4 DEF Without, IsAttrs
  <2>3. QED
    BY <1>3, <2>1, <2>2
<1>6. QED
  BY <1>4, <1>5

------------------------------------------------------------------------------
(* Places. *)

LEMMA PrefixOrder ==
    ASSUME NEW p \in Seq(Nat), NEW q \in Seq(Nat), NEW r \in Seq(Nat)
    PROVE  /\ IsPrefix(p, p)
           /\ IsPrefix(p, q) /\ IsPrefix(q, r) => IsPrefix(p, r)
           /\ IsStrictPrefix(p, q) => Len(p) < Len(q)
<1>1. IsPrefix(p, p)
  BY LenProperties DEF IsPrefix
<1>2. ASSUME IsPrefix(p, q), IsPrefix(q, r)
      PROVE  IsPrefix(p, r)
  <2>1. Len(p) <= Len(q) /\ Len(q) <= Len(r) /\ Len(p) \in Nat /\ Len(q) \in Nat /\ Len(r) \in Nat
    BY <1>2, LenProperties DEF IsPrefix
  <2>2. q = SubSeq(r, 1, Len(q)) /\ p = SubSeq(q, 1, Len(p))
    BY <1>2, SubSeqFull DEF IsPrefix
  <2>3. \A i \in 1..Len(p) : SubSeq(q, 1, Len(p))[i] = SubSeq(r, 1, Len(p))[i]
    <3>1. \A i \in 1..Len(p) : SubSeq(q, 1, Len(p))[i] = q[i]
      BY <2>1, SubSeqProperties
    <3>2. \A i \in 1..Len(p) : SubSeq(r, 1, Len(p))[i] = r[i]
      BY <2>1, SubSeqProperties
    <3>3. \A i \in 1..Len(q) : SubSeq(r, 1, Len(q))[i] = r[i]
      BY <2>1, SubSeqProperties
    <3>4. QED
      BY <2>1, <2>2, <3>1, <3>2, <3>3
  <2>4. SubSeq(q, 1, Len(p)) = SubSeq(r, 1, Len(p))
    <3>1. /\ SubSeq(q, 1, Len(p)) \in Seq(Nat) /\ Len(SubSeq(q, 1, Len(p))) = Len(p)
          /\ SubSeq(r, 1, Len(p)) \in Seq(Nat) /\ Len(SubSeq(r, 1, Len(p))) = Len(p)
      <4>1. ASSUME NEW i \in 1..Len(p)
            PROVE  q[i] \in Nat /\ r[i] \in Nat
        <5>1. i \in 1..Len(q) /\ i \in 1..Len(r)
          BY <2>1
        <5>2. QED
          BY <5>1, ElementOfSeq
      <4>2. QED
        BY <2>1, <4>1, SubSeqProperties
    <3>2. QED
      BY <2>3, <3>1, SeqEqual
  <2>5. QED
    BY <1>2, <2>1, <2>4 DEF IsPrefix
<1>3. ASSUME IsStrictPrefix(p, q)
      PROVE  Len(p) < Len(q)
  <2>1. Len(p) <= Len(q) /\ SubSeq(p, 1, Len(p)) = SubSeq(q, 1, Len(p)) /\ p # q
    BY <1>3 DEF IsPrefix, IsStrictPrefix
  <2>2. Len(p) # Len(q)
    BY <2>1, SubSeqFull
  <2>3. QED
    BY <2>1, <2>2, LenProperties
<1>4. QED
  BY <1>1, <1>2, <1>3

\* The first steps of a way are a place around its end.
LEMMA FirstSteps ==
    ASSUME NEW p \in Seq(Nat), NEW n \in 1..Len(p)
    PROVE  /\ SubSeq(p, 1, n) \in Seq(Nat) /\ Len(SubSeq(p, 1, n)) = n
           /\ SubSeq(p, 1, n) # <<>> /\ IsPrefix(SubSeq(p, 1, n), p)
           /\ \A m \in 1..n : SubSeq(SubSeq(p, 1, n), 1, m) = SubSeq(p, 1, m)
<1> DEFINE s == SubSeq(p, 1, n)
<1>1. n \in Nat /\ n <= Len(p) /\ Len(p) \in Nat /\ n >= 1
  BY LenProperties
<1>2. s \in Seq(Nat) /\ Len(s) = n /\ \A i \in 1..n : s[i] = p[i]
  BY <1>1, SubSeqProperties
<1> HIDE DEF s
<1>3. s # <<>>
  BY <1>1, <1>2
<1>4. ASSUME NEW m \in 1..n
      PROVE  SubSeq(s, 1, m) = SubSeq(p, 1, m)
  <2>1. /\ SubSeq(s, 1, m) \in Seq(Nat) /\ Len(SubSeq(s, 1, m)) = m /\ \A i \in 1..m : SubSeq(s, 1, m)[i] = s[i]
        /\ SubSeq(p, 1, m) \in Seq(Nat) /\ Len(SubSeq(p, 1, m)) = m /\ \A i \in 1..m : SubSeq(p, 1, m)[i] = p[i]
    BY <1>1, <1>2, SubSeqProperties
  <2>2. \A i \in 1..m : SubSeq(s, 1, m)[i] = SubSeq(p, 1, m)[i]
    BY <1>1, <1>2, <2>1
  <2>3. QED
    BY <2>1, <2>2, SeqEqual
<1>5. IsPrefix(s, p)
  BY <1>1, <1>2, <1>4 DEF IsPrefix
<1>6. QED
  BY <1>2, <1>3, <1>4, <1>5 DEF s

\* A node with another one somewhere inside has content.
LEMMA AboveHasContent ==
    ASSUME NEW doc, IsDocument(doc), NEW place \in DOMAIN doc, NEW above \in DOMAIN doc,
           IsStrictPrefix(above, place)
    PROVE  HasContent(doc, above)
<1> DEFINE n == Len(above) + 1
           below == SubSeq(place, 1, n)
<1>1. place \in Seq(Nat) /\ above \in Seq(Nat) /\ above # <<>>
  BY DEF IsDocument
<1>2. Len(above) < Len(place) /\ Len(above) \in Nat /\ Len(place) \in Nat /\ Len(above) >= 1
  BY <1>1, PrefixOrder, LenProperties
<1>3. n \in 1..Len(place) /\ Len(above) \in 1..n
  BY <1>2
<1>4. below \in DOMAIN doc
  BY <1>3 DEF IsDocument
<1>5. Len(below) = Len(above) + 1 /\ SubSeq(below, 1, Len(above)) = SubSeq(place, 1, Len(above))
  BY <1>1, <1>3, FirstSteps
<1> HIDE DEF below
<1>6. IsPrefix(above, below)
  BY <1>2, <1>5 DEF IsPrefix, IsStrictPrefix
<1>7. QED
  BY <1>4, <1>5, <1>6 DEF HasContent

\* What is read of a document is a document.
LEMMA ReadableIsDocument ==
    ASSUME NEW doc, IsDocument(doc), MaxDecodeDepth \in Nat
    PROVE  /\ IsDocument(Readable(doc)) /\ DOMAIN Readable(doc) \subseteq DOMAIN doc
           /\ \A place \in DOMAIN Readable(doc) : Readable(doc)[place] = doc[place]
<1> DEFINE D == {place \in DOMAIN doc : Len(place) <= MaxDecodeDepth}
           read == Readable(doc)
<1>1. read = [place \in D |-> doc[place]]
  BY DEF Readable, Restrict
<1>2. ASSUME NEW place \in D, NEW n \in 1..Len(place)
      PROVE  SubSeq(place, 1, n) \in D
  <2>1. place \in Seq(Nat) /\ SubSeq(place, 1, n) \in DOMAIN doc
    BY DEF IsDocument
  <2>2. Len(SubSeq(place, 1, n)) = n /\ n <= Len(place) /\ Len(place) \in Nat
    BY <2>1, FirstSteps, LenProperties
  <2>3. QED
    BY <2>1, <2>2
<1>3. D \subseteq DOMAIN doc
  OBVIOUS
<1> HIDE DEF D, read
<1>4. IsDocument(read)
  BY <1>1, <1>2, <1>3 DEF IsDocument
<1>5. QED
  BY <1>1, <1>3, <1>4 DEF read

------------------------------------------------------------------------------
(* One node. *)

LEMMA Kinds ==
    /\ DOMAIN BranchFields \subseteq DOMAIN NodeFields
    /\ {"heading", "table", "bulletList", "orderedList"} \subseteq DOMAIN BranchFields
    /\ "colwidthsHint" \in DOMAIN NodeFields \ DOMAIN BranchFields
    /\ "text" \notin DOMAIN BranchFields
    /\ DOMAIN Synthetic = {"heading", "table", "bulletList", "orderedList"}
<1>1. DOMAIN NodeFields = DOMAIN BranchFields \cup DOMAIN LeafFields
  BY DEF NodeFields
<1>2. "colwidthsHint" \in DOMAIN LeafFields
  BY DEF LeafFields
<1>3. "colwidthsHint" \notin DOMAIN BranchFields /\ "text" \notin DOMAIN BranchFields
  BY DEF BranchFields
<1>4. {"heading", "table", "bulletList", "orderedList"} \subseteq DOMAIN BranchFields
  BY DEF BranchFields
<1>5. DOMAIN Synthetic = {"heading", "table", "bulletList", "orderedList"}
  BY DEF Synthetic
<1>6. QED
  BY <1>1, <1>2, <1>3, <1>4, <1>5

LEMMA MarkKind == \A type, attrs : DecodedMark(type, attrs).kind = type
  BY DEF DecodedMark

\* A node that nobody touched is written as it was read.
LEMMA NodeKept ==
    ASSUME NEW j, IsNode(j), NEW fits \in BOOLEAN,
           fits => j.type \in DOMAIN NodeFields /\ (j.type # "text" => j.text = ""),
           NEW n, n = ReadNode(j, fits)
    PROVE  WriteNode(n) = j
<1>1. /\ n.kind = j.type /\ (n.raw <=> ~fits) /\ n.text = j.text /\ n.attrs = DecodedAttrs(j.type, fits, j.attrs)
      /\ n.marks = ReadMarks(j.marks)
  BY DEF ReadNode
<1>2. AttrsOfNode(n) = j.attrs
  <2>1. IsAttrs(j.attrs)
    BY DEF IsNode
  <2>2. CASE fits = TRUE
    <3>1. n.attrs = DecodedAttrs(j.type, TRUE, j.attrs) /\ n.kind = j.type /\ n.raw = FALSE
      BY <1>1, <2>2 DEF ReadNode
    <3>2. j.type \in DOMAIN NodeFields
      BY <2>2
    <3>3. QED
      BY <2>1, <3>1, <3>2, TypedAttrsKept
  <2>3. CASE fits = FALSE
    <3>1. n.attrs = DecodedAttrs(j.type, FALSE, j.attrs) /\ n.kind = j.type /\ n.raw = TRUE
      BY <1>1, <2>3 DEF ReadNode
    <3>2. QED
      BY <2>1, <3>1, NodeAttrsKept
  <2>4. QED
    BY <2>2, <2>3
<1>3. WriteMarks(n.marks) = j.marks
  <2>1. DOMAIN n.marks = DOMAIN j.marks
    BY <1>1 DEF ReadMarks
  <2>2. ASSUME NEW i \in DOMAIN j.marks
        PROVE  [type |-> n.marks[i].kind, attrs |-> AttrsOfMark(n.marks[i])] = j.marks[i]
    <3>1. n.marks[i] = DecodedMark(j.marks[i].type, j.marks[i].attrs)
      BY <1>1 DEF ReadMarks
    <3>2. n.marks[i].kind = j.marks[i].type
      BY <3>1, MarkKind
    <3>3. IsMark(j.marks[i])
      BY DEF IsNode
    <3>4. AttrsOfMark(n.marks[i]) = j.marks[i].attrs
      BY <3>1, <3>3, MarkAttrsKept DEF IsMark
    <3>5. QED
      BY <3>2, <3>3, <3>4 DEF IsMark
  <2>3. QED
    BY <2>1, <2>2 DEF IsNode, WriteMarks
<1>4. NodeText(n) = j.text
  BY <1>1 DEF NodeText
<1>5. QED
  BY <1>1, <1>2, <1>3, <1>4 DEF WriteNode, IsNode

LEMMA SyntheticTypes ==
    /\ "anchor" \in DOMAIN NodeFields["heading"] /\ NodeFields["heading"]["anchor"] = "string"
    /\ "tight" \in DOMAIN NodeFields["bulletList"] /\ NodeFields["bulletList"]["tight"] = "*bool"
    /\ "tight" \in DOMAIN NodeFields["orderedList"] /\ NodeFields["orderedList"]["tight"] = "*bool"
    /\ "align" \in DOMAIN NodeFields["table"] /\ NodeFields["table"]["align"] = "[]string"
<1>1. \A kind \in DOMAIN BranchFields : NodeFields[kind] = BranchFields[kind]
  BY DEF NodeFields
<1>2. /\ "anchor" \in DOMAIN BranchFields["heading"] /\ BranchFields["heading"]["anchor"] = "string"
      /\ "tight" \in DOMAIN BranchFields["bulletList"] /\ BranchFields["bulletList"]["tight"] = "*bool"
      /\ "tight" \in DOMAIN BranchFields["orderedList"] /\ BranchFields["orderedList"]["tight"] = "*bool"
      /\ "align" \in DOMAIN BranchFields["table"] /\ BranchFields["table"]["align"] = "[]string"
  BY DEF BranchFields
<1>3. QED
  BY <1>1, <1>2, Kinds

\* The attributes that are the library's own are those whose fields the strip empties.
LEMMA OwnIsSynthetic ==
    ASSUME NEW j, NEW hasContent, NEW key \in DOMAIN j.attrs
    PROVE  OwnAttr(j, key) <=>
             /\ Fits(j, hasContent) /\ j.type \in DOMAIN Synthetic
             /\ key = Synthetic[j.type] /\ key \in Held(NodeFields[j.type], j.attrs)
<1>1. j.type \in DOMAIN Synthetic => (Fits(j, hasContent) <=> j.text = "")
  BY Kinds DEF Fits
<1>2. OwnAttr(j, key) => j.type \in DOMAIN Synthetic /\ j.text = ""
  BY Kinds DEF OwnAttr
<1>3. CASE j.type = "heading"
  <2>1. Synthetic[j.type] = "anchor" /\ "anchor" \in DOMAIN NodeFields[j.type] /\ NodeFields[j.type]["anchor"] = "string"
    BY <1>3, SyntheticTypes DEF Synthetic
  <2>2. QED
    BY <1>1, <1>2, <1>3, <2>1 DEF OwnAttr, Held, Holdable
<1>4. CASE j.type = "table"
  <2>1. Synthetic[j.type] = "align" /\ "align" \in DOMAIN NodeFields[j.type] /\ NodeFields[j.type]["align"] = "[]string"
    BY <1>4, SyntheticTypes DEF Synthetic
  <2>2. QED
    BY <1>1, <1>2, <1>4, <2>1 DEF OwnAttr, Held, Holdable
<1>5. CASE j.type = "bulletList"
  <2>1. Synthetic[j.type] = "tight" /\ "tight" \in DOMAIN NodeFields[j.type] /\ NodeFields[j.type]["tight"] = "*bool"
    BY <1>5, SyntheticTypes DEF Synthetic
  <2>2. QED
    BY <1>1, <1>2, <1>5, <2>1 DEF OwnAttr, Held, Holdable
<1>6. CASE j.type = "orderedList"
  <2>1. Synthetic[j.type] = "tight" /\ "tight" \in DOMAIN NodeFields[j.type] /\ NodeFields[j.type]["tight"] = "*bool"
    BY <1>6, SyntheticTypes DEF Synthetic
  <2>2. QED
    BY <1>1, <1>2, <1>6, <2>1 DEF OwnAttr, Held, Holdable
<1>7. QED
  BY <1>2, <1>3, <1>4, <1>5, <1>6, Kinds

\* Clearing a node empties the field of its synthetic attribute and touches nothing else.
LEMMA ClearedKeeps ==
    ASSUME NEW j, NEW fits \in BOOLEAN, NEW n, n = ReadNode(j, fits)
    PROVE  /\ ClearedNode(n).kind = n.kind /\ (ClearedNode(n).raw <=> n.raw)
           /\ ClearedNode(n).text = n.text /\ ClearedNode(n).marks = n.marks
           /\ ~fits => ClearedNode(n) = n
           /\ ~CarriesSynthetic(ClearedNode(n))
<1>1. n = [kind |-> n.kind, raw |-> n.raw, text |-> n.text, attrs |-> n.attrs, marks |-> n.marks] /\ (n.raw <=> ~fits)
  BY DEF ReadNode
<1>2. CASE CarriesSynthetic(n)
  <2> DEFINE fields == [key \in DOMAIN n.attrs.fields \ {Synthetic[n.kind]} |-> n.attrs.fields[key]]
             c == ClearedNode(n)
  <2>1. c = [n EXCEPT !.attrs.fields = fields]
    BY <1>2 DEF ClearedNode
  <2> HIDE DEF c, fields
  <2>2. c.kind = n.kind /\ c.raw = n.raw /\ c.text = n.text /\ c.marks = n.marks
    BY <1>1, <2>1
  <2>3. fits
    BY <1>1, <1>2 DEF CarriesSynthetic
  <2>4. c.attrs.fields = fields
    <3>1. n.attrs = [fields |-> n.attrs.fields, extra |-> n.attrs.extra]
      BY DEF ReadNode, DecodedAttrs, ReadAttrs, Verbatim
    <3>2. QED
      BY <1>1, <2>1, <3>1
  <2>5. Synthetic[n.kind] \notin DOMAIN c.attrs.fields
    BY <2>4 DEF fields
  <2>6. ~CarriesSynthetic(c)
    BY <2>2, <2>5 DEF CarriesSynthetic
  <2>7. QED
    BY <2>2, <2>3, <2>6 DEF c
<1>3. CASE ~CarriesSynthetic(n)
  BY <1>3 DEF ClearedNode
<1>4. QED
  BY <1>2, <1>3

\* A stripped node is written as what may be sent of the node that was read.
LEMMA NodeSent ==
    ASSUME NEW j, IsNode(j), NEW hasContent, NEW fits \in BOOLEAN, fits <=> Fits(j, hasContent),
           NEW n, n = ReadNode(j, fits)
    PROVE  WriteNode(ClearedNode(n)) = SendableNode(j)
<1> DEFINE c == ClearedNode(n)
<1>1. fits => j.type \in DOMAIN NodeFields /\ (j.type # "text" => j.text = "")
  BY DEF Fits
<1>2. /\ n.kind = j.type /\ (n.raw <=> ~fits) /\ n.text = j.text /\ n.attrs = DecodedAttrs(j.type, fits, j.attrs)
  BY DEF ReadNode
<1>3. c.kind = n.kind /\ (c.raw <=> n.raw) /\ c.text = n.text /\ c.marks = n.marks /\ (~fits => c = n)
  BY ClearedKeeps
<1>4. WriteNode(n) = j
  BY <1>1, NodeKept
<1> HIDE DEF c
<1>5. AttrsOfNode(c) = Restrict(j.attrs, {key \in DOMAIN j.attrs : ~OwnAttr(j, key)})
  <2>1. IsAttrs(j.attrs)
    BY DEF IsNode
  <2>2. CASE fits /\ j.type \in DOMAIN Synthetic
    <3>1. IsTyped(n, j.type, j.attrs)
      BY <2>2 DEF ReadNode, IsTyped
    <3>2. AttrsOfNode(c) = Without(j.attrs, Held(NodeFields[j.type], j.attrs) \cap {Synthetic[j.type]})
      BY <1>1, <2>1, <2>2, <3>1, StripTakesItsOwn DEF c
    <3>3. {key \in DOMAIN j.attrs : ~OwnAttr(j, key)} =
              DOMAIN j.attrs \ (Held(NodeFields[j.type], j.attrs) \cap {Synthetic[j.type]})
      BY <2>2, OwnIsSynthetic
    <3>4. QED
      BY <3>2, <3>3 DEF Without, Restrict
  <2>3. CASE ~(fits /\ j.type \in DOMAIN Synthetic)
    <3>1. {key \in DOMAIN j.attrs : ~OwnAttr(j, key)} = DOMAIN j.attrs
      BY <2>3, OwnIsSynthetic
    <3>2. c = n
      BY <1>2, <1>3, <2>3 DEF c, ClearedNode, CarriesSynthetic
    <3>3. AttrsOfNode(n) = j.attrs
      BY <1>4 DEF WriteNode
    <3>4. QED
      BY <2>1, <3>1, <3>2, <3>3 DEF Restrict, IsAttrs
  <2>4. QED
    BY <2>2, <2>3
<1>6. WriteNode(c) = [WriteNode(n) EXCEPT !.attrs = AttrsOfNode(c)]
  <2>1. NodeText(c) = NodeText(n)
    BY <1>3 DEF NodeText
  <2>2. QED
    BY <1>3, <2>1 DEF WriteNode
<1>7. QED
  BY <1>4, <1>5, <1>6 DEF SendableNode, c

------------------------------------------------------------------------------
(* Whole documents. *)

\* A node that was read has room for the content it had.
LEMMA SlotForContent ==
    ASSUME NEW doc, NEW place \in DOMAIN doc, HasContent(doc, place)
    PROVE  HasContentSlot(ReadContent(doc)[place])
<1>1. ReadContent(doc)[place] = ReadNode(doc[place], FitsAt(doc, place))
  BY DEF ReadContent
<1>2. FitsAt(doc, place) => doc[place].type \in DOMAIN BranchFields
  BY DEF FitsAt, Fits
<1>3. /\ ReadNode(doc[place], FitsAt(doc, place)).raw <=> ~FitsAt(doc, place)
      /\ ReadNode(doc[place], FitsAt(doc, place)).kind = doc[place].type
  BY DEF ReadNode
<1>4. QED
  BY <1>1, <1>2, <1>3 DEF HasContentSlot

LEMMA ReadNodes ==
    ASSUME NEW doc
    PROVE  /\ DOMAIN ReadContent(doc) = DOMAIN doc
           /\ \A place \in DOMAIN doc :
                /\ ReadContent(doc)[place] = ReadNode(doc[place], FitsAt(doc, place))
                /\ FitsAt(doc, place) \in BOOLEAN
                /\ IsHint(ReadContent(doc)[place]) <=> IsOwnHint(doc, place)
<1>1. DOMAIN ReadContent(doc) = DOMAIN doc
  BY DEF ReadContent
<1>2. ASSUME NEW place \in DOMAIN doc
      PROVE  /\ ReadContent(doc)[place] = ReadNode(doc[place], FitsAt(doc, place))
             /\ FitsAt(doc, place) \in BOOLEAN
             /\ IsHint(ReadContent(doc)[place]) <=> IsOwnHint(doc, place)
  <2>1. ReadContent(doc)[place] = ReadNode(doc[place], FitsAt(doc, place))
    BY DEF ReadContent
  <2>2. FitsAt(doc, place) \in BOOLEAN
    BY DEF FitsAt, Fits
  <2>3. doc[place].type = "colwidthsHint" =>
            (FitsAt(doc, place) <=> doc[place].text = "" /\ ~HasContent(doc, place))
    BY Kinds DEF FitsAt, Fits
  <2>4. IsHint(ReadNode(doc[place], FitsAt(doc, place))) <=> FitsAt(doc, place) /\ doc[place].type = "colwidthsHint"
    BY DEF IsHint, ReadNode
  <2>5. QED
    BY <2>1, <2>2, <2>3, <2>4 DEF IsOwnHint
<1>3. QED
  BY <1>1, <1>2

\* A document is encoded as it was read.
LEMMA DocKept ==
    ASSUME NEW doc, IsDocument(doc)
    PROVE  EncodeNodes(ReadContent(doc)) = doc
<1> DEFINE nodes == ReadContent(doc)
<1>1. DOMAIN nodes = DOMAIN doc
  BY ReadNodes
<1>2. Reached(nodes) = DOMAIN doc
  <2>1. ASSUME NEW place \in DOMAIN doc, NEW above \in DOMAIN doc, IsStrictPrefix(above, place)
        PROVE  HasContentSlot(nodes[above])
    BY <2>1, AboveHasContent, SlotForContent
  <2> HIDE DEF nodes
  <2>2. QED
    BY <1>1, <2>1 DEF Reached
<1>3. ASSUME NEW place \in DOMAIN doc
      PROVE  WriteNode(nodes[place]) = doc[place]
  <2>1. IsNode(doc[place])
    BY DEF IsDocument
  <2>2. nodes[place] = ReadNode(doc[place], FitsAt(doc, place)) /\ FitsAt(doc, place) \in BOOLEAN
    BY ReadNodes
  <2>3. FitsAt(doc, place) =>
            doc[place].type \in DOMAIN NodeFields /\ (doc[place].type # "text" => doc[place].text = "")
    BY DEF FitsAt, Fits
  <2> HIDE DEF nodes
  <2>4. QED
    BY <2>1, <2>2, <2>3, NodeKept
<1> HIDE DEF nodes
<1>4. EncodeNodes(nodes) = [place \in DOMAIN doc |-> doc[place]]
  BY <1>2, <1>3 DEF EncodeNodes
<1>5. QED
  BY <1>4 DEF IsDocument, nodes

\* The nodes the strip leaves are those that may be sent.
LEMMA SameNodesLeft ==
    ASSUME NEW doc
    PROVE  NotInHint(ReadContent(doc)) = Sent(doc)
<1> DEFINE nodes == ReadContent(doc)
<1>1. DOMAIN nodes = DOMAIN doc /\ \A above \in DOMAIN doc : IsHint(nodes[above]) <=> IsOwnHint(doc, above)
  BY ReadNodes
<1> HIDE DEF nodes
<1>2. NotInHint(nodes) = Sent(doc)
  BY <1>1 DEF NotInHint, Sent
<1>3. QED
  BY <1>2 DEF nodes

\* Stripped, it is encoded as what may be sent of it.
LEMMA DocSent ==
    ASSUME NEW doc, IsDocument(doc)
    PROVE  EncodeNodes(WithoutSynthetic(ReadContent(doc))) = Sendable(doc)
<1> DEFINE nodes == ReadContent(doc)
           left == WithoutSynthetic(nodes)
<1>1. DOMAIN nodes = DOMAIN doc
  BY ReadNodes
<1>2. NotInHint(nodes) = Sent(doc)
  BY SameNodesLeft
<1>3. Sent(doc) \subseteq DOMAIN doc
  BY DEF Sent
<1>4. left = [place \in Sent(doc) |-> ClearedNode(nodes[place])]
  BY <1>2 DEF WithoutSynthetic
<1>5. ASSUME NEW place \in DOMAIN doc
      PROVE  /\ WriteNode(ClearedNode(nodes[place])) = SendableNode(doc[place])
             /\ HasContentSlot(ClearedNode(nodes[place])) <=> HasContentSlot(nodes[place])
  <2>1. IsNode(doc[place])
    BY DEF IsDocument
  <2>2. nodes[place] = ReadNode(doc[place], FitsAt(doc, place)) /\ FitsAt(doc, place) \in BOOLEAN
    BY ReadNodes
  <2>3. FitsAt(doc, place) <=> Fits(doc[place], HasContent(doc, place))
    BY DEF FitsAt
  <2> HIDE DEF nodes
  <2>4. WriteNode(ClearedNode(nodes[place])) = SendableNode(doc[place])
    BY <2>1, <2>2, <2>3, NodeSent
  <2>5. /\ ClearedNode(nodes[place]).kind = nodes[place].kind
        /\ ClearedNode(nodes[place]).raw <=> nodes[place].raw
    BY <2>2, ClearedKeeps
  <2>6. QED
    BY <2>4, <2>5 DEF HasContentSlot
<1>6. Reached(left) = Sent(doc)
  <2>1. ASSUME NEW place \in DOMAIN doc, NEW above \in DOMAIN doc, IsStrictPrefix(above, place)
        PROVE  HasContentSlot(nodes[above])
    BY <2>1, AboveHasContent, SlotForContent
  <2> HIDE DEF nodes, left
  <2>2. QED
    BY <1>3, <1>4, <1>5, <2>1 DEF Reached
<1> HIDE DEF nodes, left
<1>7. EncodeNodes(left) = [place \in Sent(doc) |-> SendableNode(doc[place])]
  BY <1>3, <1>4, <1>5, <1>6 DEF EncodeNodes
<1>8. QED
  BY <1>7 DEF Sendable, left, nodes

\* What may be sent of a document is a document again.
LEMMA SendableIsDocument ==
    ASSUME NEW doc, IsDocument(doc)
    PROVE  IsDocument(Sendable(doc))
<1>1. Sent(doc) \subseteq DOMAIN doc
  BY DEF Sent
<1>2. ASSUME NEW place \in Sent(doc), NEW n \in 1..Len(place)
      PROVE  SubSeq(place, 1, n) \in Sent(doc)
  <2>1. place \in DOMAIN doc /\ place \in Seq(Nat) /\ SubSeq(place, 1, n) \in DOMAIN doc
    BY <1>1 DEF IsDocument
  <2>2. SubSeq(place, 1, n) \in Seq(Nat) /\ IsPrefix(SubSeq(place, 1, n), place)
    BY <2>1, FirstSteps
  <2>3. ASSUME NEW above \in DOMAIN doc, IsPrefix(above, SubSeq(place, 1, n))
        PROVE  ~IsOwnHint(doc, above)
    <3>1. above \in Seq(Nat)
      BY DEF IsDocument
    <3>2. IsPrefix(above, place)
      BY <2>1, <2>2, <2>3, <3>1, PrefixOrder
    <3>3. QED
      BY <3>2 DEF Sent
  <2>4. QED
    BY <2>1, <2>3 DEF Sent
<1>3. ASSUME NEW place \in Sent(doc)
      PROVE  IsNode(SendableNode(doc[place]))
  <2> DEFINE j == doc[place]
             left == {key \in DOMAIN j.attrs : ~OwnAttr(j, key)}
  <2>1. IsNode(j)
    BY <1>1 DEF IsDocument
  <2> HIDE DEF j
  <2>2. SendableNode(j) = [type |-> j.type, text |-> j.text, attrs |-> Restrict(j.attrs, left), marks |-> j.marks]
    BY <2>1 DEF IsNode, SendableNode
  <2>3. IsAttrs(Restrict(j.attrs, left))
    BY DEF Restrict, IsAttrs
  <2> HIDE DEF left
  <2>4. IsNode(SendableNode(j))
    BY <2>1, <2>2, <2>3 DEF IsNode
  <2>5. QED
    BY <2>4 DEF j
<1>4. QED
  <2> DEFINE sent == Sendable(doc)
  <2>1. sent = [place \in Sent(doc) |-> SendableNode(doc[place])]
    BY DEF Sendable
  <2>2. \A place \in Sent(doc) : place \in Seq(Nat) /\ place # <<>>
    BY <1>1 DEF IsDocument
  <2> HIDE DEF sent
  <2>3. IsDocument(sent)
    BY <1>2, <1>3, <2>1, <2>2 DEF IsDocument
  <2>4. QED
    BY <2>3 DEF sent

------------------------------------------------------------------------------
(* The codec. *)

\* What is typed is what the JSON was decoded to, stripped or not.
IInv ==
    /\ IsDocument(json)
    /\ stage \in {"waiting", "arrived", "decoded", "stripped", "encoded"}
    /\ stage = "decoded" => typed = DecodeDoc(json)
    /\ stage = "stripped" => typed = WithoutSynthetic(DecodeDoc(json))

LEMMA InitIInv == WireInit => IInv
  BY DEF WireInit, IInv, NoDocument, IsDocument

\* What each encoding writes.
LEMMA Writes ==
    ASSUME IInv
    PROVE  /\ IsDocument(Readable(json)) /\ IsDocument(Sendable(Readable(json)))
           /\ EncodeNodes(DecodeDoc(json)) = Readable(json)
           /\ stage = "decoded" => EncodeNodes(typed) = Readable(json)
           /\ stage = "stripped" => EncodeNodes(typed) = Sendable(Readable(json))
<1>1. IsDocument(Readable(json))
  BY WireAssumption, ReadableIsDocument DEF IInv
<1>2. /\ EncodeNodes(DecodeDoc(json)) = Readable(json)
      /\ EncodeNodes(WithoutSynthetic(DecodeDoc(json))) = Sendable(Readable(json))
  BY <1>1, DocKept, DocSent DEF DecodeDoc
<1>3. IsDocument(Sendable(Readable(json)))
  BY <1>1, SendableIsDocument
<1>4. QED
  BY <1>1, <1>2, <1>3 DEF IInv

LEMMA NextIInv ==
    ASSUME IInv, [WireNext]_wire
    PROVE  IInv'
<1>1. ASSUME NEW doc \in Documents, Arrive(doc)
      PROVE  IInv'
  BY <1>1, WireAssumption DEF IInv, Arrive
<1>2. CASE ReadWire
  BY <1>2 DEF IInv, ReadWire
<1>3. CASE StripWire
  BY <1>3 DEF IInv, StripWire
<1>4. CASE WriteWire
  <2>1. IsDocument(json')
    BY <1>4, Writes DEF WriteWire
  <2>2. QED
    BY <1>4, <2>1 DEF IInv, WriteWire
<1>5. CASE UNCHANGED wire
  BY <1>5 DEF IInv, wire
<1>6. QED
  BY <1>1, <1>2, <1>3, <1>4, <1>5 DEF WireNext

\* No attribute, mark or kind is reported as too deep a document is, so that is
\* reported just when something was cut.
LEMMA DepthReported ==
    ASSUME IInv
    PROVE  TooDeep \in ReportDoc(json) <=> Readable(json) # json
<1>1. ASSUME NEW types, NEW attrs, NEW kind
      PROVE  TooDeep \notin ReportAttrs(types, attrs, kind)
  BY DEF ReportAttrs, TooDeep, Diagnostic
<1>2. ASSUME NEW mark
      PROVE  TooDeep \notin ReportMark(mark)
  <2>1. TooDeep \notin ReportAttrs(MarkFields[mark.type], mark.attrs, mark.type)
    BY <1>1
  <2>2. TooDeep # Diagnostic("unknown-mark", <<mark.type>>)
    BY DEF TooDeep, Diagnostic
  <2>3. QED
    BY <2>1, <2>2 DEF ReportMark
<1>3. ASSUME NEW j, NEW fits \in BOOLEAN
      PROVE  TooDeep \notin ReportNode(j, fits)
  <2>1. TooDeep \notin ReportAttrs(NodeFields[j.type], j.attrs, j.type)
    BY <1>1
  <2>2. TooDeep # Diagnostic("unknown-node", <<j.type>>)
    BY DEF TooDeep, Diagnostic
  <2>3. TooDeep \notin ReportKind(j, fits)
    BY <2>1, <2>2 DEF ReportKind
  <2>4. TooDeep \notin ReportMarks(j.marks)
    BY <1>2 DEF ReportMarks
  <2>5. QED
    BY <2>3, <2>4 DEF ReportNode
<1>4. TooDeep \notin ReportContent(Readable(json))
  <2>1. \A place \in DOMAIN Readable(json) : FitsAt(Readable(json), place) \in BOOLEAN
    BY DEF FitsAt, Fits
  <2>2. QED
    BY <1>3, <2>1 DEF ReportContent
<1>5. QED
  BY <1>4 DEF ReportDoc

\* DecodeDoc, StripSynthetic and the encoder, for documents of any shape and depth: a document is
\* encoded as it was decoded, down to the depth it is read to, and that it was cut is reported just
\* when it was; stripped in between, it lacks its hints and synthetic attributes and nothing else.
THEOREM DocumentsKept == WireSpec => WireKeepsEverything
<1> DEFINE Kept == LET read == Readable(json)
                   IN  /\ stage' = "decoded" => EncodeNodes(typed') = read /\ (TooDeep \in reported' <=> read # json)
                       /\ stage = "decoded" /\ stage' = "encoded" => json' = read
                       /\ stage = "stripped" /\ stage' = "encoded" => json' = Sendable(read)
<1>1. ASSUME IInv, WireNext
      PROVE  Kept
  <2>1. ASSUME NEW doc \in Documents, Arrive(doc)
        PROVE  Kept
    BY <2>1 DEF Arrive
  <2>2. CASE ReadWire
    <3>1. typed' = DecodeDoc(json) /\ reported' = ReportDoc(json) /\ stage' = "decoded"
      BY <2>2 DEF ReadWire
    <3>2. EncodeNodes(typed') = Readable(json)
      BY <1>1, <3>1, Writes
    <3>3. TooDeep \in ReportDoc(json) <=> Readable(json) # json
      BY <1>1, DepthReported
    <3>4. QED
      BY <3>1, <3>2, <3>3
  <2>3. CASE StripWire
    BY <2>3 DEF StripWire
  <2>4. CASE WriteWire
    BY <1>1, <2>4, Writes DEF WriteWire
  <2>5. QED
    BY <1>1, <2>1, <2>2, <2>3, <2>4 DEF WireNext
<1>2. ASSUME IInv, [WireNext]_wire
      PROVE  [Kept]_wire
  BY <1>1, <1>2
<1>3. QED
  BY <1>2, InitIInv, NextIInv, PTL DEF WireSpec, WireKeepsEverything

\* StripSynthetic, for documents of any shape and depth: what it leaves has no hint, no synthetic
\* attribute and no node whose parent it has removed, which is what its comment promises
\* (wire.go, "the result satisfies IsWireSafe").
SafeToSend ==
    stage = "stripped" =>
        \A place \in DOMAIN typed :
            /\ ~IsHint(typed[place]) /\ ~CarriesSynthetic(typed[place])
            /\ \A n \in 1..Len(place) : SubSeq(place, 1, n) \in DOMAIN typed
THEOREM StrippedIsSafe == WireSpec => []SafeToSend
<1>1. IInv => SafeToSend
  <2> SUFFICES ASSUME IInv, stage = "stripped"
               PROVE  SafeToSend
    BY DEF SafeToSend
  <2> DEFINE doc == Readable(json)
             nodes == ReadContent(doc)
  <2>1. IsDocument(doc) /\ IsDocument(Sendable(doc))
    BY Writes
  <2>2. typed = WithoutSynthetic(nodes)
    BY DEF IInv, DecodeDoc
  <2>3. DOMAIN nodes = DOMAIN doc
    BY ReadNodes
  <2>4. DOMAIN typed = NotInHint(nodes) /\ NotInHint(nodes) = Sent(doc)
    BY <2>1, <2>2, SameNodesLeft DEF WithoutSynthetic
  <2>5. ASSUME NEW place \in DOMAIN typed
        PROVE  ~IsHint(typed[place]) /\ ~CarriesSynthetic(typed[place])
    <3>1. place \in DOMAIN doc /\ place \in Seq(Nat) /\ ~IsHint(nodes[place])
      <4>1. place \in DOMAIN doc /\ place \in Seq(Nat)
        BY <2>1, <2>3, <2>4 DEF NotInHint, IsDocument
      <4>2. IsPrefix(place, place)
        BY <4>1, PrefixOrder
      <4>3. QED
        BY <2>3, <2>4, <4>1, <4>2 DEF NotInHint
    <3>2. nodes[place] = ReadNode(doc[place], FitsAt(doc, place)) /\ FitsAt(doc, place) \in BOOLEAN
      BY <3>1, ReadNodes
    <3>3. typed[place] = ClearedNode(nodes[place])
      BY <2>2, <2>4 DEF WithoutSynthetic
    <3> HIDE DEF nodes
    <3>4. QED
      BY <3>1, <3>2, <3>3, ClearedKeeps DEF IsHint
  <2>6. \A place \in DOMAIN typed : \A n \in 1..Len(place) : SubSeq(place, 1, n) \in DOMAIN typed
    <3>1. DOMAIN Sendable(doc) = Sent(doc)
      BY DEF Sendable
    <3>2. QED
      BY <2>1, <2>4, <3>1 DEF IsDocument
  <2>7. QED
    BY <2>5, <2>6 DEF SafeToSend
<1>2. QED
  BY <1>1, InitIInv, NextIInv, PTL DEF WireSpec
===============================================================================
