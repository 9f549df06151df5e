------------------------------- MODULE Macros -------------------------------
(* Directives for the core Confluence macros (confluence/macros.go and        *)
(* macroparams.go), registered with the converter like the dialect's own      *)
(* kinds. A macro is an extension whose parameters hold its label (the        *)
(* parameter without a name), its attributes and its metadata; one that holds *)
(* anything else stays the generic extension directive.                       *)
EXTENDS Nodes

MacroExtensionType == "confluence.macro.core"
MacroSpecs ==
    [toc |-> [key |-> "toc", schemaVersion |-> "1", title |-> "Table of Contents"],
     children |-> [key |-> "children", schemaVersion |-> "2", title |-> "Child pages"],
     pagetree |-> [key |-> "pagetree", schemaVersion |-> "1", title |-> "Page Tree"],
     excerpt |-> [key |-> "excerpt", schemaVersion |-> "1", title |-> "Excerpt"],
     excerptInclude |-> [key |-> "excerpt-include", schemaVersion |-> "1", title |-> "Insert excerpt"],
     includePage |-> [key |-> "include", schemaVersion |-> "1", title |-> "Include Page"],
     anchor |-> [key |-> "anchor", schemaVersion |-> "1", title |-> "Anchor"]]
MacroNames == [key \in {MacroSpecs[name].key : name \in DOMAIN MacroSpecs} |->
                  CHOOSE name \in DOMAIN MacroSpecs : MacroSpecs[name].key = key]

MacroBlocks == {"confluenceMacro", "confluenceBodiedMacro"}
MacroKinds == MacroBlocks \cup {"confluenceInlineMacro"}
MacroNode(kind, name, attrs, c) == Node(kind, [name |-> name, attrs |-> attrs], c)

\* A text stands for every name with a blank in it, and another one for every
\* value that is no text.
Unspellable == {"a b"}
NoText == "{}"
ReservedMacroAttrs == {"layout", "localId", "schemaVersion", "title"}
Chosen(attrs, key, otherwise) == IF key \in DOMAIN attrs THEN attrs[key] ELSE otherwise

MacroParameters(name, attrs, label) ==
    [macroParams |-> AttrIf("", label) @@ [key \in DOMAIN attrs \ ReservedMacroAttrs |-> attrs[key]],
     macroMetadata |-> [schemaVersion |-> Chosen(attrs, "schemaVersion", MacroSpecs[name].schemaVersion),
                        title |-> Chosen(attrs, "title", MacroSpecs[name].title)]]
MacroAttrs(name, attrs, label) ==
    [type |-> MacroExtensionType, key |-> MacroSpecs[name].key, parameters |-> MacroParameters(name, attrs, label)]
        @@ AttrIf("localId", Chosen(attrs, "localId", ""))
LayoutAttr(attrs) == AttrIf("layout", Chosen(attrs, "layout", ""))

\* A macro without a body is an extension, also one that was written with one.
BodilessMacro(n, label) == ADF("extension", MacroAttrs(n.at.name, n.at.attrs, label) @@ LayoutAttr(n.at.attrs), <<>>)
EncodeInlineMacro(n) == ADF("inlineExtension", MacroAttrs(n.at.name, n.at.attrs, AsValue(PlainText(n.c))), <<>>)
EncodeBodiedMacro(n, label, body) ==
    IF body.out = <<>> THEN Result(<<BodilessMacro(n, label)>>, body.log)
    ELSE Wrapped(body, [BodilessMacro(n, label) EXCEPT !.k = "bodiedExtension"])

\* Whether a directive can say all that an extension says.
Section(n, section) ==
    IF "parameters" \in DOMAIN n.at /\ section \in DOMAIN n.at.parameters THEN n.at.parameters[section] ELSE NoAttrs
SugaredParams(params) ==
    \A key \in DOMAIN params :
        params[key] # NoText /\ IF key = "" THEN params[key] # "" ELSE key \notin ReservedMacroAttrs \cup Unspellable
SugaredMetadata(meta) == DOMAIN meta \subseteq {"macroId", "schemaVersion", "title"} /\ \A key \in DOMAIN meta : meta[key] # NoText
MacroSugared(n) ==
    /\ Attr(n, "type") = MacroExtensionType /\ Attr(n, "key") \in DOMAIN MacroNames
    /\ DOMAIN n.at \subseteq {"type", "key", "parameters", "layout", "localId"}
    /\ "parameters" \in DOMAIN n.at => DOMAIN n.at.parameters \subseteq {"macroParams", "macroMetadata"}
    /\ SugaredParams(Section(n, "macroParams"))
    /\ SugaredMetadata(Section(n, "macroMetadata"))

\* What the directive says of it: the metadata that is not the macro's usual
\* one, and never the server's own id.
MacroLabel(n) == Chosen(Section(n, "macroParams"), "", "")
MacroDirectiveAttrs(n) ==
    LET params == Section(n, "macroParams")
        meta == Section(n, "macroMetadata")
        usual == MacroSpecs[MacroNames[n.at.key]]
    IN  [key \in DOMAIN params \ {""} |-> params[key]]
            @@ [key \in {k \in {"schemaVersion", "title"} \cap DOMAIN meta : meta[k] # usual[k]} |-> meta[key]]
            @@ AttrIf("layout", IF Attr(n, "layout") = "default" THEN "" ELSE Attr(n, "layout"))
            @@ AttrIf("localId", Attr(n, "localId"))
MacroDirective(n, kind, c) == MacroNode(kind, MacroNames[n.at.key], MacroDirectiveAttrs(n), c)
MacroLabelText(n) == IF MacroLabel(n) = "" THEN <<>> ELSE <<Text(<<MacroLabel(n)>>)>>
DecodeBodiedMacro(n, body) ==
    LET label == IF MacroLabel(n) = "" THEN <<>> ELSE <<LabelParagraph(MacroLabelText(n))>> IN
    Result(<<MacroDirective(n, "confluenceBodiedMacro", label \o body.out)>>, body.log)

\* The directives of a page that stand for macros, by the form they are written in.
MacroForms == [leafDirective |-> "confluenceMacro", textDirective |-> "confluenceInlineMacro",
               containerDirective |-> "confluenceBodiedMacro"]
=============================================================================
