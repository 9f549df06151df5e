------------------------------ MODULE Products ------------------------------
(* The facade's two conversions with the passes a product asks for            *)
(* (MarkdownOptions and RenderOptions of the packages confluence and jira).   *)
EXTENDS Confluence, Jira

\* Confluence does not keep a task with blocks; Jira knows no placeholders and
\* no extensions with frames.
DocTransforms(nodes) ==
    CASE options.product = "none" -> nodes
      [] options.product = "confluence" -> SeparateBlockTaskItems(LowerTableAlign(LowerAnchors(nodes)))
      [] options.product = "jira" ->
            LET cards == LowerTableAlign(ConvertIssueLinksToInlineCards(nodes)) IN
            IF options.expandKeys THEN ExpandBareIssueKeys(cards) ELSE cards
ADFTransforms(nodes) ==
    CASE options.product = "none" -> nodes
      [] options.product = "confluence" -> LiftTableAlign(LiftAnchors(ExpandLegacyContent(nodes)))
      [] options.product = "jira" -> LiftTableAlign(nodes)

EncodePage(root) == [ToADF(root) EXCEPT !.out = DocTransforms(NormalizeTextNewlines(@))]
DecodeDocument(nodes) == FromADF(ADFTransforms(nodes))
=============================================================================
