-------------------------------- MODULE Jira --------------------------------
(* What Jira does to a document on its way out (package jira): links whose    *)
(* text is the issue's key, and keys that stand in the text, become cards.    *)
EXTENDS DialectDecode, Documents

Punctuation == {".", ")"}
IssueCard(url) == ADF("inlineCard", [url |-> url], <<>>)

\* A link to an issue is a card if its text is the issue's key, which
\* punctuation may follow; the marks of the text are gone.
IssueHref(n) == IF n.k = "text" /\ HasMark(n.marks, "link") THEN FirstMark(n.marks, "link").v ELSE ""
IsIssueLink(n) ==
    /\ Found(options.keyFromURL, IssueHref(n))
    /\ n.at.v # <<>> /\ <<n.at.v[1]>> = options.keyFromURL[IssueHref(n)] /\ ToSet(Tail(n.at.v)) \subseteq Punctuation
ConvertLinkNode(n) ==
    <<IssueCard(IssueHref(n))>> \o (IF Len(n.at.v) = 1 THEN <<>> ELSE <<ADFText(Tail(n.at.v), <<>>)>>)
RECURSIVE ConvertIssueLinksToInlineCards(_)
ConvertIssueLinksToInlineCards(nodes) ==
    FlatMap(LAMBDA n : IF IsIssueLink(n) THEN ConvertLinkNode(n)
                       ELSE <<[n EXCEPT !.c = ConvertIssueLinksToInlineCards(@)]>>, nodes)

\* A bare key in the text is a word of its own. The punctuation after it is a
\* text of its own, and no text that is left keeps a mark.
IsBareKey(v, i) ==
    /\ i \in DOMAIN v /\ Found(options.urlForKey, <<v[i]>>)
    /\ \A near \in {i - 1, i + 1} \cap DOMAIN v : v[near] \in {Space, Newline} \cup Punctuation
FollowsKey(v, i) == \E k \in 1..(i - 1) : IsBareKey(v, k) /\ \A j \in (k + 1)..i : v[j] \in Punctuation
StartsText(v, i) == i = 1 \/ IsBareKey(v, i - 1) \/ (FollowsKey(v, i - 1) /\ ~FollowsKey(v, i))
ExpandKeysInText(v) ==
    LET Expand(out, i) ==
            CASE IsBareKey(v, i) -> Append(out, IssueCard(options.urlForKey[<<v[i]>>][1]))
              [] ~IsBareKey(v, i) /\ StartsText(v, i) -> Append(out, ADFText(<<v[i]>>, <<>>))
              [] OTHER -> Append(Front(out), [Last(out) EXCEPT !.at.v = Append(@, v[i])])
    IN  FoldLeft(Expand, <<>>, [i \in DOMAIN v |-> i])
HoldsBareKey(n) ==
    n.k = "text" /\ ~HasMark(n.marks, "link") /\ ~HasMark(n.marks, "code") /\ \E i \in DOMAIN n.at.v : IsBareKey(n.at.v, i)
RECURSIVE ExpandBareIssueKeys(_)
ExpandBareIssueKeys(nodes) ==
    FlatMap(LAMBDA n : CASE HoldsBareKey(n) -> ExpandKeysInText(n.at.v)
                         [] n.k = "codeBlock" -> <<n>>
                         [] OTHER -> <<[n EXCEPT !.c = ExpandBareIssueKeys(@)]>>, nodes)
=============================================================================
