------------------------------ MODULE MCFSStore ------------------------------
(* Instances of FSStore for TLC: who calls what, and on which folders. *)
EXTENDS FSStore, TLC

CONSTANTS c1, c2, c3, i1, i2, p1, f1, n1, n2, h1, h2, torn

\* One process: two instances over one folder, or a single one.
TwoInstances == c1 :> i1 @@ c2 :> i2
OneInstance == c1 :> i1 @@ c2 :> i1
OneCaller == c1 :> i1
ThreeCallers == c1 :> i1 @@ c2 :> i1 @@ c3 :> i1

\* The callers of one instance are alike.
Symmetric == Permutations({c1, c2, c3})
OneProcess == [i \in Insts |-> p1]
OneFolder == [i \in Insts |-> f1]

\* Names n1 and n2 of the same base n1, in the order createFriendly tries them.
OneExt == [n \in Names |-> 1]
OneBase == n1 :> <<n1, n2>>

OneName == n1 :> <<n1>>

\* Bound: the finite lists of candidate names end where createFriendly would count on.
SuffixBound == \A c \in Clients : pc[c] = "choose" => ENABLED ChooseFriendly(c)

=============================================================================
