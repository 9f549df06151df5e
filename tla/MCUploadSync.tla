----------------------------- MODULE MCUploadSync -----------------------------
(* Instances of UploadSync for TLC: who pushes which documents, over which stack. *)
EXTENDS UploadSync, TLC

CONSTANTS c1, c2, sA, sB, u, hA, hB

\* Two layers, each with an index of its own or over one; the second reads a
\* folder it does not list, with a file of the same name as one it lists.
OwnIndexes == <<1, 2>>
SharedIndex == <<1, 1>>
Named == <<2, 3, 3>>
SameName == <<2, 2>>
LocalAndRoot == <<{1}, {2, 3}>>
FlatLocalAndRoot == <<{1}, {2}>>
LocalAndRootListed == <<{1}, {2}>>

Node(kind, dest) == [kind |-> kind, dest |-> dest, label |-> 0, pinned |-> FALSE, external |-> FALSE]
Labelled(kind, dest) == [Node(kind, dest) EXCEPT !.label = 1]

\* The spellings of a picture, a label defined twice, a pinned id, a remote
\* picture, an empty document, and a batch of two documents.
AllBatches ==
    {<<<<Node("media", 2), Labelled("imageRef", 0), Labelled("definition", 3), Node("image", Remote),
         Labelled("definition", 1)>>>>,
     <<<<Node("media", 1)>>, <<>>, <<Node("image", 3), [Node("media", 2) EXCEPT !.pinned = TRUE]>>>>}

TwoSpellings == {<<<<Node("image", 1), Node("media", 2)>>>>}

\* Containers are alike, and so are contents.
Alike == Permutations({sA, sB}) \cup Permutations({hA, hB})

UploadFirst == <<"upload", "other">>
JustUpload == <<"upload">>
=============================================================================
