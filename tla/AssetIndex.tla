------------------------------ MODULE AssetIndex ------------------------------
(***************************************************************************)
(* What the index file promises a caller who knows nothing of reloads,     *)
(* locks and merges: a map from content to record in which every change is *)
(* one operation on the one record it names, in one step.  FSStore is      *)
(* shown to implement it for the configurations named in the README.       *)
(***************************************************************************)
EXTENDS AssetRecord

VARIABLE index

IndexInit == index = EmptyIndex

\* Put: content under a name, with no id.
PutContent(h, n) == index' = [index EXCEPT ![h] = Stored(index[h], n)]

\* Add, Associate: the same, with a media id.
AddContent(h, n, k, s) == index' = [index EXCEPT ![h] = WithID(Stored(index[h], n), k, s)]

SetMetadata(h, ns, v) ==
    /\ index[h] # NoRecord
    /\ index' = [index EXCEPT ![h].meta[ns] = v]

ForgetContent(h) == index' = [index EXCEPT ![h] = NoRecord]

IndexNext ==
    \E h \in Hashes :
        \/ \E n \in Names : PutContent(h, n)
        \/ \E n \in Names, k \in Ids, s \in Scopes : AddContent(h, n, k, s)
        \/ \E ns \in NSs, v \in Vals \cup {NoVal} : SetMetadata(h, ns, v)
        \/ ForgetContent(h)

IndexSpec == IndexInit /\ [][IndexNext]_index

=============================================================================
