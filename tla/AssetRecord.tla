----------------------------- MODULE AssetRecord -----------------------------
(***************************************************************************)
(* The index of the asset store as data (src/assets/record.go): one record *)
(* per piece of content, keyed by the content hash.                        *)
(*                                                                         *)
(* A content and its hash are one value here (no two contents collide).  A *)
(* media id is its case-folded key (idKey), a number in the order sortIDs  *)
(* uses.  A record maps each id to the scope it is recorded under and each *)
(* metadata namespace to its value, NoScope and NoVal standing for an      *)
(* absent entry.                                                           *)
(***************************************************************************)
EXTENDS Integers, FiniteSets

CONSTANTS
    Hashes,      \* content hashes
    Names,       \* friendly names, as sanitizeName leaves them
    ValidNames,  \* those of them validRecord accepts (no ".." inside)
    Ids,         \* media id keys
    Scopes,      \* visibility containers, the unscoped "" among them
    NSs,         \* metadata namespaces
    Vals,        \* metadata values
    NoRecord, NoScope, NoVal

ASSUME IndexAssumption ==
    /\ Hashes # {} /\ Names # {} /\ Ids # {} /\ Scopes # {} /\ NSs # {}
    /\ ValidNames \subseteq Names
    /\ Ids \subseteq Nat
    /\ NoScope \notin Scopes
    /\ NoVal \notin Vals

Records == [name : Names,
            ids  : [Ids -> Scopes \cup {NoScope}],
            meta : [NSs -> Vals \cup {NoVal}]]

ASSUME NoRecordAssumption == NoRecord \notin Records

Indexes == [Hashes -> Records \cup {NoRecord}]

EmptyIndex == [h \in Hashes |-> NoRecord]

-----------------------------------------------------------------------------
(* Operations on one record. *)

HasId(idx, h, k) == idx[h] # NoRecord /\ idx[h].ids[k] # NoScope

HasMeta(idx, h, ns) == idx[h] # NoRecord /\ idx[h].meta[ns] # NoVal

\* Variant: a new record is left without its name.
StoredUnnamed(r, n) ==
    IF r = NoRecord
    THEN [name |-> NoScope, ids |-> [k \in Ids |-> NoScope], meta |-> [ns \in NSs |-> NoVal]]
    ELSE r

\* The record of newly stored content, or the known one under its new name.
Stored(r, n) ==
    IF r = NoRecord
    THEN [name |-> n, ids |-> [k \in Ids |-> NoScope], meta |-> [ns \in NSs |-> NoVal]]
    ELSE [r EXCEPT !.name = n]

WithID(r, k, s) == [r EXCEPT !.ids[k] = s]

\* Variant: nothing is taken from the copy on disk.
MergeFromOursOnly(ours, theirs) == ours

\* In memory wins; the copy on disk only fills the gaps.
MergeFrom(ours, theirs) ==
    [ours EXCEPT
        !.ids  = [k \in Ids |-> IF ours.ids[k] = NoScope THEN theirs.ids[k] ELSE ours.ids[k]],
        !.meta = [ns \in NSs |-> IF ours.meta[ns] = NoVal THEN theirs.meta[ns] ELSE ours.meta[ns]]]

-----------------------------------------------------------------------------
(* Reading the index file. *)

\* validRecord: the name must be one the vetting accepts.
Vetted(disk) ==
    [h \in Hashes |-> IF disk[h] # NoRecord /\ disk[h].name \in ValidNames
                      THEN disk[h] ELSE NoRecord]

\* Variant: a mutation starts from memory alone.
ReloadNothing(mine, disk) == mine

\* reloadIndex: what memory holds after the file is merged into it.
Reload(mine, disk) ==
    [h \in Hashes |->
        IF Vetted(disk)[h] = NoRecord THEN mine[h]
        ELSE IF mine[h] = NoRecord THEN disk[h]
        ELSE MergeFrom(mine[h], disk[h])]

=============================================================================
