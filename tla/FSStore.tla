------------------------------- MODULE FSStore -------------------------------
(***************************************************************************)
(* The filesystem asset store (src/assets, type FSStore): goroutines of    *)
(* one or several processes call instances over one shared index and blob  *)
(* directory.  Mutations run under the per-process index lock; reads take  *)
(* it only for the index and touch the files afterwards.  One action is    *)
(* one stretch of code between two points another caller can observe:      *)
(* taking the lock, each change of a file, the lock's release.             *)
(*                                                                         *)
(* A blob file is named by content and extension.  A friendly file is a    *)
(* link to a blob or a plain file.  Reference paths are friendly names of  *)
(* the folder's top level.                                                 *)
(***************************************************************************)
EXTENDS AssetRecord, Sequences

CONSTANTS
    Clients,     \* goroutines
    Insts,       \* FSStore values
    Procs,       \* processes
    Folders,     \* assets folders (of the documents)
    InstOf,      \* the instance a client calls
    ProcOf,      \* the process an instance lives in
    FolderOf,    \* the folder an instance keeps its friendly files in
    Exts,        \* file extensions, numbered in the order ReadDir lists them
    ExtOf,       \* the extension of a name
    Candidates,  \* base, base-2, base-3, ...: the names createFriendly tries
    Suggested,   \* the names callers suggest, a subset of Names
    Torn,        \* the content a half-written blob reads as
    Ops,         \* the operations callers use
    MaxDepth,    \* how deep a caller nests Report
    Makes,       \* how friendly files come out: as a "link", where Symlink fails "plain"
    IOFailures,  \* whether writing or removing a file can fail
    Crashes,     \* whether processes crash or instances are reopened
    UserEdits,   \* what people do to files in the folders: "adds", "removes"
    Nobody, NoFile

AllOps == {"Add", "Put", "SetMeta", "Forget", "Associate", "Inspect",
           "Resolve", "Assets", "Load", "Lookup", "Pending"}

ASSUME StoreAssumption ==
    /\ Clients # {} /\ Insts # {} /\ Procs # {} /\ Folders # {}
    /\ InstOf \in [Clients -> Insts]
    /\ ProcOf \in [Insts -> Procs]
    /\ FolderOf \in [Insts -> Folders]
    /\ Exts \subseteq Nat
    /\ ExtOf \in [Names -> Exts]
    /\ Suggested \subseteq Names /\ Suggested # {}
    /\ Candidates \in [Suggested -> Seq(Names)]
    /\ \A n \in Suggested :
         \A j \in DOMAIN Candidates[n] : ExtOf[Candidates[n][j]] = ExtOf[n]
    /\ Torn \in Hashes
    /\ Ops \subseteq AllOps
    /\ MaxDepth \in Nat
    /\ Makes \subseteq {"link", "plain"} /\ Makes # {}
    /\ {IOFailures, Crashes} \subseteq BOOLEAN
    /\ UserEdits \subseteq {"adds", "removes"}
    /\ Nobody \notin Clients

Blobs == Hashes \X Exts

BlobStates == {"none", "torn", "whole"}

Files == [kind : {"link", "plain"}, hash : Hashes, ext : Exts]

ASSUME NoFileAssumption == NoFile \notin Files

Link(h, e) == [kind |-> "link", hash |-> h, ext |-> e]

Plain(h, e) == [kind |-> "plain", hash |-> h, ext |-> e]

VARIABLES
    disk,      \* index.json (a missing file is the empty index)
    mem,       \* records: the index each instance holds
    blob,      \* the blob directory
    friendly,  \* the friendly files of each folder
    lock,      \* indexLocks: who holds the index lock of each process
    reports,   \* the Report scopes open on each instance, one per increment
    depth,     \* how many of them a client opened
    pc, call, todo  \* where each client is, its call, what it still has to visit

vars == <<disk, mem, blob, friendly, lock, reports, depth, pc, call, todo>>

Calls == [op : AllOps, hash : Hashes, name : Names, id : Ids, scope : Scopes,
          ns : NSs, val : Vals \cup {NoVal}, ext : Exts]

Locations == {"idle", "lock", "blob", "writing", "choose", "link", "save",
              "unlink", "drop", "remove", "erase", "asset", "create", "list",
              "read", "restore", "reread"}

TypeOK ==
    /\ disk \in Indexes
    /\ mem \in [Insts -> Indexes]
    /\ blob \in [Blobs -> BlobStates]
    /\ friendly \in [Folders -> [Names -> Files \cup {NoFile}]]
    /\ lock \in [Procs -> Clients \cup {Nobody}]
    /\ reports \in [Insts -> SUBSET (Clients \X Nat)]
    /\ depth \in [Clients -> 0 .. MaxDepth]
    /\ pc \in [Clients -> Locations]
    /\ call \in [Clients -> Calls]
    /\ todo \in [Clients -> SUBSET (Hashes \X Names)]

-----------------------------------------------------------------------------
(* Where a client stands. *)

Inst(c) == InstOf[c]
Proc(c) == ProcOf[InstOf[c]]
Folder(c) == FolderOf[InstOf[c]]
FileOf(c, n) == friendly[Folder(c)][n]
Reporting(c) == reports[Inst(c)] # {}

\* The blob Add stores content in, and the one a record's name leads to.
BlobFor(h, n) == <<h, ExtOf[n]>>

\* Stat follows links, Lstat does not.
StatOK(file) == file # NoFile /\ (file.kind = "link" => blob[<<file.hash, file.ext>>] # "none")

\* What reading a file yields.
ContentOf(file) ==
    IF file.kind = "link" /\ blob[<<file.hash, file.ext>>] = "torn" THEN Torn ELSE file.hash

Blank == [op    |-> "Inspect",
          hash  |-> CHOOSE h \in Hashes : TRUE,
          name  |-> CHOOSE n \in Names : TRUE,
          id    |-> CHOOSE k \in Ids : TRUE,
          scope |-> CHOOSE s \in Scopes : TRUE,
          ns    |-> CHOOSE ns \in NSs : TRUE,
          val   |-> NoVal,
          ext   |-> CHOOSE e \in Exts : TRUE]

At(c, here) == pc[c] = here
Goto(c, there) == pc' = [pc EXCEPT ![c] = there]

\* Variant: the lock covers the reload alone.
KeepLockNot(c) == UNCHANGED lock

\* A mutation keeps the lock it took until it returns.
KeepLock(c) == lock' = [lock EXCEPT ![Proc(c)] = c]

\* Variant: the unlock is not deferred, and early returns skip it.
ReleasedAtTheEnd(c) ==
    IF lock[Proc(c)] = c /\ pc[c] \in {"save", "erase", "read", "reread"}
    THEN Nobody ELSE lock[Proc(c)]

\* The deferred unlock of a call that holds the lock.
Released(c) == IF lock[Proc(c)] = c THEN Nobody ELSE lock[Proc(c)]

\* The call is over, and what it asked for is forgotten.
Return(c) ==
    /\ pc' = [pc EXCEPT ![c] = "idle"]
    /\ call' = [call EXCEPT ![c] = Blank]
    /\ todo' = [todo EXCEPT ![c] = {}]
    /\ lock' = [lock EXCEPT ![Proc(c)] = Released(c)]

Init ==
    /\ disk = EmptyIndex
    /\ mem = [i \in Insts |-> EmptyIndex]
    /\ blob = [b \in Blobs |-> "none"]
    /\ friendly = [f \in Folders |-> [n \in Names |-> NoFile]]
    /\ lock = [p \in Procs |-> Nobody]
    /\ reports = [i \in Insts |-> {}]
    /\ depth = [c \in Clients |-> 0]
    /\ pc = [c \in Clients |-> "idle"]
    /\ call = [c \in Clients |-> Blank]
    /\ todo = [c \in Clients |-> {}]

-----------------------------------------------------------------------------
(* Calls and Report scopes. *)

\* The arguments of each operation.
Uses == [Add       |-> {"hash", "name", "id", "scope"},
         Put       |-> {"hash", "name"},
         SetMeta   |-> {"hash", "ns", "val"},
         Forget    |-> {"hash"},
         Associate |-> {"name", "id", "scope"},
         Resolve   |-> {"id"},
         Load      |-> {"name"},
         Lookup    |-> {"name"},
         Inspect   |-> {}, Assets |-> {}, Pending |-> {}]

\* What callers ask for.  No caller made a torn content; any that is recorded may be
\* forgotten, and any name in a folder looked up.
Requests ==
    {r \in Calls :
        /\ r.op \in Ops
        /\ r.op \in {"Add", "Put", "SetMeta"} => r.hash # Torn
        /\ r.op \in {"Add", "Put", "Associate"} => r.name \in Suggested
        /\ \A arg \in (DOMAIN Blank \ {"op"}) \ Uses[r.op] : r[arg] = Blank[arg]}

\* Path-keyed calls read the file first; the others start with the lock.
Invoke(c) ==
    /\ At(c, "idle")
    /\ \E r \in Requests :
         /\ call' = [call EXCEPT ![c] = r]
         /\ Goto(c, IF r.op \in {"Load", "Lookup", "Associate"} THEN "read" ELSE "lock")
    /\ UNCHANGED <<disk, mem, blob, friendly, lock, reports, depth, todo>>

EnterReport(c) ==
    /\ At(c, "idle")
    /\ depth[c] < MaxDepth
    /\ depth' = [depth EXCEPT ![c] = depth[c] + 1]
    /\ reports' = [reports EXCEPT ![Inst(c)] = reports[Inst(c)] \cup {<<c, depth[c] + 1>>}]
    /\ UNCHANGED <<disk, mem, blob, friendly, lock, pc, call, todo>>

\* Variant: a flag in place of a count.
ClosedAll(c) == {}

\* The open scopes once the client has left its innermost one.
Closed(c) == reports[Inst(c)] \ {<<c, depth[c]>>}

ExitReport(c) ==
    /\ At(c, "idle")
    /\ depth[c] > 0
    /\ depth' = [depth EXCEPT ![c] = depth[c] - 1]
    /\ reports' = [reports EXCEPT ![Inst(c)] = Closed(c)]
    /\ UNCHANGED <<disk, mem, blob, friendly, lock, pc, call, todo>>

-----------------------------------------------------------------------------
(* Taking the lock and reloading the index. *)

\* The lock is free, and memory has the file merged into it.
LockAndReload(c) ==
    /\ At(c, "lock")
    /\ lock[Proc(c)] = Nobody
    /\ mem' = [mem EXCEPT ![Inst(c)] = Reload(mem[Inst(c)], disk)]

\* The extensions a content's blobs are stored under.
Held(h) == {e \in Exts : blob[<<h, e>>] # "none"}

\* blobFiles keeps the last file ReadDir lists for a hash.
BlobFound(h) == {e \in Held(h) : \A x \in Held(h) : x <= e}

\* Mutations keep the lock until they return.
BeginAdd(c) ==
    /\ call[c].op \in {"Add", "Put"}
    /\ LockAndReload(c)
    /\ KeepLock(c)
    /\ Goto(c, "blob")
    /\ UNCHANGED <<disk, blob, friendly, reports, depth, call, todo>>

\* Removing a namespace that is not there, and writing one on unknown content, end here.
BeginSetMeta(c) ==
    LET h == call[c].hash
    IN  /\ call[c].op = "SetMeta"
        /\ LockAndReload(c)
        /\ IF \/ mem'[Inst(c)][h] = NoRecord
              \/ call[c].val = NoVal /\ ~ HasMeta(mem'[Inst(c)], h, call[c].ns)
           THEN Return(c)
           ELSE /\ KeepLock(c)
                /\ Goto(c, "save")
                /\ UNCHANGED <<call, todo>>
        /\ UNCHANGED <<disk, blob, friendly, reports, depth>>

\* Nothing to do where neither half is held; a record without a blob is only erased.
BeginForget(c) ==
    LET h == call[c].hash
    IN  /\ call[c].op = "Forget"
        /\ LockAndReload(c)
        /\ \/ /\ mem'[Inst(c)][h] = NoRecord /\ Held(h) = {}
              /\ Return(c)
           \/ /\ mem'[Inst(c)][h] # NoRecord /\ Held(h) = {}
              /\ KeepLock(c)
              /\ Goto(c, "erase")
              /\ UNCHANGED <<call, todo>>
           \/ /\ \E e \in BlobFound(h) : call' = [call EXCEPT ![c].ext = e]
              /\ KeepLock(c)
              /\ Goto(c, "unlink")
              /\ UNCHANGED todo
        /\ UNCHANGED <<disk, blob, friendly, reports, depth>>

\* Meta, MetaHashes, NameOf, Records and the index half of Lookup answer from memory.
Inspect(c) ==
    /\ call[c].op \in {"Inspect", "Lookup"}
    /\ LockAndReload(c)
    /\ Return(c)
    /\ UNCHANGED <<disk, blob, friendly, reports, depth>>

\* recordFor takes the first match of a map in random order.
BeginResolve(c) ==
    /\ call[c].op = "Resolve"
    /\ LockAndReload(c)
    /\ LET idx == mem'[Inst(c)]
           matches == {h \in Hashes : HasId(idx, h, call[c].id)}
       IN  IF matches = {} THEN Return(c)
           ELSE \E h \in matches :
                  /\ call' = [call EXCEPT ![c].hash = h, ![c].name = idx[h].name]
                  /\ Goto(c, "asset")
                  /\ UNCHANGED <<lock, todo>>
    /\ UNCHANGED <<disk, blob, friendly, reports, depth>>

\* Every id with the record it was last seen on, taken in any order.
BeginAssets(c) ==
    /\ call[c].op = "Assets"
    /\ LockAndReload(c)
    /\ LET idx == mem'[Inst(c)]
           known == {k \in Ids : \E h \in Hashes : HasId(idx, h, k)}
       IN  IF known = {} THEN Return(c)
           ELSE \E pick \in [known -> Hashes] :
                  /\ \A k \in known : HasId(idx, pick[k], k)
                  /\ \E k \in known :
                       /\ call' = [call EXCEPT ![c].hash = pick[k], ![c].name = idx[pick[k]].name]
                       /\ todo' = [todo EXCEPT ![c] =
                                     {<<pick[x], idx[pick[x]].name>> : x \in known \ {k}}]
                  /\ Goto(c, "asset")
                  /\ UNCHANGED lock
    /\ UNCHANGED <<disk, blob, friendly, reports, depth>>

BeginPending(c) ==
    /\ call[c].op = "Pending"
    /\ LockAndReload(c)
    /\ Goto(c, "list")
    /\ UNCHANGED <<disk, blob, friendly, lock, reports, depth, call, todo>>

-----------------------------------------------------------------------------
(* Storing content: the blob, then a friendly name, then the index. *)

\* Variant: a link to the blob is taken for the blob.
PresentByLink(c, b) == \E n \in Names : FileOf(c, n) = Link(b[1], b[2])

\* Whether the content need not be written: the Stat of the blob succeeds.
Present(c, b) == blob[b] # "none"

\* A blob that is there is taken as it is; otherwise the file is created and filled.
CreateBlob(c) ==
    LET b == BlobFor(call[c].hash, call[c].name)
    IN  /\ At(c, "blob")
        /\ IF Present(c, b)
           THEN Goto(c, "choose") /\ UNCHANGED blob
           ELSE Goto(c, "writing") /\ blob' = [blob EXCEPT ![b] = "torn"]
        /\ UNCHANGED <<disk, mem, friendly, lock, reports, depth, call, todo>>

FillBlob(c) ==
    LET b == BlobFor(call[c].hash, call[c].name)
    IN  /\ At(c, "writing")
        /\ blob' = [blob EXCEPT ![b] = IF blob[b] = "torn" THEN "whole" ELSE blob[b]]
        /\ Goto(c, "choose")
        /\ UNCHANGED <<disk, mem, friendly, lock, reports, depth, call, todo>>

\* os.WriteFile fails half way: Add reports it and leaves the file behind.
FillBlobFails(c) ==
    /\ IOFailures
    /\ At(c, "writing")
    /\ Return(c)
    /\ UNCHANGED <<disk, mem, blob, friendly, reports, depth>>

\* Variant: any file of the name will do.
MatchesAny(c, n, b) == FileOf(c, n) # NoFile

\* friendlyMatches: the name is a link to exactly that blob.
Matches(c, n, b) == FileOf(c, n) = Link(b[1], b[2])

\* Variant: any file of the name is adopted.
AdoptsAny(c, n, b) == FileOf(c, n) # NoFile

\* A name createFriendly reuses: the link it would make, or a plain copy of the content.
Adopts(c, n, b) ==
    \/ Matches(c, n, b)
    \/ FileOf(c, n) # NoFile /\ FileOf(c, n).kind = "plain" /\ FileOf(c, n).hash = b[1]

\* The first name to suit: one to adopt, or one nothing sits at.
Chosen(c, b, n) ==
    LET tries == Candidates[call[c].name]
    IN  \E j \in DOMAIN tries :
          /\ n = tries[j]
          /\ Adopts(c, n, b) \/ FileOf(c, n) = NoFile
          /\ \A x \in 1 .. j - 1 : ~ Adopts(c, tries[x], b) /\ FileOf(c, tries[x]) # NoFile

ChooseFriendly(c) ==
    LET b == BlobFor(call[c].hash, call[c].name)
        known == mem[Inst(c)][call[c].hash]
    IN  /\ At(c, "choose")
        /\ IF known # NoRecord /\ Matches(c, known.name, b)
           THEN /\ call' = [call EXCEPT ![c].name = known.name]
                /\ Goto(c, "save")
           ELSE \E n \in Names :
                  /\ Chosen(c, b, n)
                  /\ call' = [call EXCEPT ![c].name = n]
                  /\ Goto(c, IF Adopts(c, n, b) THEN "save" ELSE "link")
        /\ UNCHANGED <<disk, mem, blob, friendly, lock, reports, depth, todo>>

\* What can be put at a friendly name: a link, or a copy of the content.
Made(h, n, copied) ==
    {f \in {Link(h, ExtOf[n]), Plain(copied, ExtOf[n])} : f.kind \in Makes}

\* Variant: the record is written to memory before the file exists.
RefusedRecorded(c) ==
    /\ mem' = [mem EXCEPT ![Inst(c)][call[c].hash] = Stored(@, call[c].name)]
    /\ Return(c)
    /\ UNCHANGED friendly

\* createFriendly's error: nothing is recorded.
Refused(c) == Return(c) /\ UNCHANGED <<mem, friendly>>

\* Symlink and the exclusive copy both refuse a name taken since it was chosen.
LinkFriendly(c) ==
    LET n == call[c].name
        h == call[c].hash
    IN  /\ At(c, "link")
        /\ IF FileOf(c, n) = NoFile
           THEN /\ \E f \in Made(h, n, h) : friendly' = [friendly EXCEPT ![Folder(c)][n] = f]
                /\ Goto(c, "save")
                /\ UNCHANGED <<mem, lock, call, todo>>
           ELSE Refused(c)
        /\ UNCHANGED <<disk, blob, reports, depth>>

\* A write of a friendly file that fails leaves nothing, or half of a copy.
HalfMade(c, n) ==
    \/ UNCHANGED friendly
    \/ /\ FileOf(c, n) = NoFile
       /\ friendly' = [friendly EXCEPT ![Folder(c)][n] = Plain(Torn, ExtOf[n])]

LinkFriendlyFails(c) ==
    /\ IOFailures
    /\ At(c, "link")
    /\ HalfMade(c, call[c].name)
    /\ Return(c)
    /\ UNCHANGED <<disk, mem, blob, reports, depth>>

\* The record a mutation leaves in memory.
Updated(c) ==
    LET r == mem[Inst(c)][call[c].hash]
    IN  IF call[c].op = "SetMeta" THEN [r EXCEPT !.meta[call[c].ns] = call[c].val]
        ELSE IF call[c].op = "Put" THEN Stored(r, call[c].name)
        ELSE WithID(Stored(r, call[c].name), call[c].id, call[c].scope)

\* saveIndex replaces the file by everything memory holds.  Add and Put then probe the
\* dimensions of the file they name, still under the lock.
Save(c) ==
    /\ At(c, "save")
    /\ mem' = [mem EXCEPT ![Inst(c)][call[c].hash] = Updated(c)]
    /\ disk' = mem'[Inst(c)]
    /\ IF call[c].op = "SetMeta" THEN Return(c)
       ELSE Goto(c, "read") /\ UNCHANGED <<lock, call, todo>>
    /\ UNCHANGED <<blob, friendly, reports, depth>>

\* The file stays as it was; what memory holds is not taken back.
SaveFails(c) ==
    /\ IOFailures
    /\ At(c, "save")
    /\ mem' = [mem EXCEPT ![Inst(c)][call[c].hash] = Updated(c)]
    /\ Return(c)
    /\ UNCHANGED <<disk, blob, friendly, reports, depth>>

-----------------------------------------------------------------------------
(* Forget: the friendly link, then the blob, then the record. *)

\* forgetFriendly looks for the link it may remove ...
CheckFriendly(c) ==
    LET h == call[c].hash
        r == mem[Inst(c)][h]
    IN  /\ At(c, "unlink")
        /\ IF r # NoRecord /\ Matches(c, r.name, <<h, call[c].ext>>)
           THEN call' = [call EXCEPT ![c].name = r.name] /\ Goto(c, "drop")
           ELSE Goto(c, "remove") /\ UNCHANGED call
        /\ UNCHANGED <<disk, mem, blob, friendly, lock, reports, depth, todo>>

\* ... and removes what lies at the name by then.
UnlinkFriendly(c) ==
    /\ At(c, "drop")
    /\ friendly' = [friendly EXCEPT ![Folder(c)][call[c].name] = NoFile]
    /\ Goto(c, "remove")
    /\ UNCHANGED <<disk, mem, blob, lock, reports, depth, call, todo>>

\* forgetFriendly ignores a failed removal.
UnlinkFriendlyFails(c) ==
    /\ IOFailures
    /\ At(c, "drop")
    /\ Goto(c, "remove")
    /\ UNCHANGED <<disk, mem, blob, friendly, lock, reports, depth, call, todo>>

RemoveBlob(c) ==
    /\ At(c, "remove")
    /\ blob' = [blob EXCEPT ![<<call[c].hash, call[c].ext>>] = "none"]
    /\ Goto(c, "erase")
    /\ UNCHANGED <<disk, mem, friendly, lock, reports, depth, call, todo>>

RemoveBlobFails(c) ==
    /\ IOFailures
    /\ At(c, "remove")
    /\ Return(c)
    /\ UNCHANGED <<disk, mem, blob, friendly, reports, depth>>

EraseRecord(c) ==
    LET h == call[c].hash
    IN  /\ At(c, "erase")
        /\ mem' = [mem EXCEPT ![Inst(c)][h] = NoRecord]
        /\ disk' = IF mem[Inst(c)][h] = NoRecord THEN disk ELSE mem'[Inst(c)]
        /\ Return(c)
        /\ UNCHANGED <<blob, friendly, reports, depth>>

EraseRecordFails(c) ==
    LET h == call[c].hash
    IN  /\ IOFailures
        /\ At(c, "erase")
        /\ mem[Inst(c)][h] # NoRecord
        /\ mem' = [mem EXCEPT ![Inst(c)][h] = NoRecord]
        /\ Return(c)
        /\ UNCHANGED <<disk, blob, friendly, reports, depth>>

-----------------------------------------------------------------------------
(* Reading files, and putting back the ones that are gone. *)

\* The visit of one file is over: on to the next one, or the call returns.
NextVisit(c) ==
    IF todo[c] = {} THEN Return(c)
    ELSE \E t \in todo[c] :
           /\ call' = [call EXCEPT ![c].hash = t[1], ![c].name = t[2]]
           /\ todo' = [todo EXCEPT ![c] = todo[c] \ {t}]
           /\ Goto(c, IF call[c].op = "Pending" THEN "read" ELSE "asset")
           /\ UNCHANGED lock

\* materialize agrees to make the file: its blob is there, and nothing is at the name.
Materializable(c, h, n) == blob[BlobFor(h, n)] # "none" /\ FileOf(c, n) = NoFile

\* assetOf: a file that can be read is the answer, whatever it holds.  One that cannot
\* is made from the blob, or while reporting answered from it at once.
ProbeAsset(c) ==
    LET h == call[c].hash
        n == call[c].name
    IN  /\ At(c, "asset")
        /\ \/ /\ StatOK(FileOf(c, n))
              /\ Goto(c, "read")
              /\ UNCHANGED <<lock, call, todo>>
           \/ /\ ~ StatOK(FileOf(c, n)) /\ ~ Reporting(c) /\ Materializable(c, h, n)
              /\ Goto(c, "create")
              /\ UNCHANGED <<lock, call, todo>>
           \/ /\ ~ StatOK(FileOf(c, n)) /\ (Reporting(c) \/ ~ Materializable(c, h, n))
              /\ NextVisit(c)
        /\ UNCHANGED <<disk, mem, blob, friendly, reports, depth>>

\* What a blob reads as.
BlobContent(h, n) == IF blob[BlobFor(h, n)] = "torn" THEN Torn ELSE h

\* materialize puts a file at the name unless something got there first, or the copy has
\* lost its source.
Materialize(c) ==
    LET h == call[c].hash
        n == call[c].name
    IN  /\ FileOf(c, n) = NoFile
        /\ \E f \in Made(h, n, BlobContent(h, n)) :
             /\ f.kind = "plain" => blob[BlobFor(h, n)] # "none"
             /\ friendly' = [friendly EXCEPT ![Folder(c)][n] = f]

Unmaterializable(c) ==
    \/ FileOf(c, call[c].name) # NoFile
    \/ "plain" \in Makes /\ blob[BlobFor(call[c].hash, call[c].name)] = "none"

CreateAsset(c) ==
    /\ At(c, "create")
    /\ \/ Materialize(c) /\ Goto(c, "read") /\ UNCHANGED <<lock, call, todo>>
       \/ Unmaterializable(c) /\ NextVisit(c) /\ UNCHANGED friendly
    /\ UNCHANGED <<disk, mem, blob, reports, depth>>

\* blobForName: the records on disk that carry the name and whose blob is there.
BlobsForName(n) ==
    {h \in Hashes : /\ Vetted(disk)[h] # NoRecord
                    /\ disk[h].name = n
                    /\ blob[BlobFor(h, n)] # "none"}

\* A path-keyed read has its content, or none (an empty set).
ReadDone(c, content) ==
    \/ /\ call[c].op \in {"Add", "Put", "Load"}
       /\ Return(c)
    \/ /\ call[c].op \in {"Resolve", "Assets", "Pending"}
       /\ NextVisit(c)
    \/ /\ call[c].op \in {"Lookup", "Associate"} /\ content = {}
       /\ Return(c)
    \/ /\ call[c].op = "Lookup" /\ content # {}
       /\ Goto(c, "lock")
       /\ UNCHANGED <<lock, call, todo>>
    \/ /\ call[c].op = "Associate" \* adds what it read, under the name it read it at
       /\ \E h \in content : call' = [call EXCEPT ![c].op = "Add", ![c].hash = h]
       /\ Goto(c, "lock")
       /\ UNCHANGED <<lock, todo>>

ContentAt(c, n) == IF StatOK(FileOf(c, n)) THEN {ContentOf(FileOf(c, n))} ELSE {}

\* Whether a path-keyed read may put a missing file back.
Repairs(c) == ~ Reporting(c)

\* resolveReadable: a file that is there is read.  A missing one is read from its blob
\* while reporting, put back first otherwise, when exactly one record carries the name.
ReadPath(c) ==
    LET n == call[c].name
        sources == BlobsForName(n)
        single == Cardinality(sources) = 1
    IN  /\ At(c, "read")
        /\ \/ /\ FileOf(c, n) # NoFile
              /\ ReadDone(c, ContentAt(c, n))
           \/ /\ FileOf(c, n) = NoFile
              /\ ~ single
              /\ ReadDone(c, {})
           \/ /\ FileOf(c, n) = NoFile
              /\ single /\ ~ Repairs(c)
              /\ \E h \in sources :
                   ReadDone(c, {BlobContent(h, n)})
           \/ /\ FileOf(c, n) = NoFile
              /\ single /\ Repairs(c)
              /\ \E h \in sources : call' = [call EXCEPT ![c].hash = h]
              /\ Goto(c, "restore")
              /\ UNCHANGED <<lock, todo>>
        /\ UNCHANGED <<disk, mem, blob, friendly, reports, depth>>

RestorePath(c) ==
    /\ At(c, "restore")
    /\ \/ Materialize(c) /\ Goto(c, "reread") /\ UNCHANGED <<lock, call, todo>>
       \/ Unmaterializable(c) /\ ReadDone(c, {}) /\ UNCHANGED friendly
    /\ UNCHANGED <<disk, mem, blob, reports, depth>>

RereadPath(c) ==
    /\ At(c, "reread")
    /\ ReadDone(c, ContentAt(c, call[c].name))
    /\ UNCHANGED <<disk, mem, blob, friendly, reports, depth>>

\* The file cannot be put back; the call goes on without it.
RestoreFails(c) ==
    /\ IOFailures
    /\ pc[c] \in {"create", "restore"}
    /\ HalfMade(c, call[c].name)
    /\ ReadDone(c, {})
    /\ UNCHANGED <<disk, mem, blob, reports, depth>>

\* Pending lists the folder and then visits each entry.
ListFolder(c) ==
    /\ At(c, "list")
    /\ LET entries == {n \in Names : FileOf(c, n) # NoFile}
       IN  IF entries = {} THEN Return(c)
           ELSE \E first \in entries :
                  /\ call' = [call EXCEPT ![c].name = first]
                  /\ todo' = [todo EXCEPT ![c] = {<<call[c].hash, n>> : n \in entries \ {first}}]
                  /\ Goto(c, "read")
                  /\ UNCHANGED lock
    /\ UNCHANGED <<disk, mem, blob, friendly, reports, depth>>

-----------------------------------------------------------------------------
(* The world around the calls. *)

\* A process dies between any two steps and opens its instances anew.
Crash(p) ==
    LET gone == {c \in Clients : Proc(c) = p}
    IN  /\ Crashes
        /\ pc' = [c \in Clients |-> IF c \in gone THEN "idle" ELSE pc[c]]
        /\ call' = [c \in Clients |-> IF c \in gone THEN Blank ELSE call[c]]
        /\ todo' = [c \in Clients |-> IF c \in gone THEN {} ELSE todo[c]]
        /\ depth' = [c \in Clients |-> IF c \in gone THEN 0 ELSE depth[c]]
        /\ reports' = [i \in Insts |-> IF ProcOf[i] = p THEN {} ELSE reports[i]]
        /\ mem' = [i \in Insts |-> IF ProcOf[i] = p THEN Vetted(disk) ELSE mem[i]]
        /\ lock' = [lock EXCEPT ![p] = Nobody]
        /\ UNCHANGED <<disk, blob, friendly>>

\* An idle instance is dropped and another opened in its place.
Reopen(i) ==
    /\ Crashes
    /\ \A c \in Clients : Inst(c) = i => pc[c] = "idle" /\ depth[c] = 0
    /\ mem' = [mem EXCEPT ![i] = Vetted(disk)]
    /\ UNCHANGED <<disk, blob, friendly, lock, reports, depth, pc, call, todo>>

\* The markdown-first flow: a person drops a file into a folder.
UserAdds(f, n, h) ==
    /\ "adds" \in UserEdits
    /\ friendly[f][n] = NoFile
    /\ friendly' = [friendly EXCEPT ![f][n] = Plain(h, ExtOf[n])]
    /\ UNCHANGED <<disk, mem, blob, lock, reports, depth, pc, call, todo>>

\* A cleaned folder.
UserRemoves(f, n) ==
    /\ "removes" \in UserEdits
    /\ friendly[f][n] # NoFile
    /\ friendly' = [friendly EXCEPT ![f][n] = NoFile]
    /\ UNCHANGED <<disk, mem, blob, lock, reports, depth, pc, call, todo>>

-----------------------------------------------------------------------------
Acquire(c) ==
    \/ BeginAdd(c)
    \/ BeginSetMeta(c)
    \/ BeginForget(c)
    \/ Inspect(c)
    \/ BeginResolve(c)
    \/ BeginAssets(c)
    \/ BeginPending(c)

\* The rest of a call, when no file operation fails.
Proceed(c) ==
    \/ CreateBlob(c) \/ FillBlob(c)
    \/ ChooseFriendly(c) \/ LinkFriendly(c)
    \/ Save(c)
    \/ CheckFriendly(c) \/ UnlinkFriendly(c) \/ RemoveBlob(c) \/ EraseRecord(c)
    \/ ProbeAsset(c) \/ CreateAsset(c)
    \/ ReadPath(c) \/ RestorePath(c) \/ RereadPath(c) \/ ListFolder(c)

Fail(c) ==
    \/ FillBlobFails(c) \/ LinkFriendlyFails(c) \/ SaveFails(c)
    \/ UnlinkFriendlyFails(c) \/ RemoveBlobFails(c) \/ EraseRecordFails(c)
    \/ RestoreFails(c)

ClientStep(c) == Invoke(c) \/ EnterReport(c) \/ ExitReport(c) \/ Acquire(c) \/ Proceed(c) \/ Fail(c)

Next ==
    \/ \E c \in Clients : ClientStep(c)
    \/ \E p \in Procs : Crash(p)
    \/ \E i \in Insts : Reopen(i)
    \/ \E f \in Folders, n \in Suggested, h \in Hashes \ {Torn} : UserAdds(f, n, h)
    \/ \E f \in Folders, n \in Names : UserRemoves(f, n)

Spec == Init /\ [][Next]_vars

\* A goroutine that can run is run, and a sync.Mutex starves no waiter (a waiter of more
\* than a millisecond is handed the lock).  Nothing makes callers call.
Fairness == \A c \in Clients : WF_vars(Proceed(c)) /\ SF_vars(Acquire(c))

LiveSpec == Spec /\ Fairness

-----------------------------------------------------------------------------
(* Properties. *)

\* The steps of a mutation between its reload and its save.
Mutating == {"blob", "writing", "choose", "link", "save", "unlink", "drop", "remove", "erase"}

\* No path out of a call, failed or not, leaves the index lock behind: whoever holds a
\* lock is in the middle of a mutation, or of the probe that ends an Add.
LockHeldByACall ==
    \A p \in Procs : lock[p] # Nobody =>
        LET c == lock[p]
        IN  Proc(c) = p /\ pc[c] \in Mutating \cup {"read", "restore", "reread"}

\* While a mutation runs it owns the index lock of its process, and its memory knows
\* every association on disk: what it is about to write back drops none.  This is the
\* reload-merge/save discipline FSStore's comment promises for the instances of one
\* process.
WriterKnowsTheDisk ==
    \A c \in Clients : pc[c] \in Mutating =>
        /\ lock[Proc(c)] = c
        /\ \A h \in Hashes, k \in Ids : HasId(disk, h, k) => HasId(mem[Inst(c)], h, k)

\* "An association recorded through one instance is not lost by another": a media id on
\* disk stays there until a Forget of its content erases the record.
NoAssociationLost ==
    [][\A h \in Hashes, k \in Ids :
         HasId(disk, h, k) => \/ HasId(disk', h, k)
                              \/ \E c \in Clients : At(c, "erase") /\ call[c].hash = h]_vars

\* What sits in a folder changes only by a person's hand, or by a Forget removing the link
\* to the very blob it is about to remove.
FileKept(f, n) ==
    \/ friendly[f][n] = NoFile
    \/ friendly'[f][n] = friendly[f][n]
    \/ UserRemoves(f, n)
    \/ /\ friendly'[f][n] = NoFile
       /\ \E c \in Clients : /\ At(c, "drop") /\ Folder(c) = f
                             /\ friendly[f][n] = Link(call[c].hash, call[c].ext)

\* createFriendly, materialize and forgetFriendly never replace a file and never take a
\* plain one away, while people only add files and one process owns the folder: whatever
\* appears after they looked, a link they found is still that link when they remove it.
FriendlyFilesKept == [][\A f \in Folders, n \in Names : FileKept(f, n)]_vars

\* forgetFriendly removes "only a link, and only one pointing at this blob": a file somebody
\* put in a folder by hand goes away by a hand.
PlainFilesKept ==
    [][\A f \in Folders, n \in Names :
         (friendly[f][n] # NoFile /\ friendly[f][n].kind = "plain")
            => friendly'[f][n] = friendly[f][n] \/ UserRemoves(f, n)]_vars

LeavesTheFolder(c) ==
    (depth[c] > 0 /\ pc'[c] # pc[c] /\ call[c].op \notin {"Add", "Put", "Forget"})
        => friendly' = friendly

\* Store.Report: a caller inside a Report scope that only asks about media leaves the
\* folder as it found it, whatever scopes others open and close on its instance.
ReportIsReadOnly == [][\A c \in Clients : LeavesTheFolder(c)]_vars

\* A Forget of the content has unlinked its file, and is on its way to erase the record.
BeingForgotten(h) == \E c \in Clients : pc[c] \in {"remove", "erase"} /\ call[c].hash = h

\* Resolve and Assets answer a path only if the content of the record they answer for
\* is what lies there: as long as that record still stands when the answer is given, nobody
\* is forgetting it, and outside a Report scope, which answers from the blob.
AnswersItsContent ==
    [][\A c \in Clients :
         LET h == call[c].hash
             n == call[c].name
         IN  (/\ pc[c] \in {"asset", "create"} /\ pc'[c] = "read" /\ ~ Reporting(c)
              /\ disk[h] # NoRecord /\ disk[h].name = n
              /\ ~ BeingForgotten(h))
             => /\ friendly'[Folder(c)][n] # NoFile
                /\ friendly'[Folder(c)][n].hash = h]_vars

\* When Add or Put records content, the blob its name leads to holds that content.
SavedContentIsWhole ==
    [][\A c \in Clients :
         (At(c, "save") /\ pc'[c] = "read")
            => blob[BlobFor(call[c].hash, call[c].name)] = "whole"]_vars

\* Forget removes the blob before the record: no content is left that nothing names.
ForgetLeavesNoContent ==
    [][\A h \in Hashes : disk[h] # NoRecord /\ disk'[h] = NoRecord => Held(h) = {}]_vars

\* What was deleted from the index comes back only by an operation that writes it: a
\* record by storing its content, a metadata namespace by setting it.
DeletedStaysDeleted ==
    [][\A h \in Hashes :
         /\ (disk[h] = NoRecord /\ disk'[h] # NoRecord) =>
              \E c \in Clients : At(c, "save") /\ call[c].hash = h /\ call[c].op \in {"Add", "Put"}
         /\ \A ns \in NSs : (HasMeta(disk', h, ns) /\ ~ HasMeta(disk, h, ns)) =>
              \E c \in Clients : /\ At(c, "save") /\ call[c].hash = h
                                 /\ call[c].op = "SetMeta" /\ call[c].ns = ns]_vars

\* The index on disk behaves as the abstract one: each write is one operation on the
\* record it names, and the lock, the reload and the merge are invisible.
Index == INSTANCE AssetIndex WITH index <- disk

RefinesIndex == Index!IndexSpec

\* Every call returns: no path keeps the lock, and none waits for a lock it holds.
CallsReturn == \A c \in Clients : pc[c] # "idle" ~> pc[c] = "idle"

=============================================================================
