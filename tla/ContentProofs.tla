----------------------------- MODULE ContentProofs -----------------------------
(***************************************************************************)
(* What the index says of the contents in the store of one process: that   *)
(* what is recorded is there whole, that what is forgotten is gone, and,   *)
(* of a store with one instance, that the index is a plain map and that an *)
(* answer is the content asked for.  The theorems name what they need of   *)
(* the world: no failing writes, no crashes, no hand in the folder.        *)
(***************************************************************************)
EXTENDS FSStoreProofs

-----------------------------------------------------------------------------
(* What changes the blobs, and where a mutation stands. *)

\* Only a mutation touches a blob.
LEMMA BlobFrame ==
    ASSUME NEW c \in Clients, ClientStep(c), blob' # blob
    PROVE  CreateBlob(c) \/ FillBlob(c) \/ RemoveBlob(c)
<1>1. CASE Invoke(c) \/ EnterReport(c) \/ ExitReport(c)
  BY <1>1 DEF Invoke, EnterReport, ExitReport
<1>2. CASE Acquire(c)
  BY <1>2 DEF Acquire, BeginAdd, BeginSetMeta, BeginForget, Inspect, BeginResolve, BeginAssets,
              BeginPending
<1>3. CASE \/ ChooseFriendly(c) \/ LinkFriendly(c) \/ Save(c)
           \/ CheckFriendly(c) \/ UnlinkFriendly(c) \/ EraseRecord(c)
           \/ ProbeAsset(c) \/ CreateAsset(c)
           \/ ReadPath(c) \/ RestorePath(c) \/ RereadPath(c) \/ ListFolder(c)
  BY <1>3 DEF ChooseFriendly, LinkFriendly, Save, CheckFriendly, UnlinkFriendly, EraseRecord,
              ProbeAsset, CreateAsset, ReadPath, RestorePath, RereadPath, ListFolder
<1>4. CASE Fail(c)
  BY <1>4 DEF Fail, FillBlobFails, LinkFriendlyFails, SaveFails, UnlinkFriendlyFails,
              RemoveBlobFails, EraseRecordFails, RestoreFails
<1> QED BY <1>1, <1>2, <1>3, <1>4 DEF ClientStep, Proceed

\* The steps by which a mutation gets to where it is.
LEMMA Arrivals ==
    ASSUME IInv, NEW c \in Clients, ClientStep(c), pc'[c] \in Mutating
    PROVE  \/ BeginAdd(c) /\ pc'[c] = "blob"
           \/ CreateBlob(c) /\ pc'[c] \in {"writing", "choose"}
           \/ FillBlob(c) /\ pc'[c] = "choose"
           \/ ChooseFriendly(c) /\ pc'[c] \in {"link", "save"}
           \/ LinkFriendly(c) /\ FileOf(c, call[c].name) = NoFile /\ pc'[c] = "save"
           \/ BeginSetMeta(c) /\ pc'[c] = "save"
           \/ BeginForget(c) /\ pc'[c] \in {"unlink", "erase"}
           \/ CheckFriendly(c) /\ pc'[c] \in {"drop", "remove"}
           \/ (UnlinkFriendly(c) \/ UnlinkFriendlyFails(c)) /\ pc'[c] = "remove"
           \/ RemoveBlob(c) /\ pc'[c] = "erase"
<1> USE DEF IInv
<1>1. ASSUME NEW there \in Locations, Goto(c, there)
      PROVE  pc'[c] = there
  BY <1>1 DEF Control, Goto
<1>2. ~ Return(c) /\ ~ NextVisit(c) /\ \A content : ~ ReadDone(c, content)
  BY ReturnStays, NextVisitStays, ReadDoneStays DEF Mutating
<1>3. \A there \in Locations : Goto(c, there) => there \in Mutating
  BY <1>1
<1>4. CASE Invoke(c) \/ EnterReport(c) \/ ExitReport(c)
  BY <1>3, <1>4 DEF Invoke, EnterReport, ExitReport, At, Mutating, Locations
<1>5. CASE BeginAdd(c) \/ BeginSetMeta(c)
  BY <1>1, <1>2, <1>5 DEF BeginAdd, BeginSetMeta, Locations
<1>6. CASE BeginForget(c)
  BY <1>1, <1>2, <1>6 DEF BeginForget, Locations
<1>7. CASE Inspect(c) \/ BeginResolve(c) \/ BeginAssets(c) \/ BeginPending(c)
  BY <1>2, <1>3, <1>7 DEF Inspect, BeginResolve, BeginAssets, BeginPending, Mutating, Locations
<1>8. CASE CreateBlob(c) \/ FillBlob(c) \/ RemoveBlob(c)
  BY <1>1, <1>8 DEF CreateBlob, FillBlob, RemoveBlob, Locations
<1>9. CASE ChooseFriendly(c)
  BY <1>1, <1>9 DEF ChooseFriendly, Locations
<1>10. CASE LinkFriendly(c)
  BY <1>1, <1>2, <1>10 DEF LinkFriendly, Refused, Locations
<1>11. CASE CheckFriendly(c) \/ UnlinkFriendly(c) \/ UnlinkFriendlyFails(c)
  BY <1>1, <1>11 DEF CheckFriendly, UnlinkFriendly, UnlinkFriendlyFails, Locations
<1>12. CASE Save(c) \/ EraseRecord(c)
  BY <1>2, <1>3, <1>12 DEF Save, EraseRecord, Mutating, Locations
<1>13. CASE ProbeAsset(c) \/ CreateAsset(c) \/ ListFolder(c)
  BY <1>2, <1>3, <1>13 DEF ProbeAsset, CreateAsset, ListFolder, Mutating, Locations
<1>14. CASE ReadPath(c) \/ RestorePath(c) \/ RereadPath(c) \/ RestoreFails(c)
  BY <1>2, <1>3, <1>14 DEF ReadPath, RestorePath, RereadPath, RestoreFails, Mutating, Locations
<1>15. CASE \/ FillBlobFails(c) \/ LinkFriendlyFails(c) \/ SaveFails(c)
            \/ RemoveBlobFails(c) \/ EraseRecordFails(c)
  BY <1>2, <1>15 DEF FillBlobFails, LinkFriendlyFails, SaveFails, RemoveBlobFails, EraseRecordFails
<1> QED BY <1>4, <1>5, <1>6, <1>7, <1>8, <1>9, <1>10, <1>11, <1>12, <1>13, <1>14, <1>15
        DEF ClientStep, Acquire, Proceed, Fail

\* The steps by which it goes on from there.
LEMMA Departures ==
    ASSUME NEW c \in Clients, ClientStep(c), pc[c] \in Mutating
    PROVE  \/ pc[c] = "blob" /\ CreateBlob(c)
           \/ pc[c] = "writing" /\ (FillBlob(c) \/ FillBlobFails(c))
           \/ pc[c] = "choose" /\ ChooseFriendly(c)
           \/ pc[c] = "link" /\ (LinkFriendly(c) \/ LinkFriendlyFails(c))
           \/ pc[c] = "save" /\ (Save(c) \/ SaveFails(c))
           \/ pc[c] = "unlink" /\ CheckFriendly(c)
           \/ pc[c] = "drop" /\ (UnlinkFriendly(c) \/ UnlinkFriendlyFails(c))
           \/ pc[c] = "remove" /\ (RemoveBlob(c) \/ RemoveBlobFails(c))
           \/ pc[c] = "erase" /\ (EraseRecord(c) \/ EraseRecordFails(c))
<1>1. ~ (Invoke(c) \/ EnterReport(c) \/ ExitReport(c))
  BY DEF Invoke, EnterReport, ExitReport, At, Mutating
<1>2. ~ Acquire(c)
  BY DEF Acquire, BeginAdd, BeginSetMeta, BeginForget, Inspect, BeginResolve, BeginAssets,
         BeginPending, LockAndReload, At, Mutating
<1>3. ~ (\/ ProbeAsset(c) \/ CreateAsset(c) \/ ReadPath(c) \/ RestorePath(c) \/ RestoreFails(c)
         \/ RereadPath(c) \/ ListFolder(c))
  BY DEF ProbeAsset, CreateAsset, ReadPath, RestorePath, RestoreFails, RereadPath, ListFolder,
         At, Mutating
<1>4. CASE Proceed(c)
  <2>1. /\ CreateBlob(c) => pc[c] = "blob"
        /\ FillBlob(c) => pc[c] = "writing"
        /\ ChooseFriendly(c) => pc[c] = "choose"
        /\ LinkFriendly(c) => pc[c] = "link"
        /\ Save(c) => pc[c] = "save"
        /\ CheckFriendly(c) => pc[c] = "unlink"
        /\ UnlinkFriendly(c) => pc[c] = "drop"
        /\ RemoveBlob(c) => pc[c] = "remove"
        /\ EraseRecord(c) => pc[c] = "erase"
    BY DEF CreateBlob, FillBlob, ChooseFriendly, LinkFriendly, Save,
       CheckFriendly, UnlinkFriendly, RemoveBlob, EraseRecord, At
  <2> QED BY <1>3, <1>4, <2>1 DEF Proceed
<1>5. CASE Fail(c)
  BY <1>3, <1>5 DEF Fail, FillBlobFails, LinkFriendlyFails, SaveFails, UnlinkFriendlyFails,
     RemoveBlobFails, EraseRecordFails, At
<1> QED BY <1>1, <1>2, <1>4, <1>5 DEF ClientStep

\* While one client mutates, the others change neither index nor blobs, and add to the folders at most.
LEMMA Undisturbed ==
    ASSUME SingleProcess, IInv, NEW c \in Clients, ClientStep(c), NEW d \in Clients, d # c,
           pc[d] \in Mutating \/ pc'[d] \in Mutating
    PROVE  /\ pc[d] \in Mutating /\ pc'[d] = pc[d] /\ call'[d] = call[d]
           /\ pc[c] \notin Mutating /\ ~ LockAndReload(c)
           /\ UNCHANGED <<disk, mem, blob>>
           /\ \A f \in Folders, n \in Names : friendly[f][n] # NoFile => friendly'[f][n] = friendly[f][n]
<1> USE DEF IInv
<1>1. OthersStay(c) /\ MemoryFrame(c)
  BY ClientStepKeepsInv
<1>2. pc[d] \in Mutating /\ pc'[d] = pc[d] /\ call'[d] = call[d]
  BY <1>1 DEF OthersStay
<1>3. pc[c] \notin Mutating /\ lock[Proc(c)] \notin {c, Nobody}
  BY <1>2, OneMutator
<1>4. UNCHANGED mem
  BY <1>1, <1>3 DEF MemoryFrame
<1>5. UNCHANGED disk
  BY <1>3, DiskFrame DEF Save, EraseRecord, At, Mutating
<1>6. UNCHANGED blob
  BY <1>3, BlobFrame DEF CreateBlob, FillBlob, RemoveBlob, At, Mutating
<1>7. ~ LockAndReload(c)
  BY <1>3 DEF LockAndReload
<1>8. ASSUME NEW f \in Folders, NEW n \in Names, friendly[f][n] # NoFile
      PROVE  friendly'[f][n] = friendly[f][n]
  <2>1. pc[c] # "drop"
    BY <1>3 DEF Mutating
  <2>2. CASE UNCHANGED friendly
    BY <2>2
  <2>3. CASE \E x \in Names, file \in Files :
               /\ FileOf(c, x) = NoFile
               /\ friendly' = [friendly EXCEPT ![Folder(c)][x] = file]
    BY <1>8, <2>3, Places DEF FileOf, Data
  <2> QED BY <2>1, <2>2, <2>3, FolderStep DEF FolderFrame
<1> QED BY <1>2, <1>3, <1>4, <1>5, <1>6, <1>7, <1>8

-----------------------------------------------------------------------------
(* One instance: memory and file are the same index. *)

OneInstance == \A i, j \in Insts : i = j

\* An index reopened is read as it was written.
ReopenedWhole == Crashes => AllNamesValid

IndexInMemory == \A i \in Insts : mem[i] = disk

\* A reload of what memory holds already changes nothing.
LEMMA ReloadSame ==
    ASSUME NEW idx \in Indexes
    PROVE  Reload(idx, idx) = idx
<1>1. ASSUME NEW h \in Hashes, idx[h] \in Records
      PROVE  MergeFrom(idx[h], idx[h]) = idx[h]
  <2> DEFINE r == idx[h]
  <2>1. /\ [k \in Ids |-> IF r.ids[k] = NoScope THEN r.ids[k] ELSE r.ids[k]] = r.ids
        /\ [ns \in NSs |-> IF r.meta[ns] = NoVal THEN r.meta[ns] ELSE r.meta[ns]] = r.meta
    BY <1>1 DEF Records
  <2>2. MergeFrom(r, r) = [r EXCEPT !.ids = r.ids, !.meta = r.meta]
    BY <2>1 DEF MergeFrom
  <2>3. [r EXCEPT !.ids = r.ids, !.meta = r.meta] = r
    BY <1>1 DEF Records
  <2> QED BY <2>2, <2>3
<1>2. ASSUME NEW h \in Hashes
      PROVE  Reload(idx, idx)[h] = idx[h]
  <2>1. idx[h] \in Records \cup {NoRecord}
    BY DEF Indexes
  <2>2. CASE idx[h] = NoRecord \/ Vetted(idx)[h] = NoRecord
    BY <2>2 DEF Reload, Vetted
  <2>3. CASE idx[h] # NoRecord /\ Vetted(idx)[h] # NoRecord
    BY <1>1, <2>1, <2>3 DEF Reload
  <2> QED BY <2>2, <2>3
<1> QED BY <1>2 DEF Reload, Indexes

\* The vetting leaves an index alone whose names it accepts.
LEMMA VettedSame ==
    ASSUME AllNamesValid, NEW idx \in Indexes
    PROVE  Vetted(idx) = idx
<1>1. ASSUME NEW h \in Hashes
      PROVE  Vetted(idx)[h] = idx[h]
  BY DEF Vetted, Indexes, Records, AllNamesValid
<1> QED BY <1>1 DEF Vetted, Indexes

\* Memory changes with a reload, a save or an erasure.
LEMMA MemoryWriters ==
    ASSUME NEW c \in Clients, ClientStep(c), ~ IOFailures
    PROVE  \/ UNCHANGED <<mem, disk>>
           \/ LockAndReload(c) /\ UNCHANGED disk
           \/ Save(c) \/ EraseRecord(c)
<1>1. CASE Invoke(c) \/ EnterReport(c) \/ ExitReport(c)
  BY <1>1 DEF Invoke, EnterReport, ExitReport
<1>2. CASE Acquire(c)
  BY <1>2 DEF Acquire, BeginAdd, BeginSetMeta, BeginForget, Inspect, BeginResolve, BeginAssets,
              BeginPending
<1>3. CASE CreateBlob(c) \/ FillBlob(c) \/ ChooseFriendly(c) \/ LinkFriendly(c)
  BY <1>3 DEF CreateBlob, FillBlob, ChooseFriendly, LinkFriendly, Refused
<1>4. CASE \/ CheckFriendly(c) \/ UnlinkFriendly(c) \/ RemoveBlob(c)
           \/ ProbeAsset(c) \/ CreateAsset(c)
           \/ ReadPath(c) \/ RestorePath(c) \/ RereadPath(c) \/ ListFolder(c)
  BY <1>4 DEF CheckFriendly, UnlinkFriendly, RemoveBlob, ProbeAsset, CreateAsset, ReadPath,
              RestorePath, RereadPath, ListFolder
<1>5. CASE Fail(c)
  <2>1. UnlinkFriendlyFails(c) \/ RestoreFails(c) \/ IOFailures
    BY <1>5 DEF Fail, FillBlobFails, LinkFriendlyFails, SaveFails, RemoveBlobFails, EraseRecordFails
  <2> QED BY <2>1 DEF UnlinkFriendlyFails, RestoreFails
<1> QED BY <1>1, <1>2, <1>3, <1>4, <1>5 DEF ClientStep, Proceed

\* What the one instance writes, over what the file held.
LEMMA IndexWrites ==
    ASSUME OneInstance, IInv, IndexInMemory, NEW c \in Clients
    PROVE  /\ mem[Inst(c)] = disk
           /\ Save(c) => disk' = [disk EXCEPT ![call[c].hash] = Updated(c)]
           /\ EraseRecord(c) => disk' = [disk EXCEPT ![call[c].hash] = NoRecord]
           /\ Save(c) \/ EraseRecord(c) => mem'[Inst(c)] = disk'
<1>1. mem[Inst(c)] = disk /\ Inst(c) \in Insts
  BY Places DEF IndexInMemory
<1>2. mem \in [Insts -> Indexes] /\ disk \in Indexes
  BY DEF IInv, Data
<1>3. ASSUME Save(c)
      PROVE  disk' = [disk EXCEPT ![call[c].hash] = Updated(c)] /\ mem'[Inst(c)] = disk'
  BY <1>1, <1>2, <1>3 DEF Save
<1>4. ASSUME EraseRecord(c)
      PROVE  disk' = [disk EXCEPT ![call[c].hash] = NoRecord] /\ mem'[Inst(c)] = disk'
  <2>1. mem'[Inst(c)] = [disk EXCEPT ![call[c].hash] = NoRecord]
    BY <1>1, <1>2, <1>4 DEF EraseRecord
  <2>2. CASE disk[call[c].hash] = NoRecord
    <3>1. [disk EXCEPT ![call[c].hash] = NoRecord] = disk
      BY <1>2, <2>2 DEF Indexes
    <3> QED BY <1>1, <1>4, <2>1, <2>2, <3>1 DEF EraseRecord
  <2>3. CASE disk[call[c].hash] # NoRecord
    BY <1>1, <1>4, <2>1, <2>3 DEF EraseRecord
  <2> QED BY <2>2, <2>3
<1> QED BY <1>1, <1>3, <1>4

\* No step parts memory from file: a save writes both, a reload reads what is there already.
LEMMA IndexStaysInMemory ==
    ASSUME OneInstance, ReopenedWhole, ~ IOFailures, IInv, IndexInMemory, [Next]_vars
    PROVE  IndexInMemory'
<1>1. disk \in Indexes /\ mem \in [Insts -> Indexes]
  BY DEF IInv, Data
<1> SUFFICES ASSUME NEW i \in Insts
             PROVE  mem'[i] = disk'
  BY DEF IndexInMemory
<1>2. ASSUME NEW c \in Clients, ClientStep(c)
      PROVE  mem'[i] = disk'
  <2>1. i = Inst(c) /\ mem[i] = disk
    BY Places DEF OneInstance, IndexInMemory
  <2>2. CASE LockAndReload(c) /\ UNCHANGED disk
    BY <1>1, <2>1, <2>2, LockAndReloadTyped, ReloadSame DEF IInv
  <2>3. CASE UNCHANGED <<mem, disk>>
    BY <2>1, <2>3
  <2>4. CASE Save(c) \/ EraseRecord(c)
    BY <2>1, <2>4, IndexWrites
  <2> QED BY <1>2, <2>2, <2>3, <2>4, MemoryWriters
<1>3. CASE \E p \in Procs : Crash(p)
  <2>1. PICK p \in Procs : Crash(p)
    BY <1>3
  <2>2. Vetted(disk) = disk
    BY <1>1, <2>1, VettedSame DEF Crash, ReopenedWhole
  <2> QED BY <2>1, <2>2 DEF Crash, IndexInMemory
<1>4. CASE \E x \in Insts : Reopen(x)
  <2>1. PICK x \in Insts : Reopen(x)
    BY <1>4
  <2>2. Vetted(disk) = disk
    BY <1>1, <2>1, VettedSame DEF Reopen, ReopenedWhole
  <2> QED BY <1>1, <2>1, <2>2 DEF Reopen, IndexInMemory
<1>5. CASE \/ \E f \in Folders, n \in Suggested, h \in Hashes \ {Torn} : UserAdds(f, n, h)
           \/ \E f \in Folders, n \in Names : UserRemoves(f, n)
           \/ UNCHANGED vars
  BY <1>5 DEF UserAdds, UserRemoves, vars, IndexInMemory
<1> QED BY <1>2, <1>3, <1>4, <1>5 DEF Next

\* Memory and file are one index in every state.
LEMMA IndexAlwaysInMemory ==
    ASSUME OneInstance, ReopenedWhole, ~ IOFailures
    PROVE  Spec => [](IInv /\ IndexInMemory)
<1>1. Init => IndexInMemory
  BY DEF Init, IndexInMemory
<1>2. IInv /\ IndexInMemory /\ [Next]_vars => IndexInMemory'
  BY IndexStaysInMemory
<1> QED BY <1>1, <1>2, Invariance, PTL DEF Spec

-----------------------------------------------------------------------------
(* The index file is a map. *)

\* Each write of the file is one operation of the abstract index.
LEMMA StepIsOneOperation ==
    ASSUME OneInstance, IInv, IndexInMemory, [Next]_vars, disk' # disk
    PROVE  \E c \in Clients :
             /\ pc[c] \in {"save", "erase"}
             /\ call[c].hash \in Hashes /\ call[c].name \in Names /\ call[c].ns \in NSs
             /\ call[c].val \in Vals \cup {NoVal}
             /\ \/ pc[c] = "erase" /\ Index!ForgetContent(call[c].hash)
                \/ /\ pc[c] = "save" /\ call[c].op = "SetMeta"
                   /\ Index!SetMetadata(call[c].hash, call[c].ns, call[c].val)
                \/ /\ pc[c] = "save" /\ call[c].op = "Put"
                   /\ Index!PutContent(call[c].hash, call[c].name)
                \/ /\ pc[c] = "save" /\ call[c].op = "Add"
                   /\ call[c].id \in Ids /\ call[c].scope \in Scopes
                   /\ Index!AddContent(call[c].hash, call[c].name, call[c].id, call[c].scope)
<1>1. PICK c \in Clients : ClientStep(c)
  BY DEF Next, Crash, Reopen, UserAdds, UserRemoves, vars
<1>2. /\ call[c].hash \in Hashes /\ call[c].name \in Names /\ call[c].ns \in NSs
      /\ call[c].val \in Vals \cup {NoVal}
      /\ call[c].id \in Ids /\ call[c].scope \in Scopes
  BY DEF IInv, Control, Calls
<1>3. mem[Inst(c)] = disk
  BY IndexWrites
<1>4. CASE Save(c)
  <2>1. pc[c] = "save" /\ disk' = [disk EXCEPT ![call[c].hash] = Updated(c)]
    BY <1>4, IndexWrites DEF Save, At
  <2>2. CASE call[c].op = "SetMeta"
    <3>1. disk[call[c].hash] # NoRecord
      BY <1>3, <2>1, <2>2 DEF IInv, RecordBehindSetMeta
    <3>2. Updated(c) = [disk[call[c].hash] EXCEPT !.meta[call[c].ns] = call[c].val]
      BY <1>3, <2>2 DEF Updated
    <3>3. disk' = [disk EXCEPT ![call[c].hash].meta[call[c].ns] = call[c].val]
      BY <2>1, <3>2
    <3>4. Index!SetMetadata(call[c].hash, call[c].ns, call[c].val)
      BY <3>1, <3>3 DEF Index!SetMetadata
    <3> QED BY <1>2, <2>1, <2>2, <3>4
  <2>3. CASE call[c].op = "Put"
    <3>1. Updated(c) = Index!Stored(disk[call[c].hash], call[c].name)
      BY <1>3, <2>3 DEF Updated, Index!Stored, Stored
    <3>2. Index!PutContent(call[c].hash, call[c].name)
      BY <2>1, <3>1 DEF Index!PutContent
    <3> QED BY <1>2, <2>1, <2>3, <3>2
  <2>4. CASE call[c].op = "Add"
    <3>1. Updated(c) = Index!WithID(Index!Stored(disk[call[c].hash], call[c].name),
                                    call[c].id, call[c].scope)
      BY <1>3, <2>4 DEF Updated, Index!Stored, Index!WithID, Stored, WithID
    <3>2. Index!AddContent(call[c].hash, call[c].name, call[c].id, call[c].scope)
      BY <2>1, <3>1 DEF Index!AddContent
    <3> QED BY <1>2, <2>1, <2>4, <3>2
  <2> QED BY <2>1, <2>2, <2>3, <2>4 DEF IInv, Control, Placed
<1>5. CASE EraseRecord(c)
  BY <1>2, <1>5, IndexWrites DEF EraseRecord, At, Index!ForgetContent
<1> QED BY <1>1, <1>4, <1>5, DiskFrame

\* With one instance the index on disk behaves as the abstract index, a map in which each
\* change is one operation on the record it names: the lock, the reload, the merge and, for
\* names the vetting accepts, the crashes and reopenings are invisible in it.
THEOREM IndexIsAMap ==
    ASSUME OneInstance, ReopenedWhole, ~ IOFailures
    PROVE  Spec => RefinesIndex
<1>1. Init => Index!IndexInit
  BY DEF Init, Index!IndexInit, EmptyIndex, Index!EmptyIndex
<1>2. ASSUME IInv, IndexInMemory, [Next]_vars
      PROVE  [Index!IndexNext]_disk
  <2>1. CASE disk' = disk
    BY <2>1
  <2>2. CASE disk' # disk
    BY <1>2, <2>2, StepIsOneOperation DEF Index!IndexNext
  <2> QED BY <2>1, <2>2
<1> QED BY <1>1, <1>2, IndexAlwaysInMemory, PTL DEF Spec, RefinesIndex, Index!IndexSpec

\* A step that brings a record or a namespace back is the operation that writes it.
LEMMA StepRevivesItsOwn ==
    ASSUME OneInstance, IInv, IndexInMemory, [Next]_vars, NEW h \in Hashes
    PROVE  /\ (disk[h] = NoRecord /\ disk'[h] # NoRecord) =>
                 \E c \in Clients : At(c, "save") /\ call[c].hash = h /\ call[c].op \in {"Add", "Put"}
           /\ \A ns \in NSs : (HasMeta(disk', h, ns) /\ ~ HasMeta(disk, h, ns)) =>
                 \E c \in Clients : /\ At(c, "save") /\ call[c].hash = h
                                    /\ call[c].op = "SetMeta" /\ call[c].ns = ns
<1>1. CASE disk' = disk
  BY <1>1 DEF HasMeta
<1>2. CASE disk' # disk
  <2>1. PICK c \in Clients :
             /\ pc[c] \in {"save", "erase"}
             /\ call[c].hash \in Hashes /\ call[c].name \in Names /\ call[c].ns \in NSs
             /\ call[c].val \in Vals \cup {NoVal}
             /\ \/ pc[c] = "erase" /\ Index!ForgetContent(call[c].hash)
                \/ /\ pc[c] = "save" /\ call[c].op = "SetMeta"
                   /\ Index!SetMetadata(call[c].hash, call[c].ns, call[c].val)
                \/ /\ pc[c] = "save" /\ call[c].op = "Put"
                   /\ Index!PutContent(call[c].hash, call[c].name)
                \/ /\ pc[c] = "save" /\ call[c].op = "Add"
                   /\ call[c].id \in Ids /\ call[c].scope \in Scopes
                   /\ Index!AddContent(call[c].hash, call[c].name, call[c].id, call[c].scope)
    BY <1>2, StepIsOneOperation
  <2> DEFINE g == call[c].hash
             r == disk[g]
  <2>0. disk \in Indexes /\ g \in Hashes /\ r \in Records \cup {NoRecord}
    BY <2>1 DEF IInv, Data, Indexes
  <2>2. CASE pc[c] = "erase" /\ Index!ForgetContent(g)
    BY <2>0, <2>2 DEF Index!ForgetContent, Indexes, HasMeta
  <2>3. CASE pc[c] = "save" /\ call[c].op = "SetMeta" /\ Index!SetMetadata(g, call[c].ns, call[c].val)
    <3>1. /\ r \in Records /\ r # NoRecord
          /\ disk' = [disk EXCEPT ![g] = [r EXCEPT !.meta = [r.meta EXCEPT ![call[c].ns] = call[c].val]]]
      BY <2>0, <2>3 DEF Index!SetMetadata, Indexes
    <3>2. CASE h = g
      <4>1. disk'[h] = [r EXCEPT !.meta = [r.meta EXCEPT ![call[c].ns] = call[c].val]]
        BY <2>0, <3>1, <3>2 DEF Indexes
      <4>2. \A ns \in NSs \ {call[c].ns} : disk'[h].meta[ns] = r.meta[ns]
        BY <3>1, <4>1 DEF Records
      <4> QED BY <2>3, <3>1, <3>2, <4>2 DEF HasMeta, At
    <3>3. CASE h # g
      BY <2>0, <3>1, <3>3 DEF Indexes, HasMeta
    <3> QED BY <3>2, <3>3
  <2>4. CASE /\ pc[c] = "save" /\ call[c].op \in {"Add", "Put"}
             /\ \/ Index!PutContent(g, call[c].name)
                \/ /\ call[c].id \in Ids /\ call[c].scope \in Scopes
                   /\ Index!AddContent(g, call[c].name, call[c].id, call[c].scope)
    <3>1. CASE h = g
      <4>1. /\ Stored(r, call[c].name) \in Records
            /\ r # NoRecord => Stored(r, call[c].name).meta = r.meta
            /\ r = NoRecord => \A ns \in NSs : Stored(r, call[c].name).meta[ns] = NoVal
        BY <2>0, <2>1, StoredTyped DEF Stored
      <4>2. /\ disk'[h] = Stored(r, call[c].name)
               \/ disk'[h] = WithID(Stored(r, call[c].name), call[c].id, call[c].scope)
        BY <2>0, <2>4, <3>1 DEF Index!PutContent, Index!AddContent, Index!Stored, Index!WithID,
           Stored, WithID, Indexes
      <4>3. disk'[h].meta = Stored(r, call[c].name).meta
        BY <4>1, <4>2 DEF WithID, Records
      <4> QED BY <2>4, <3>1, <4>1, <4>3 DEF HasMeta, At
    <3>2. CASE h # g
      BY <2>0, <2>4, <3>2 DEF Index!PutContent, Index!AddContent, Indexes, HasMeta
    <3> QED BY <3>1, <3>2
  <2> HIDE DEF g
  <2> QED BY <2>1, <2>2, <2>3, <2>4 DEF g
<1> QED BY <1>1, <1>2

\* With one instance what was deleted from the index comes back only by an operation that
\* writes it; a second instance brings it back from its memory, as the run store_stale shows.
THEOREM DeletedForGood ==
    ASSUME OneInstance, ReopenedWhole, ~ IOFailures
    PROVE  Spec => DeletedStaysDeleted
<1>1. ASSUME IInv, IndexInMemory, [Next]_vars
      PROVE  \A h \in Hashes :
         /\ (disk[h] = NoRecord /\ disk'[h] # NoRecord) =>
              \E c \in Clients : At(c, "save") /\ call[c].hash = h /\ call[c].op \in {"Add", "Put"}
         /\ \A ns \in NSs : (HasMeta(disk', h, ns) /\ ~ HasMeta(disk, h, ns)) =>
              \E c \in Clients : /\ At(c, "save") /\ call[c].hash = h
                                 /\ call[c].op = "SetMeta" /\ call[c].ns = ns
  BY <1>1, StepRevivesItsOwn
<1> QED BY <1>1, IndexAlwaysInMemory, PTL DEF Spec, DeletedStaysDeleted

-----------------------------------------------------------------------------
(* What is forgotten is gone. *)

\* Every content is stored under one extension at most (the code makes a blob for each: assets.go:717).
AtMostOneBlob == \A h \in Hashes : \A e, x \in Held(h) : e = x

\* A mutation knows every record on disk, and a Forget the one blob it is about to remove.
ForgetsAll(c) ==
    /\ pc[c] \in Mutating => \A h \in Hashes : disk[h] # NoRecord => mem[Inst(c)][h] # NoRecord
    /\ pc[c] \in {"unlink", "drop", "remove"} => Held(call[c].hash) \subseteq {call[c].ext}
    /\ pc[c] = "erase" => Held(call[c].hash) = {}

\* A reload brings in every record whose name the vetting accepts.
LEMMA ReloadKnowsTheRecords ==
    ASSUME AllNamesValid, NEW mine \in Indexes, NEW theirs \in Indexes, NEW h \in Hashes,
           theirs[h] # NoRecord
    PROVE  Reload(mine, theirs)[h] # NoRecord
<1>1. Vetted(theirs)[h] = theirs[h] /\ theirs[h] \in Records /\ mine[h] \in Records \cup {NoRecord}
  BY VettedSame DEF Indexes
<1>2. mine[h] # NoRecord => MergeFrom(mine[h], theirs[h]) # NoRecord
  BY <1>1, MergeFromTyped, NoRecordAssumption
<1> QED BY <1>1, <1>2 DEF Reload

\* A client's own steps.
LEMMA OwnStepForgetsAll ==
    ASSUME AllNamesValid, AtMostOneBlob, IInv, NEW c \in Clients, ForgetsAll(c), ClientStep(c),
           pc'[c] \in Mutating
    PROVE  ForgetsAll(c)'
<1> USE DEF IInv
<1>0. Inst(c) \in Insts /\ disk \in Indexes /\ mem[Inst(c)] \in Indexes /\ call[c] \in Calls
  BY Places DEF Data, Control
<1>1. \A h \in Hashes : disk'[h] # NoRecord => mem'[Inst(c)][h] # NoRecord
  <2>1. UNCHANGED disk
    BY MutationFrame
  <2>2. CASE LockAndReload(c)
    BY <1>0, <2>1, <2>2, LockAndReloadTyped, ReloadKnowsTheRecords
  <2>3. CASE pc[c] \in Mutating /\ UNCHANGED mem
    BY <2>1, <2>3 DEF ForgetsAll
  <2> QED BY <2>2, <2>3, MutationFrame
<1>2. ASSUME pc'[c] \in {"unlink", "drop", "remove"}
      PROVE  Held(call[c].hash)' \subseteq {call'[c].ext}
  <2>1. CASE BeginForget(c)
    <3>1. PICK e \in BlobFound(call[c].hash) : call' = [call EXCEPT ![c].ext = e]
      BY <1>2, <2>1, ReturnStays DEF BeginForget, Goto, Control
    <3>2. call'[c].hash = call[c].hash /\ call'[c].ext = e /\ UNCHANGED blob
      BY <1>0, <2>1, <3>1 DEF BeginForget, Control, Calls
    <3>3. e \in Held(call[c].hash) /\ call[c].hash \in Hashes
      BY <1>0, <3>1 DEF BlobFound, Calls
    <3>4. Held(call[c].hash) \subseteq {e}
      BY <3>3 DEF AtMostOneBlob
    <3>5. Held(call[c].hash)' = Held(call[c].hash)
      BY <3>2 DEF Held
    <3> QED BY <3>2, <3>4, <3>5
  <2>2. CASE UnlinkFriendly(c) \/ UnlinkFriendlyFails(c)
    BY <2>2 DEF UnlinkFriendly, UnlinkFriendlyFails, At, ForgetsAll, Held
  <2>3. CASE CheckFriendly(c)
    <3>1. Held(call[c].hash) \subseteq {call[c].ext} /\ UNCHANGED blob
      BY <2>3 DEF CheckFriendly, At, ForgetsAll
    <3>2. call'[c].hash = call[c].hash /\ call'[c].ext = call[c].ext
      BY <1>0, <2>3 DEF CheckFriendly, Control, Calls
    <3> QED BY <3>1, <3>2 DEF Held
  <2> QED BY <1>2, <2>1, <2>2, <2>3, Arrivals
<1>3. ASSUME pc'[c] = "erase"
      PROVE  Held(call[c].hash)' = {}
  <2>1. CASE BeginForget(c)
    <3>1. Held(call[c].hash) = {} /\ UNCHANGED <<call, blob>>
      BY <1>3, <2>1, ReturnStays DEF BeginForget, Goto, Control
    <3> QED BY <3>1 DEF Held
  <2>2. CASE RemoveBlob(c)
    <3>1. /\ Held(call[c].hash) \subseteq {call[c].ext} /\ UNCHANGED call
          /\ blob' = [blob EXCEPT ![<<call[c].hash, call[c].ext>>] = "none"]
      BY <2>2 DEF RemoveBlob, At, ForgetsAll
    <3>2. call[c].hash \in Hashes
      BY <1>0 DEF Calls
    <3>3. ASSUME NEW e \in Exts
          PROVE  blob'[<<call[c].hash, e>>] = "none"
      BY <3>1, <3>2 DEF Held, Data, Blobs
    <3> QED BY <3>1, <3>3 DEF Held
  <2> QED BY <1>3, <2>1, <2>2, Arrivals
<1> QED BY <1>1, <1>2, <1>3 DEF ForgetsAll, Inst

\* Every step.
LEMMA StepForgetsAll ==
    ASSUME SingleProcess, AllNamesValid, AtMostOneBlob, IInv, [Next]_vars,
           \A c \in Clients : ForgetsAll(c)
    PROVE  \A c \in Clients : ForgetsAll(c)'
<1> SUFFICES ASSUME NEW c \in Clients, pc'[c] \in Mutating
             PROVE  ForgetsAll(c)'
  BY DEF ForgetsAll, Mutating
<1>1. CASE \E d \in Clients : ClientStep(d)
  <2>1. PICK d \in Clients : ClientStep(d)
    BY <1>1
  <2>2. CASE d = c
    BY <2>1, <2>2, OwnStepForgetsAll
  <2>3. CASE d # c
    <3>1. /\ pc'[c] = pc[c] /\ call'[c] = call[c] /\ UNCHANGED <<disk, mem, blob>>
      BY <2>1, <2>3, Undisturbed
    <3> QED BY <3>1 DEF ForgetsAll, Held, Inst
  <2> QED BY <2>2, <2>3
<1>2. CASE \E p \in Procs : Crash(p)
  <2>1. PICK p \in Procs : Crash(p)
    BY <1>2
  <2>2. Proc(c) # p /\ pc'[c] = pc[c] /\ call'[c] = call[c] /\ UNCHANGED <<disk, blob>>
    BY <2>1 DEF Crash, Mutating
  <2>3. mem'[Inst(c)] = mem[Inst(c)]
    BY <2>1, <2>2, Places DEF Crash, Proc, Inst
  <2> QED BY <2>2, <2>3 DEF ForgetsAll, Held, Inst
<1>3. CASE \E i \in Insts : Reopen(i)
  <2>1. PICK i \in Insts : Reopen(i)
    BY <1>3
  <2>2. UNCHANGED <<pc, call, disk, blob>> /\ mem'[Inst(c)] = mem[Inst(c)]
    BY <2>1, Places DEF Reopen, Mutating, IInv, Data
  <2> QED BY <2>2 DEF ForgetsAll, Held, Inst
<1>4. CASE \/ \E f \in Folders, n \in Suggested, h \in Hashes \ {Torn} : UserAdds(f, n, h)
           \/ \E f \in Folders, n \in Names : UserRemoves(f, n)
           \/ UNCHANGED vars
  BY <1>4 DEF UserAdds, UserRemoves, vars, ForgetsAll, Held, Inst
<1> QED BY <1>1, <1>2, <1>3, <1>4 DEF Next

\* A record leaves the disk when its content is gone.
LEMMA NoRecordNoContent ==
    ASSUME IInv, \A c \in Clients : ForgetsAll(c), [Next]_vars,
           NEW h \in Hashes, disk[h] # NoRecord, disk'[h] = NoRecord
    PROVE  Held(h) = {}
<1>1. PICK c \in Clients : ClientStep(c)
  BY DEF Next, Crash, Reopen, UserAdds, UserRemoves, vars
<1>2. mem \in [Insts -> Indexes] /\ disk \in Indexes /\ Inst(c) \in Insts /\ mem[Inst(c)] \in Indexes
  BY Places DEF IInv, Data
<1>3. CASE Save(c)
  <2>1. disk' = [mem[Inst(c)] EXCEPT ![call[c].hash] = Updated(c)] /\ pc[c] = "save"
    BY <1>2, <1>3 DEF Save, At
  <2>2. Updated(c) # NoRecord
    BY <2>1, UpdatedTyped, NoRecordAssumption
  <2>3. mem[Inst(c)][h] # NoRecord
    BY <2>1 DEF ForgetsAll, Mutating
  <2> QED BY <1>2, <2>1, <2>2, <2>3 DEF Indexes
<1>4. CASE EraseRecord(c)
  <2>1. disk' = [mem[Inst(c)] EXCEPT ![call[c].hash] = NoRecord] /\ pc[c] = "erase"
    BY <1>2, <1>4 DEF EraseRecord, At
  <2>2. mem[Inst(c)][h] # NoRecord
    BY <2>1 DEF ForgetsAll, Mutating
  <2>3. h = call[c].hash
    BY <1>2, <2>1, <2>2 DEF Indexes
  <2> QED BY <2>1, <2>3 DEF ForgetsAll
<1> QED BY <1>1, <1>3, <1>4, DiskFrame

\* In one process, as long as no content lies under two extensions, a record leaves the disk
\* only once its content has: whichever writes and removals fail, whichever processes die
\* between the removal of the blob and the erasure, and however many instances share the index.
THEOREM ForgottenWithItsContent ==
    ASSUME SingleProcess, AllNamesValid
    PROVE  Spec /\ []AtMostOneBlob => ForgetLeavesNoContent
<1> DEFINE Ready == \A c \in Clients : ForgetsAll(c)
<1>1. Init => Ready
  BY DEF Init, ForgetsAll, Mutating
<1>2. IInv /\ AtMostOneBlob /\ Ready /\ [Next]_vars => Ready'
  BY StepForgetsAll
<1>3. ASSUME IInv, Ready, [Next]_vars
      PROVE  \A h \in Hashes : disk[h] # NoRecord /\ disk'[h] = NoRecord => Held(h) = {}
  BY <1>3, NoRecordNoContent
<1> HIDE DEF Ready
<1> QED BY <1>1, <1>2, <1>3, Invariance, PTL DEF Spec, ForgetLeavesNoContent

\* In particular where all names have one extension.
COROLLARY ForgottenWithOneExtension ==
    ASSUME SingleProcess, AllNamesValid, \A e, x \in Exts : e = x
    PROVE  Spec => ForgetLeavesNoContent
<1>1. AtMostOneBlob
  BY DEF AtMostOneBlob, Held
<1> QED BY <1>1, ForgottenWithItsContent, PTL

-----------------------------------------------------------------------------
(* The folders. *)

\* Where no write fails, a folder changes when Add links, Forget unlinks or an answer is made.
LEMMA FolderWriters ==
    ASSUME ~ IOFailures, NEW c \in Clients, ClientStep(c), friendly' # friendly
    PROVE  \/ LinkFriendly(c) \/ UnlinkFriendly(c)
           \/ (CreateAsset(c) \/ RestorePath(c)) /\ Materialize(c)
<1>1. CASE Invoke(c) \/ EnterReport(c) \/ ExitReport(c) \/ Acquire(c)
  BY <1>1 DEF Invoke, EnterReport, ExitReport, Acquire, BeginAdd, BeginSetMeta,
     BeginForget, Inspect, BeginResolve, BeginAssets, BeginPending
<1>2. CASE \/ CreateBlob(c) \/ FillBlob(c) \/ ChooseFriendly(c) \/ Save(c)
           \/ CheckFriendly(c) \/ RemoveBlob(c) \/ EraseRecord(c)
           \/ ProbeAsset(c) \/ ReadPath(c) \/ RereadPath(c) \/ ListFolder(c)
  BY <1>2 DEF CreateBlob, FillBlob, ChooseFriendly, Save, CheckFriendly, RemoveBlob, EraseRecord,
     ProbeAsset, ReadPath, RereadPath, ListFolder
<1>3. CASE Fail(c)
  BY <1>3 DEF Fail, FillBlobFails, LinkFriendlyFails, SaveFails, UnlinkFriendlyFails,
     RemoveBlobFails, EraseRecordFails, RestoreFails
<1>4. CASE CreateAsset(c) \/ RestorePath(c)
  BY <1>4 DEF CreateAsset, RestorePath
<1> QED BY <1>1, <1>2, <1>3, <1>4 DEF ClientStep, Proceed

\* What is made of a content at a name: a file of the extension the name has.
LEMMA MadeNamed ==
    ASSUME NEW h \in Hashes, NEW n \in Names, NEW copied \in Hashes, NEW file \in Made(h, n, copied)
    PROVE  file \in Files /\ file # NoFile /\ file.ext = ExtOf[n] /\ file.hash \in {h, copied}
<1>1. file \in Files
  BY FilesTyped
<1>2. file.ext = ExtOf[n] /\ file.hash \in {h, copied}
  BY DEF Made, Link, Plain
<1> QED BY <1>1, <1>2, NoFileAssumption

\* A friendly file has the extension its name has.
FilesNamed ==
    \A f \in Folders, n \in Names : friendly[f][n] # NoFile => friendly[f][n].ext = ExtOf[n]

\* Links, copies and the files people drop are all made under the extension of their name.
LEMMA FilesStayNamed ==
    ASSUME ~ IOFailures, IInv, FilesNamed, [Next]_vars
    PROVE  FilesNamed'
<1> SUFFICES ASSUME NEW f \in Folders, NEW n \in Names, friendly'[f][n] # NoFile,
                    friendly'[f][n] # friendly[f][n]
             PROVE  friendly'[f][n].ext = ExtOf[n]
  BY DEF FilesNamed
<1>0. friendly \in [Folders -> [Names -> Files \cup {NoFile}]]
  BY DEF IInv, Data
<1>1. CASE \E c \in Clients : ClientStep(c)
  <2>1. PICK c \in Clients : ClientStep(c)
    BY <1>1
  <2>2. call[c].hash \in Hashes /\ call[c].name \in Names /\ Folder(c) \in Folders
    BY Places DEF IInv, Control, Calls
  <2>3. BlobContent(call[c].hash, call[c].name) \in Hashes
    BY <2>2, StoreAssumption DEF BlobContent
  <2>4. CASE LinkFriendly(c)
    <3>1. PICK file \in Made(call[c].hash, call[c].name, call[c].hash) :
            friendly' = [friendly EXCEPT ![Folder(c)][call[c].name] = file]
      BY <2>4 DEF LinkFriendly, Refused
    <3>2. file.ext = ExtOf[call[c].name]
      BY <2>2, MadeNamed
    <3> QED BY <1>0, <2>2, <3>1, <3>2
  <2>5. CASE UnlinkFriendly(c)
    BY <1>0, <2>2, <2>5 DEF UnlinkFriendly
  <2>6. CASE Materialize(c)
    <3>1. PICK file \in Made(call[c].hash, call[c].name, BlobContent(call[c].hash, call[c].name)) :
            friendly' = [friendly EXCEPT ![Folder(c)][call[c].name] = file]
      BY <2>6 DEF Materialize
    <3>2. file.ext = ExtOf[call[c].name]
      BY <2>2, <2>3, MadeNamed
    <3> QED BY <1>0, <2>2, <3>1, <3>2
  <2> QED BY <2>1, <2>4, <2>5, <2>6, FolderWriters
<1>2. CASE \E g \in Folders, x \in Suggested, h \in Hashes \ {Torn} : UserAdds(g, x, h)
  <2>1. PICK g \in Folders, x \in Suggested, h \in Hashes \ {Torn} : UserAdds(g, x, h)
    BY <1>2
  <2>2. friendly' = [friendly EXCEPT ![g][x] = Plain(h, ExtOf[x])] /\ Plain(h, ExtOf[x]).ext = ExtOf[x]
    BY <2>1 DEF UserAdds, Plain
  <2> QED BY <1>0, <2>2, StoreAssumption
<1>3. CASE \E g \in Folders, x \in Names : UserRemoves(g, x)
  BY <1>0, <1>3 DEF UserRemoves
<1>4. CASE \/ \E p \in Procs : Crash(p)
           \/ \E i \in Insts : Reopen(i)
           \/ UNCHANGED vars
  BY <1>4 DEF Crash, Reopen, vars
<1> QED BY <1>1, <1>2, <1>3, <1>4 DEF Next

-----------------------------------------------------------------------------
(* What is recorded is whole. *)

\* Until it chose a friendly name, an Add goes by the name its caller suggested.
NameSuggested(c) ==
    /\ call[c].op = "Associate" => call[c].name \in Suggested
    /\ call[c].op \in {"Add", "Put"} /\ pc[c] \in {"lock", "blob", "writing", "choose"}
          => call[c].name \in Suggested
    /\ pc[c] = "list" => call[c].op = "Pending"

\* A call that is over asks for nothing, and one that goes on to another file stores nothing.
LEMMA EndsUnnamed ==
    ASSUME Control, NEW c \in Clients,
           \/ Return(c)
           \/ NextVisit(c) /\ call[c].op \in {"Resolve", "Assets", "Pending"}
    PROVE  NameSuggested(c)'
<1>1. CASE Return(c)
  <2>1. call'[c].op = "Inspect"
    BY <1>1, BlankTyped DEF Return, Control
  <2> QED BY <1>1, <2>1, ReturnStays DEF NameSuggested
<1>2. CASE /\ call[c].op \in {"Resolve", "Assets", "Pending"} /\ NextVisit(c)
           /\ \E x \in todo[c] : call' = [call EXCEPT ![c].hash = x[1], ![c].name = x[2]]
  <2>1. call'[c].op = call[c].op
    BY <1>2 DEF Control, Calls
  <2> QED BY <1>2, <2>1, NextVisitStays DEF NameSuggested
<1> QED BY <1>1, <1>2 DEF NextVisit

\* A read that is done keeps the name it was called with, or needs none.
LEMMA ReadKeepsName ==
    ASSUME Control, NEW c \in Clients, NameSuggested(c), NEW content \in SUBSET Hashes,
           ReadDone(c, content)
    PROVE  NameSuggested(c)'
<1>1. CASE Return(c)
  BY <1>1, EndsUnnamed
<1>2. CASE NextVisit(c) /\ call[c].op \in {"Resolve", "Assets", "Pending"}
  BY <1>2, EndsUnnamed
<1>3. CASE call[c].op = "Lookup" /\ UNCHANGED call /\ Goto(c, "lock")
  BY <1>3 DEF NameSuggested, Control, Goto
<1>4. CASE /\ call[c].op = "Associate" /\ Goto(c, "lock")
           /\ \E h \in content : call' = [call EXCEPT ![c].op = "Add", ![c].hash = h]
  <2>1. call'[c].name = call[c].name /\ call'[c].op = "Add"
    BY <1>4 DEF Control, Calls
  <2> QED BY <1>4, <2>1 DEF NameSuggested, Control, Goto
<1> QED BY <1>1, <1>2, <1>3, <1>4 DEF ReadDone

\* A client's own steps keep the name suggested.
LEMMA OwnStepKeepsName ==
    ASSUME ~ IOFailures, IInv, NEW c \in Clients, NameSuggested(c), ClientStep(c)
    PROVE  NameSuggested(c)'
<1> USE DEF IInv
<1>0. call[c] \in Calls /\ Placed(c) /\ Folder(c) \in Folders
  BY Places DEF Control
<1>1. ASSUME Return(c) PROVE NameSuggested(c)'
  BY <1>1, EndsUnnamed
<1>2. ASSUME UNCHANGED call, NEW there \in Locations \ {"lock", "blob", "writing", "choose", "list"}, Goto(c, there)
      PROVE  NameSuggested(c)'
  BY <1>2 DEF Control, Goto, NameSuggested
<1>3. CASE Invoke(c)
  <2>1. PICK r \in Requests : call' = [call EXCEPT ![c] = r]
    BY <1>3 DEF Invoke
  <2>2. call'[c] = r /\ pc'[c] # "list"
    BY <1>3, <2>1 DEF Invoke, Goto, Control
  <2> QED BY <2>1, <2>2 DEF Requests, NameSuggested
<1>4. CASE EnterReport(c) \/ ExitReport(c)
  BY <1>4 DEF EnterReport, ExitReport, NameSuggested, At
<1>5. CASE BeginAdd(c) \/ CreateBlob(c) \/ FillBlob(c)
  BY <1>5 DEF BeginAdd, CreateBlob, FillBlob, LockAndReload, At, NameSuggested, Goto, Control
<1>6. CASE BeginSetMeta(c)
  BY <1>1, <1>2, <1>6 DEF BeginSetMeta, Locations
<1>7. CASE BeginForget(c)
  <2>1. CASE UNCHANGED call /\ Goto(c, "erase")
    BY <1>2, <2>1 DEF Locations
  <2>2. CASE call[c].op = "Forget" /\ Goto(c, "unlink") /\ \E e : call' = [call EXCEPT ![c].ext = e]
    <3>1. call'[c].op = "Forget" /\ pc'[c] = "unlink"
      BY <1>0, <2>2 DEF Control, Calls, Goto
    <3> QED BY <3>1 DEF NameSuggested
  <2> QED BY <1>1, <1>7, <2>1, <2>2 DEF BeginForget
<1>8. CASE Inspect(c) \/ BeginPending(c)
  BY <1>1, <1>8 DEF Inspect, BeginPending, Goto, Control, NameSuggested
<1>9. CASE BeginResolve(c) \/ BeginAssets(c)
  <2>1. CASE Goto(c, "asset") /\ \E h, n : call' = [call EXCEPT ![c].hash = h, ![c].name = n]
    <3>1. PICK h, n : call' = [call EXCEPT ![c].hash = h, ![c].name = n]
      BY <2>1
    <3>2. call'[c].op = call[c].op
      BY <1>0, <3>1 DEF Control, Calls
    <3>3. call[c].op \in {"Resolve", "Assets"}
      BY <1>9 DEF BeginResolve, BeginAssets
    <3>4. pc'[c] = "asset"
      BY <2>1 DEF Goto, Control
    <3> QED BY <3>2, <3>3, <3>4 DEF NameSuggested
  <2>2. CASE Return(c)
    BY <1>1, <2>2
  <2> QED BY <1>9, <2>1, <2>2 DEF BeginResolve, BeginAssets
<1>10. CASE ChooseFriendly(c)
  <2>1. PICK n : call' = [call EXCEPT ![c].name = n]
    BY <1>10 DEF ChooseFriendly
  <2>2. pc'[c] \in {"save", "link"}
    BY <1>10 DEF ChooseFriendly, Goto, Control
  <2>3. call'[c].op = call[c].op /\ call[c].op \in {"Add", "Put"}
    BY <1>0, <1>10, <2>1 DEF ChooseFriendly, At, Control, Calls, Placed
  <2> QED BY <2>2, <2>3 DEF NameSuggested
<1>18. CASE CheckFriendly(c)
  <2>1. call'[c].op = "Forget"
    BY <1>0, <1>18 DEF CheckFriendly, At, Placed, Control, Calls
  <2>2. pc'[c] # "list"
    BY <1>18 DEF CheckFriendly, Goto, Control
  <2> QED BY <2>1, <2>2 DEF NameSuggested
<1>11. CASE LinkFriendly(c) \/ Save(c) \/ UnlinkFriendly(c) \/ RemoveBlob(c) \/ EraseRecord(c)
  BY <1>1, <1>2, <1>11 DEF LinkFriendly, Refused, Save, UnlinkFriendly, RemoveBlob, EraseRecord, Locations
<1>12. CASE ProbeAsset(c) \/ CreateAsset(c)
  <2>1. call[c].op \in {"Resolve", "Assets"}
    BY <1>0, <1>12 DEF ProbeAsset, CreateAsset, At, Placed
  <2>2. CASE NextVisit(c)
    BY <2>1, <2>2, EndsUnnamed
  <2> QED BY <1>2, <1>12, <2>2 DEF ProbeAsset, CreateAsset, Locations
<1>13. CASE ReadPath(c)
  <2>1. CASE \E content \in SUBSET Hashes : ReadDone(c, content)
    BY <2>1, ReadKeepsName
  <2>2. CASE Goto(c, "restore") /\ \E h \in Hashes : call' = [call EXCEPT ![c].hash = h]
    <3>1. call'[c].op = call[c].op /\ call'[c].name = call[c].name /\ pc'[c] = "restore"
      BY <1>0, <2>2 DEF Control, Calls, Goto
    <3> QED BY <3>1 DEF NameSuggested
  <2>3. ContentAt(c, call[c].name) \in SUBSET Hashes
    BY <1>0, ContentTyped DEF Calls
  <2>4. \A h \in BlobsForName(call[c].name) : {BlobContent(h, call[c].name)} \in SUBSET Hashes
    BY StoreAssumption DEF BlobsForName, BlobContent
  <2>5. BlobsForName(call[c].name) \subseteq Hashes
    BY DEF BlobsForName
  <2> QED BY <1>13, <2>1, <2>2, <2>3, <2>4, <2>5 DEF ReadPath
<1>14. CASE RestorePath(c) \/ RereadPath(c)
  <2>1. CASE \E content \in SUBSET Hashes : ReadDone(c, content)
    BY <2>1, ReadKeepsName
  <2>2. ContentAt(c, call[c].name) \in SUBSET Hashes
    BY <1>0, ContentTyped DEF Calls
  <2> QED BY <1>2, <1>14, <2>1, <2>2 DEF RestorePath, RereadPath, Locations
<1>15. CASE ListFolder(c)
  <2>1. CASE Goto(c, "read") /\ \E n : call' = [call EXCEPT ![c].name = n]
    <3>1. PICK n : call' = [call EXCEPT ![c].name = n]
      BY <2>1
    <3>2. call'[c].op = call[c].op /\ pc'[c] = "read"
      BY <1>0, <2>1, <3>1 DEF Control, Calls, Goto
    <3>3. call[c].op = "Pending"
      BY <1>15 DEF ListFolder, At, NameSuggested
    <3> QED BY <3>2, <3>3 DEF NameSuggested
  <2> QED BY <1>1, <1>15, <2>1 DEF ListFolder
<1>16. CASE UnlinkFriendlyFails(c) \/ RestoreFails(c)
  BY <1>16 DEF UnlinkFriendlyFails, RestoreFails
<1>17. CASE \/ FillBlobFails(c) \/ LinkFriendlyFails(c) \/ SaveFails(c)
            \/ RemoveBlobFails(c) \/ EraseRecordFails(c)
  BY <1>17 DEF FillBlobFails, LinkFriendlyFails, SaveFails, RemoveBlobFails, EraseRecordFails
<1> QED BY <1>3, <1>4, <1>5, <1>6, <1>7, <1>8, <1>9, <1>10, <1>11, <1>12, <1>13, <1>14, <1>15,
           <1>16, <1>17, <1>18 DEF ClientStep, Acquire, Proceed, Fail

\* The blob an Add stores its content in.
OwnBlob(c) == BlobFor(call[c].hash, call[c].name)

\* A blob is half-written while its Add writes it, and whole from then until it is recorded.
BlobKept(c) ==
    /\ pc[c] = "writing" => blob[OwnBlob(c)] = "torn"
    /\ pc[c] \in {"choose", "link"} => blob[OwnBlob(c)] = "whole"
    /\ pc[c] = "save" /\ call[c].op # "SetMeta" => blob[OwnBlob(c)] = "whole"

TornWhileWriting ==
    \A b \in Blobs : blob[b] = "torn" => \E c \in Clients : pc[c] = "writing" /\ b = OwnBlob(c)

\* What Add and Put have when they record: FilesNamed, for the links they adopt by name, the
\* suggested name, whose candidates share its extension, and the blob.
Stores ==
    /\ FilesNamed
    /\ \A c \in Clients : NameSuggested(c) /\ BlobKept(c)
    /\ TornWhileWriting

\* The friendly name a call settles on leads to the blob it wrote.
LEMMA ChosenLeadsHome ==
    ASSUME IInv, FilesNamed, NEW c \in Clients, NameSuggested(c), ChooseFriendly(c)
    PROVE  call'[c].hash = call[c].hash /\ OwnBlob(c)' = OwnBlob(c)
<1> DEFINE b == OwnBlob(c)
           known == mem[Inst(c)][call[c].hash]
<1>0. call[c] \in Calls /\ Placed(c) /\ call \in [Clients -> Calls] /\ pc[c] = "choose"
  BY DEF IInv, Control, ChooseFriendly, At
<1>1. CASE /\ known # NoRecord /\ Matches(c, known.name, b)
           /\ call' = [call EXCEPT ![c].name = known.name]
  <2>1. known \in Records /\ known.name \in Names /\ Folder(c) \in Folders
    BY <1>0, <1>1, Places DEF IInv, Data, Indexes, Records, Calls
  <2>2. FileOf(c, known.name) = Link(call[c].hash, ExtOf[call[c].name])
    BY <1>1 DEF Matches, OwnBlob, BlobFor
  <2>3. Link(call[c].hash, ExtOf[call[c].name]) # NoFile
    BY <1>0, FilesTyped, NoFileAssumption DEF Calls
  <2>4. ExtOf[known.name] = ExtOf[call[c].name]
    BY <2>1, <2>2, <2>3 DEF FilesNamed, FileOf, Link
  <2>5. call'[c].hash = call[c].hash /\ call'[c].name = known.name
    BY <1>0, <1>1 DEF Calls
  <2> QED BY <2>4, <2>5 DEF OwnBlob, BlobFor
<1>2. CASE \E n \in Names : Chosen(c, b, n) /\ call' = [call EXCEPT ![c].name = n]
  <2>1. PICK n \in Names : Chosen(c, b, n) /\ call' = [call EXCEPT ![c].name = n]
    BY <1>2
  <2>2. call[c].name \in Suggested
    BY <1>0 DEF NameSuggested, Placed
  <2>3. ExtOf[n] = ExtOf[call[c].name]
    BY <2>1, <2>2, StoreAssumption DEF Chosen
  <2>4. call'[c].hash = call[c].hash /\ call'[c].name = n
    BY <1>0, <2>1 DEF Calls
  <2> QED BY <2>3, <2>4 DEF OwnBlob, BlobFor
<1> QED BY <1>1, <1>2 DEF ChooseFriendly, OwnBlob

\* A client's own steps keep its blob.
LEMMA OwnStepKeepsBlob ==
    ASSUME SingleProcess, IInv, Stores, NEW c \in Clients, ClientStep(c), pc'[c] \in Mutating
    PROVE  BlobKept(c)'
<1> USE DEF IInv, Stores
<1>0. call[c] \in Calls /\ call \in [Clients -> Calls] /\ pc \in [Clients -> Locations]
      /\ OwnBlob(c) \in Blobs /\ blob \in [Blobs -> BlobStates]
  BY BlobForTyped DEF Control, Data, Calls, OwnBlob
<1>1. CASE pc'[c] \in {"blob", "unlink", "drop", "remove", "erase"}
  BY <1>1 DEF BlobKept
<1>2. CASE CreateBlob(c)
  <2>1. OwnBlob(c)' = OwnBlob(c) /\ pc[c] = "blob"
    BY <1>2 DEF CreateBlob, At, OwnBlob
  <2>2. CASE blob[OwnBlob(c)] # "none"
    <3>1. pc'[c] = "choose" /\ UNCHANGED blob
      BY <1>0, <1>2, <2>2 DEF CreateBlob, Present, OwnBlob, Goto
    <3>2. blob[OwnBlob(c)] # "torn"
      <4>1. SUFFICES ASSUME NEW d \in Clients, pc[d] = "writing" PROVE FALSE
        BY <1>0 DEF TornWhileWriting
      <4>2. d = c
        BY <2>1, <4>1, OneMutator DEF Mutating
      <4> QED BY <2>1, <4>1, <4>2
    <3>3. blob[OwnBlob(c)] = "whole"
      BY <1>0, <2>2, <3>2 DEF BlobStates
    <3> QED BY <2>1, <3>1, <3>3 DEF BlobKept
  <2>3. CASE blob[OwnBlob(c)] = "none"
    <3>1. pc'[c] = "writing" /\ blob' = [blob EXCEPT ![OwnBlob(c)] = "torn"]
      BY <1>0, <1>2, <2>3 DEF CreateBlob, Present, OwnBlob, Goto
    <3> QED BY <1>0, <2>1, <3>1 DEF BlobKept
  <2> QED BY <2>2, <2>3
<1>3. CASE FillBlob(c)
  <2>1. OwnBlob(c)' = OwnBlob(c) /\ pc[c] = "writing" /\ pc'[c] = "choose"
    BY <1>0, <1>3 DEF FillBlob, At, OwnBlob, Goto
  <2>2. blob[OwnBlob(c)] = "torn"
    BY <2>1 DEF BlobKept
  <2>3. blob' = [blob EXCEPT ![OwnBlob(c)] = "whole"]
    BY <1>3, <2>2 DEF FillBlob, OwnBlob
  <2> QED BY <1>0, <2>1, <2>3 DEF BlobKept
<1>4. CASE ChooseFriendly(c)
  <2>1. OwnBlob(c)' = OwnBlob(c)
    BY <1>4, ChosenLeadsHome
  <2>2. pc[c] = "choose" /\ UNCHANGED blob /\ pc'[c] \in {"save", "link"}
    BY <1>0, <1>4 DEF ChooseFriendly, At, Goto
  <2> QED BY <2>1, <2>2 DEF BlobKept
<1>5. CASE LinkFriendly(c) /\ pc'[c] = "save" /\ FileOf(c, call[c].name) = NoFile
  BY <1>5 DEF LinkFriendly, At, BlobKept, OwnBlob
<1>6. CASE BeginSetMeta(c) /\ pc'[c] = "save"
  <2>1. UNCHANGED call /\ call[c].op = "SetMeta"
    BY <1>6, ReturnStays DEF BeginSetMeta
  <2> QED BY <1>6, <2>1 DEF BlobKept
<1> QED BY <1>1, <1>2, <1>3, <1>4, <1>5, <1>6, Arrivals

\* A blob is left half-written by no step.
LEMMA StepLeavesNoneTorn ==
    ASSUME SingleProcess, ~ IOFailures, IInv, Stores, NEW c \in Clients, ClientStep(c)
    PROVE  TornWhileWriting'
<1> USE DEF IInv, Stores
<1> SUFFICES ASSUME NEW b \in Blobs, blob'[b] = "torn"
             PROVE  \E d \in Clients : pc'[d] = "writing" /\ b = OwnBlob(d)'
  BY DEF TornWhileWriting
<1>0. /\ call[c] \in Calls /\ pc \in [Clients -> Locations] /\ OwnBlob(c) \in Blobs
      /\ blob \in [Blobs -> BlobStates]
  BY BlobForTyped DEF Control, Data, Calls, OwnBlob
<1>1. CASE blob[b] # "torn"
  <2>1. CreateBlob(c) \/ FillBlob(c) \/ RemoveBlob(c)
    BY <1>1, BlobFrame
  <2>2. CASE CreateBlob(c)
    <3>1. blob' # blob /\ UNCHANGED call
      BY <1>1, <2>2 DEF CreateBlob
    <3>2. blob' = [blob EXCEPT ![OwnBlob(c)] = "torn"] /\ pc'[c] = "writing"
      BY <1>0, <2>2, <3>1 DEF CreateBlob, OwnBlob, Goto
    <3>3. b = OwnBlob(c)
      BY <1>0, <1>1, <3>2
    <3> QED BY <3>1, <3>2, <3>3 DEF OwnBlob
  <2>3. CASE FillBlob(c) \/ RemoveBlob(c)
    BY <1>0, <1>1, <2>3 DEF FillBlob, RemoveBlob
  <2> QED BY <2>1, <2>2, <2>3
<1>2. CASE blob[b] = "torn"
  <2>1. PICK d \in Clients : pc[d] = "writing" /\ b = OwnBlob(d)
    BY <1>2 DEF TornWhileWriting
  <2>2. CASE d # c
    <3>1. pc'[d] = pc[d] /\ call'[d] = call[d]
      BY <2>2, ClientStepKeepsInv DEF OthersStay
    <3> QED BY <2>1, <3>1 DEF OwnBlob
  <2>3. CASE d = c
    <3>1. FillBlob(c)
      BY <2>1, <2>3, Departures DEF FillBlobFails, Mutating
    <3>2. blob' = [blob EXCEPT ![b] = "whole"]
      BY <1>2, <2>1, <2>3, <3>1 DEF FillBlob, OwnBlob
    <3> QED BY <1>0, <3>2
  <2> QED BY <2>2, <2>3
<1> QED BY <1>1, <1>2

\* Every step keeps what a store under way relies on.
LEMMA StepKeepsStores ==
    ASSUME SingleProcess, ~ IOFailures, ~ Crashes, IInv, Stores, [Next]_vars
    PROVE  Stores'
<1>1. FilesNamed'
  BY FilesStayNamed DEF Stores
<1>2. CASE \E c \in Clients : ClientStep(c)
  <2>1. PICK c \in Clients : ClientStep(c)
    BY <1>2
  <2>2. OthersStay(c)
    BY <2>1, ClientStepKeepsInv
  <2>3. ASSUME NEW d \in Clients
        PROVE  NameSuggested(d)'
    <3>1. CASE d = c
      BY <2>1, <3>1, OwnStepKeepsName DEF Stores
    <3>2. CASE d # c
      BY <2>2, <3>2 DEF OthersStay, Stores, NameSuggested
    <3> QED BY <3>1, <3>2
  <2>4. ASSUME NEW d \in Clients
        PROVE  BlobKept(d)'
    <3> SUFFICES ASSUME pc'[d] \in Mutating PROVE BlobKept(d)'
      BY DEF BlobKept, Mutating
    <3>1. CASE d = c
      BY <2>1, <3>1, OwnStepKeepsBlob
    <3>2. CASE d # c
      <4>1. pc'[d] = pc[d] /\ call'[d] = call[d] /\ UNCHANGED blob
        BY <2>1, <3>2, Undisturbed
      <4> QED BY <4>1 DEF Stores, BlobKept, OwnBlob
    <3> QED BY <3>1, <3>2
  <2>5. TornWhileWriting'
    BY <2>1, StepLeavesNoneTorn
  <2> QED BY <1>1, <2>3, <2>4, <2>5 DEF Stores
<1>3. CASE \/ \E p \in Procs : Crash(p)
           \/ \E i \in Insts : Reopen(i)
           \/ \E f \in Folders, n \in Suggested, h \in Hashes \ {Torn} : UserAdds(f, n, h)
           \/ \E f \in Folders, n \in Names : UserRemoves(f, n)
           \/ UNCHANGED vars
  <2>1. UNCHANGED <<pc, call, blob>>
    BY <1>3 DEF Crash, Reopen, UserAdds, UserRemoves, vars
  <2> QED BY <1>1, <2>1 DEF Stores, NameSuggested, BlobKept, TornWhileWriting, OwnBlob
<1> QED BY <1>2, <1>3 DEF Next

\* In one process whose writes succeed and which does not die, the blob a recorded name leads
\* to is whole when it is recorded, whoever else reads, makes and removes friendly files; a
\* write that fails half way leaves one that is not, as the run store_retry shows.
THEOREM RecordedWhole ==
    ASSUME SingleProcess, ~ IOFailures, ~ Crashes
    PROVE  Spec => SavedContentIsWhole
<1>1. Init => Stores
  BY BlankTyped DEF Init, Stores, FilesNamed, NameSuggested, BlobKept, TornWhileWriting
<1>2. IInv /\ Stores /\ [Next]_vars => Stores'
  BY StepKeepsStores
<1>3. ASSUME IInv, Stores, [Next]_vars, NEW c \in Clients, At(c, "save"), pc'[c] = "read"
      PROVE  blob[BlobFor(call[c].hash, call[c].name)] = "whole"
  <2>1. CASE call[c].op # "SetMeta"
    BY <1>3, <2>1 DEF Stores, BlobKept, OwnBlob, At
  <2>2. CASE call[c].op = "SetMeta"
    <3>1. PICK d \in Clients : ClientStep(d)
      BY <1>3 DEF Next, Crash, Reopen, UserAdds, UserRemoves, vars, At
    <3>2. d = c
      BY <1>3, <3>1, ClientStepKeepsInv DEF OthersStay, At
    <3>3. Save(c) \/ SaveFails(c)
      BY <1>3, <3>1, <3>2, Departures DEF At, Mutating
    <3>4. pc'[c] = "idle"
      BY <1>3, <2>2, <3>3, ReturnStays DEF Save, SaveFails, IInv
    <3> QED BY <1>3, <3>4
  <2> QED BY <2>1, <2>2
<1>4. ASSUME IInv, Stores, [Next]_vars
      PROVE  \A c \in Clients : (At(c, "save") /\ pc'[c] = "read")
                => blob[BlobFor(call[c].hash, call[c].name)] = "whole"
  BY <1>3, <1>4
<1> QED BY <1>1, <1>2, <1>4, Invariance, PTL DEF Spec, SavedContentIsWhole

-----------------------------------------------------------------------------
(* What is answered is what was asked for. *)

\* What lies at the name, in the client's folder, is the content.
Shows(c, n, h) == FileOf(c, n) # NoFile /\ FileOf(c, n).hash = h

\* An Add about to record a name has a file of its content there.
AddShows(c) ==
    pc[c] = "save" /\ call[c].op \in {"Add", "Put"} => Shows(c, call[c].name, call[c].hash)

\* A record names a file of its content, until a Forget has begun to take both away.
RecordsShow ==
    \A c \in Clients, h \in Hashes :
        disk[h] # NoRecord /\ ~ BeingForgotten(h) => Shows(c, disk[h].name, h)

Showing == RecordsShow /\ \A c \in Clients : AddShows(c)

\* One instance has one folder, and one mutation at a time.
LEMMA OneOfEach ==
    ASSUME OneInstance
    PROVE  /\ SingleProcess
           /\ \A c, d \in Clients : Inst(c) = Inst(d) /\ Folder(c) = Folder(d)
  BY Places DEF OneInstance, SingleProcess, Folder, Inst

\* What a step takes out of the folder: the link to the blob its Forget is about to remove.
LEMMA FilesGo ==
    ASSUME IInv, DropsItsLink, NEW c \in Clients, ClientStep(c), NEW f \in Folders, NEW n \in Names,
           friendly[f][n] # NoFile, friendly'[f][n] # friendly[f][n]
    PROVE  UnlinkFriendly(c) /\ friendly[f][n].hash = call[c].hash
<1>0. friendly \in [Folders -> [Names -> Files \cup {NoFile}]] /\ Folder(c) \in Folders
  BY Places DEF IInv, Data
<1>1. CASE \E x \in Names, file \in Files :
             /\ FileOf(c, x) = NoFile
             /\ friendly' = [friendly EXCEPT ![Folder(c)][x] = file]
  BY <1>0, <1>1 DEF FileOf
<1>2. CASE /\ pc[c] = "drop"
           /\ friendly' = [friendly EXCEPT ![Folder(c)][call[c].name] = NoFile]
  <2>1. f = Folder(c) /\ n = call[c].name
    BY <1>0, <1>2
  <2>2. friendly[f][n].hash = call[c].hash
    <3>1. FileOf(c, call[c].name) = Link(call[c].hash, call[c].ext)
      BY <1>2 DEF DropsItsLink
    <3>2. Link(call[c].hash, call[c].ext).hash = call[c].hash
      BY DEF Link
    <3> QED BY <2>1, <3>1, <3>2 DEF FileOf
  <2>3. UnlinkFriendly(c)
    BY <1>2, Departures DEF UnlinkFriendlyFails, Mutating
  <2> QED BY <2>2, <2>3
<1> QED BY <1>1, <1>2, FolderStep DEF FolderFrame

\* A client's own steps bring an Add to its save with its file in place.
LEMMA OwnStepShows ==
    ASSUME IInv, NEW c \in Clients, ClientStep(c),
           pc'[c] = "save", call'[c].op \in {"Add", "Put"}
    PROVE  Shows(c, call[c].name, call[c].hash)'
<1> USE DEF IInv
<1> DEFINE b == BlobFor(call[c].hash, call[c].name)
           known == mem[Inst(c)][call[c].hash]
<1>0. /\ call[c] \in Calls /\ call \in [Clients -> Calls]
      /\ friendly \in [Folders -> [Names -> Files \cup {NoFile}]] /\ Folder(c) \in Folders
  BY Places DEF Control, Data
<1>1. CASE ChooseFriendly(c)
  <2>1. UNCHANGED friendly
    BY <1>1 DEF ChooseFriendly
  <2>2. ASSUME NEW n, call' = [call EXCEPT ![c].name = n], Adopts(c, n, b)
        PROVE  Shows(c, call[c].name, call[c].hash)'
    <3>1. call'[c].hash = call[c].hash /\ call'[c].name = n
      BY <1>0, <2>2 DEF Calls
    <3>2. Link(call[c].hash, ExtOf[call[c].name]) # NoFile
      BY <1>0, FilesTyped, NoFileAssumption DEF Calls
    <3>3. FileOf(c, n) # NoFile /\ FileOf(c, n).hash = call[c].hash
      BY <2>2, <3>2 DEF Adopts, Matches, BlobFor, Link
    <3> QED BY <2>1, <3>1, <3>3 DEF Shows, FileOf
  <2>3. CASE known # NoRecord /\ Matches(c, known.name, b) /\ call' = [call EXCEPT ![c].name = known.name]
    BY <2>2, <2>3 DEF Adopts
  <2>4. CASE \E n \in Names :
               /\ call' = [call EXCEPT ![c].name = n]
               /\ Goto(c, IF Adopts(c, n, b) THEN "save" ELSE "link")
    <3>1. PICK n \in Names :
               /\ call' = [call EXCEPT ![c].name = n]
               /\ Goto(c, IF Adopts(c, n, b) THEN "save" ELSE "link")
      BY <2>4
    <3>2. Adopts(c, n, b)
      BY <3>1 DEF Goto, Control
    <3> QED BY <2>2, <3>1, <3>2
  <2> QED BY <1>1, <2>3, <2>4 DEF ChooseFriendly
<1>2. CASE LinkFriendly(c) /\ FileOf(c, call[c].name) = NoFile
  <2>1. PICK file \in Made(call[c].hash, call[c].name, call[c].hash) :
          friendly' = [friendly EXCEPT ![Folder(c)][call[c].name] = file]
    BY <1>2 DEF LinkFriendly
  <2>2. file # NoFile /\ file.hash = call[c].hash
    BY <1>0, MadeNamed DEF Calls
  <2>3. UNCHANGED call /\ call[c].name \in Names
    BY <1>0, <1>2 DEF LinkFriendly, Calls
  <2> QED BY <1>0, <2>1, <2>2, <2>3 DEF Shows, FileOf, Folder
<1>3. CASE BeginSetMeta(c)
  <2>1. call[c].op = "SetMeta" /\ UNCHANGED call
    BY <1>3, ReturnStays DEF BeginSetMeta
  <2> QED BY <2>1
<1> QED BY <1>1, <1>2, <1>3, Arrivals DEF Mutating

\* A record that is being forgotten stays so until it is erased.
LEMMA ForgettingEnds ==
    ASSUME ~ IOFailures, IInv, NEW c \in Clients, ClientStep(c), ~ EraseRecord(c), NEW h,
           BeingForgotten(h)
    PROVE  BeingForgotten(h)'
<1> USE DEF IInv
<1>1. PICK d \in Clients : pc[d] \in {"remove", "erase"} /\ call[d].hash = h
  BY DEF BeingForgotten
<1>2. CASE d # c
  <2>1. pc'[d] = pc[d] /\ call'[d] = call[d]
    BY <1>2, ClientStepKeepsInv DEF OthersStay
  <2> QED BY <1>1, <2>1 DEF BeingForgotten
<1>3. CASE d = c
  <2>1. RemoveBlob(c)
    BY <1>1, <1>3, Departures DEF RemoveBlobFails, EraseRecordFails, Mutating
  <2>2. pc'[c] = "erase" /\ UNCHANGED call
    BY <2>1 DEF RemoveBlob, Goto, Control
  <2> QED BY <1>1, <1>3, <2>2 DEF BeingForgotten
<1> QED BY <1>2, <1>3

\* Records keep their files.
LEMMA StepKeepsRecordsShown ==
    ASSUME OneInstance, ~ IOFailures, IInv, DropsItsLink, IndexInMemory, Showing,
           NEW c \in Clients, ClientStep(c)
    PROVE  RecordsShow'
<1> USE DEF IInv, Showing
<1> SUFFICES ASSUME NEW d \in Clients, NEW h \in Hashes, disk'[h] # NoRecord, ~ BeingForgotten(h)'
             PROVE  Shows(d, disk[h].name, h)'
  BY DEF RecordsShow
<1>0. /\ disk \in Indexes /\ disk' \in Indexes /\ IInv' /\ Folder(d) \in Folders
      /\ call[c].hash \in Hashes /\ call[c].name \in Names /\ mem[Inst(c)] = disk
  BY ClientStepKeepsInv, Places, IndexWrites DEF Data, Control, Calls
<1>1. ASSUME disk[h] # NoRecord, ~ BeingForgotten(h), disk'[h].name = disk[h].name
      PROVE  Shows(d, disk[h].name, h)'
  <2> DEFINE n == disk[h].name
  <2>1. Shows(d, n, h) /\ n \in Names
    BY <1>0, <1>1 DEF RecordsShow, Indexes, Records
  <2>2. friendly'[Folder(d)][n] = friendly[Folder(d)][n]
    <3> SUFFICES ASSUME friendly'[Folder(d)][n] # friendly[Folder(d)][n] PROVE FALSE
      OBVIOUS
    <3>1. UnlinkFriendly(c) /\ call[c].hash = h
      BY <1>0, <2>1, FilesGo DEF Shows, FileOf
    <3>2. pc'[c] = "remove" /\ UNCHANGED call
      BY <3>1 DEF UnlinkFriendly, Goto, Control
    <3> QED BY <3>1, <3>2 DEF BeingForgotten
  <2> HIDE DEF n
  <2>3. Shows(d, n, h) /\ friendly'[Folder(d)][n] = friendly[Folder(d)][n] /\ disk'[h].name = n
    BY <1>1, <2>1, <2>2 DEF n
  <2> QED BY <2>3 DEF Shows, FileOf, Folder
<1>2. CASE Save(c)
  <2>1. disk' = [disk EXCEPT ![call[c].hash] = Updated(c)] /\ pc[c] = "save" /\ UNCHANGED friendly
    BY <1>2, IndexWrites DEF Save, At
  <2>2. CASE h = call[c].hash /\ call[c].op \in {"Add", "Put"}
    <3>1. disk'[h] = Updated(c)
      BY <1>0, <2>1, <2>2 DEF Indexes
    <3>2. Updated(c).name = call[c].name
      <4> DEFINE r == Stored(disk[h], call[c].name)
      <4>1. r \in Records /\ r.name = call[c].name
        BY <1>0, StoredTyped DEF Indexes
      <4>2. Updated(c) = r \/ Updated(c) = WithID(r, call[c].id, call[c].scope)
        BY <1>0, <2>2 DEF Updated
      <4> QED BY <4>1, <4>2 DEF WithID, Records
    <3>3. Shows(c, call[c].name, h)
      BY <2>1, <2>2 DEF AddShows
    <3>4. Folder(d) = Folder(c) /\ disk'[h].name = call[c].name
      BY <3>1, <3>2, OneOfEach
    <3> QED BY <2>1, <3>3, <3>4 DEF Shows, FileOf, Folder
  <2>3. CASE h = call[c].hash /\ call[c].op = "SetMeta"
    <3>1. disk[h] # NoRecord
      BY <1>0, <2>1, <2>3 DEF RecordBehindSetMeta
    <3>2. disk'[h] = [disk[h] EXCEPT !.meta[call[c].ns] = call[c].val]
      BY <1>0, <2>1, <2>3 DEF Indexes, Updated
    <3>3. disk'[h].name = disk[h].name
      BY <1>0, <3>1, <3>2 DEF Indexes, Records
    <3>4. ~ BeingForgotten(h)
      BY <1>2, ForgettingEnds DEF Save, EraseRecord, At
    <3> QED BY <1>1, <3>1, <3>3, <3>4
  <2>4. CASE h # call[c].hash
    <3>1. disk'[h] = disk[h]
      BY <1>0, <2>1, <2>4 DEF Indexes
    <3>2. ~ BeingForgotten(h)
      BY <1>2, ForgettingEnds DEF Save, EraseRecord, At
    <3> QED BY <1>1, <3>1, <3>2
  <2> QED BY <2>1, <2>2, <2>3, <2>4 DEF Control, Placed
<1>3. CASE EraseRecord(c)
  <2>1. disk' = [disk EXCEPT ![call[c].hash] = NoRecord] /\ pc[c] = "erase"
    BY <1>3, IndexWrites DEF EraseRecord, At
  <2>2. h # call[c].hash /\ disk'[h] = disk[h]
    BY <1>0, <2>1 DEF Indexes
  <2>3. ~ BeingForgotten(h)
    <3> SUFFICES ASSUME NEW x \in Clients, pc[x] \in {"remove", "erase"}, call[x].hash = h
                 PROVE  FALSE
      BY DEF BeingForgotten
    <3>1. x = c
      BY <2>1, OneOfEach, OneMutator DEF Mutating
    <3> QED BY <2>2, <3>1
  <2> QED BY <1>1, <2>2, <2>3
<1>4. CASE ~ Save(c) /\ ~ EraseRecord(c)
  <2>1. UNCHANGED disk
    BY <1>4, DiskFrame
  <2>2. ~ BeingForgotten(h)
    BY <1>4, ForgettingEnds
  <2> QED BY <1>1, <2>1, <2>2
<1> QED BY <1>2, <1>3, <1>4

\* Every step keeps the recorded files in place.
LEMMA StepKeepsShowing ==
    ASSUME OneInstance, ~ IOFailures, ~ Crashes, UserEdits = {},
           IInv, DropsItsLink, IndexInMemory, Showing, [Next]_vars
    PROVE  Showing'
<1>1. CASE \E c \in Clients : ClientStep(c)
  <2>1. PICK c \in Clients : ClientStep(c)
    BY <1>1
  <2>2. RecordsShow'
    BY <2>1, StepKeepsRecordsShown
  <2>3. ASSUME NEW d \in Clients, pc'[d] = "save", call'[d].op \in {"Add", "Put"}
        PROVE  Shows(d, call[d].name, call[d].hash)'
    <3>1. CASE d = c
      BY <2>1, <2>3, <3>1, OwnStepShows
    <3>2. CASE d # c
      <4>1. /\ pc[d] = "save" /\ call'[d] = call[d]
            /\ \A f \in Folders, n \in Names : friendly[f][n] # NoFile => friendly'[f][n] = friendly[f][n]
        BY <2>1, <2>3, <3>2, Undisturbed, OneOfEach DEF Mutating
      <4>2. Shows(d, call[d].name, call[d].hash)
        BY <2>3, <4>1 DEF Showing, AddShows
      <4>3. call[d].name \in Names /\ Folder(d) \in Folders
        BY Places DEF IInv, Control, Calls
      <4> QED BY <4>1, <4>2, <4>3 DEF Shows, FileOf, Folder
    <3> QED BY <3>1, <3>2
  <2> QED BY <2>2, <2>3 DEF Showing, AddShows
<1>2. CASE ~ \E c \in Clients : ClientStep(c)
  <2>1. UNCHANGED vars
    BY <1>2 DEF Next, Crash, Reopen, UserAdds, UserRemoves
  <2> QED BY <2>1 DEF vars, Showing, RecordsShow, AddShows, Shows, FileOf, BeingForgotten, Folder
<1> QED BY <1>1, <1>2

\* With one instance, in a world where writes succeed, processes live and people leave the
\* folder alone, Resolve and Assets answer a path only where the content of the record they
\* answer for lies, however the answer races other goroutines' Adds and Forgets.
THEOREM AnswersAreRight ==
    ASSUME OneInstance, ~ IOFailures, ~ Crashes, UserEdits = {}
    PROVE  Spec => AnswersItsContent
<1>1. Init => Showing
  BY DEF Init, Showing, RecordsShow, AddShows, EmptyIndex
<1>2. IInv /\ DropsItsLink /\ IndexInMemory /\ Showing /\ [Next]_vars => Showing'
  BY StepKeepsShowing
<1>3. ASSUME IInv, DropsItsLink, Showing, [Next]_vars, NEW c \in Clients,
             pc[c] \in {"asset", "create"}, pc'[c] = "read",
             disk[call[c].hash] # NoRecord, disk[call[c].hash].name = call[c].name,
             ~ BeingForgotten(call[c].hash)
      PROVE  /\ friendly'[Folder(c)][call[c].name] # NoFile
             /\ friendly'[Folder(c)][call[c].name].hash = call[c].hash
  <2>1. call[c].hash \in Hashes /\ call[c].name \in Names /\ Folder(c) \in Folders
    BY <1>3, Places DEF IInv, Control, Calls
  <2>2. Shows(c, call[c].name, call[c].hash)
    BY <1>3, <2>1 DEF Showing, RecordsShow
  <2>3. PICK d \in Clients : ClientStep(d)
    BY <1>3, StoreAssumption DEF Next, Crash, Reopen, UserAdds, UserRemoves, vars
  <2>4. d = c
    BY <1>3, <2>3, ClientStepKeepsInv DEF OthersStay
  <2>5. friendly'[Folder(c)][call[c].name] = friendly[Folder(c)][call[c].name]
    BY <1>3, <2>1, <2>2, <2>3, <2>4, FilesGo DEF Shows, FileOf, UnlinkFriendly, At
  <2> QED BY <2>2, <2>5 DEF Shows, FileOf
<1>4. ASSUME IInv, DropsItsLink, Showing, [Next]_vars
      PROVE  \A c \in Clients :
         LET h == call[c].hash
             n == call[c].name
         IN  (/\ pc[c] \in {"asset", "create"} /\ pc'[c] = "read" /\ ~ Reporting(c)
              /\ disk[h] # NoRecord /\ disk[h].name = n
              /\ ~ BeingForgotten(h))
             => /\ friendly'[Folder(c)][n] # NoFile
                /\ friendly'[Folder(c)][n].hash = h
  BY <1>3, <1>4
<1>5. Spec => [](IInv /\ IndexInMemory)
  BY IndexAlwaysInMemory DEF ReopenedWhole
<1>6. Spec => []DropsItsLink
  BY LinksFoundAreDropped, OneOfEach
<1> QED BY <1>1, <1>2, <1>4, <1>5, <1>6, PTL DEF Spec, AnswersItsContent

===============================================================================
