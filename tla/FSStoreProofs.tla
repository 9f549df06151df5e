---------------------------- MODULE FSStoreProofs ----------------------------
(***************************************************************************)
(* What FSStore guarantees for every value of its constants, proved with   *)
(* TLAPS.  The argument rests on one fact: the index lock of a process is  *)
(* held by at most the one client that is inside a mutation, so memory and *)
(* the index file move only under its hands.                               *)
(***************************************************************************)
EXTENDS FSStore, TLAPS

-----------------------------------------------------------------------------
(* The index as data. *)

\* The index of a store that has no file yet is an index.
LEMMA EmptyIndexTyped == EmptyIndex \in Indexes
  BY DEF EmptyIndex, Indexes

\* A stored record is a record, with the ids and the metadata it had.
LEMMA StoredTyped ==
    ASSUME NEW r \in Records \cup {NoRecord}, NEW n \in Names
    PROVE  /\ Stored(r, n) \in Records
           /\ Stored(r, n).name = n
           /\ r # NoRecord => Stored(r, n).ids = r.ids /\ Stored(r, n).meta = r.meta
  BY NoRecordAssumption DEF Stored, Records

\* Recording a media id changes that id alone (assetRecord.withID).
LEMMA WithIDTyped ==
    ASSUME NEW r \in Records, NEW k \in Ids, NEW s \in Scopes
    PROVE  /\ WithID(r, k, s) \in Records
           /\ WithID(r, k, s).ids = [r.ids EXCEPT ![k] = s]
  BY DEF WithID, Records

\* A merge keeps every id of both copies, and the name of ours.
LEMMA MergeFromTyped ==
    ASSUME NEW ours \in Records, NEW theirs \in Records
    PROVE  /\ MergeFrom(ours, theirs) \in Records
           /\ MergeFrom(ours, theirs).name = ours.name
           /\ \A k \in Ids : MergeFrom(ours, theirs).ids[k] # NoScope
                <=> ours.ids[k] # NoScope \/ theirs.ids[k] # NoScope
  BY DEF MergeFrom, Records

\* What the vetting leaves of an index is an index.
LEMMA VettedTyped ==
    ASSUME NEW idx \in Indexes
    PROVE  Vetted(idx) \in Indexes
  BY DEF Vetted, Indexes

\* A reload yields an index.
LEMMA ReloadTyped ==
    ASSUME NEW mine \in Indexes, NEW theirs \in Indexes
    PROVE  Reload(mine, theirs) \in Indexes
<1>1. ASSUME NEW h \in Hashes
      PROVE  Reload(mine, theirs)[h] \in Records \cup {NoRecord}
  <2>1. mine[h] \in Records \cup {NoRecord} /\ theirs[h] \in Records \cup {NoRecord}
    BY DEF Indexes
  <2>2. Vetted(theirs)[h] # NoRecord => theirs[h] # NoRecord
    BY DEF Vetted
  <2>3. CASE Vetted(theirs)[h] = NoRecord
    BY <2>1, <2>3 DEF Reload
  <2>4. CASE Vetted(theirs)[h] # NoRecord /\ mine[h] = NoRecord
    BY <2>1, <2>4 DEF Reload
  <2>5. CASE Vetted(theirs)[h] # NoRecord /\ mine[h] # NoRecord
    <3>1. MergeFrom(mine[h], theirs[h]) \in Records
      BY <2>1, <2>2, <2>5, MergeFromTyped
    <3>2. Reload(mine, theirs)[h] = MergeFrom(mine[h], theirs[h])
      BY <2>5 DEF Reload
    <3> QED BY <3>1, <3>2
  <2> QED BY <2>3, <2>4, <2>5
<1>2. Reload(mine, theirs) = [h \in Hashes |-> Reload(mine, theirs)[h]]
  BY DEF Reload
<1> QED BY <1>1, <1>2 DEF Indexes

\* Where the vetting refuses no name, a reload loses no id that is on disk.
LEMMA ReloadKnowsTheDisk ==
    ASSUME ValidNames = Names,
           NEW mine \in Indexes, NEW theirs \in Indexes, NEW h \in Hashes, NEW k \in Ids,
           HasId(theirs, h, k)
    PROVE  HasId(Reload(mine, theirs), h, k)
<1>1. /\ theirs[h] \in Records /\ theirs[h].ids[k] # NoScope
      /\ mine[h] \in Records \cup {NoRecord}
  BY DEF HasId, Indexes
<1>2. Vetted(theirs)[h] # NoRecord
  BY <1>1, NoRecordAssumption DEF Vetted, Records
<1>3. CASE mine[h] = NoRecord
  BY <1>1, <1>2, <1>3, NoRecordAssumption DEF Reload, HasId
<1>4. CASE mine[h] # NoRecord
  <2>1. Reload(mine, theirs)[h] = MergeFrom(mine[h], theirs[h])
    BY <1>2, <1>4 DEF Reload
  <2>2. /\ MergeFrom(mine[h], theirs[h]) \in Records
        /\ MergeFrom(mine[h], theirs[h]).ids[k] # NoScope
    BY <1>1, <1>4, MergeFromTyped
  <2> QED BY <2>1, <2>2, NoRecordAssumption DEF HasId
<1> QED BY <1>3, <1>4

-----------------------------------------------------------------------------
(* Control: where the clients are, what they were asked, and who holds what. *)

Reading == {"read", "restore", "reread"}

\* What a client's location says of its call and of the lock.
Placed(c) ==
    /\ pc[c] \in Mutating => lock[Proc(c)] = c
    /\ pc[c] \in Reading /\ lock[Proc(c)] = c => call[c].op \in {"Add", "Put"}
    /\ pc[c] \in {"blob", "writing", "choose", "link"} => call[c].op \in {"Add", "Put"}
    /\ pc[c] = "save" => call[c].op \in {"Add", "Put", "SetMeta"}
    /\ pc[c] \in {"unlink", "drop", "remove", "erase"} => call[c].op = "Forget"
    /\ pc[c] \in {"asset", "create"} => call[c].op \in {"Resolve", "Assets"}

Control ==
    /\ lock \in [Procs -> Clients \cup {Nobody}]
    /\ pc \in [Clients -> Locations]
    /\ call \in [Clients -> Calls]
    /\ todo \in [Clients -> SUBSET (Hashes \X Names)]
    /\ LockHeldByACall
    /\ \A c \in Clients : Placed(c)

Data ==
    /\ disk \in Indexes
    /\ mem \in [Insts -> Indexes]
    /\ blob \in [Blobs -> BlobStates]
    /\ friendly \in [Folders -> [Names -> Files \cup {NoFile}]]
    /\ reports \in [Insts -> SUBSET (Clients \X Nat)]
    /\ depth \in [Clients -> 0 .. MaxDepth]

\* The call of an idle client is a call, and a query.
LEMMA BlankTyped == Blank \in Calls /\ Blank.op = "Inspect"
<1>1. Exts # {}
  BY IndexAssumption, StoreAssumption
<1> QED BY <1>1, IndexAssumption DEF Blank, Calls, AllOps

\* A client has an instance, a process and a folder.
LEMMA Places ==
    ASSUME NEW c \in Clients
    PROVE  Inst(c) \in Insts /\ Proc(c) \in Procs /\ Folder(c) \in Folders
  BY StoreAssumption DEF Inst, Proc, Folder

\* A client that is neither mutating nor reading holds no lock.
LEMMA HoldsNothing ==
    ASSUME Control, NEW c \in Clients, pc[c] \notin Mutating \cup Reading
    PROVE  lock[Proc(c)] # c
  BY Places, StoreAssumption DEF Control, LockHeldByACall, Reading

\* Returning from a call keeps the control invariant, whatever the call held.
LEMMA ReturnKeepsControl ==
    ASSUME Control, NEW c \in Clients, Return(c)
    PROVE  Control'
<1>1. /\ lock' \in [Procs -> Clients \cup {Nobody}]
      /\ pc' \in [Clients -> Locations]
      /\ call' \in [Clients -> Calls]
      /\ todo' \in [Clients -> SUBSET (Hashes \X Names)]
  BY BlankTyped, Places DEF Control, Return, Released, Locations
<1>2. LockHeldByACall'
  BY Places, StoreAssumption
  DEF Control, Return, Released, LockHeldByACall, Mutating, Proc
<1>3. ASSUME NEW d \in Clients
      PROVE  Placed(d)'
  <2>1. CASE d = c
    BY <2>1 DEF Control, Return, Placed, Mutating, Reading
  <2>2. CASE d # c
    BY <2>2, Places, StoreAssumption DEF Control, Return, Released, Placed, Proc
  <2> QED BY <2>1, <2>2
<1> QED BY <1>1, <1>2, <1>3 DEF Control

\* Going on without the lock, from and to places where it is not held.
LEMMA GotoKeepsControl ==
    ASSUME Control, NEW c \in Clients, NEW there \in Locations, NEW r \in Calls,
           Goto(c, there), UNCHANGED lock,
           call' = [call EXCEPT ![c] = r],
           todo' \in [Clients -> SUBSET (Hashes \X Names)],
           lock[Proc(c)] # c,
           there \notin Mutating,
           there \in {"asset", "create"} => r.op \in {"Resolve", "Assets"}
    PROVE  Control'
<1>1. /\ lock' \in [Procs -> Clients \cup {Nobody}]
      /\ pc' \in [Clients -> Locations]
      /\ call' \in [Clients -> Calls]
  BY DEF Control, Goto
<1>2. LockHeldByACall'
  BY Places, StoreAssumption DEF Control, Goto, LockHeldByACall, Proc
<1>3. ASSUME NEW d \in Clients
      PROVE  Placed(d)'
  BY DEF Control, Goto, Placed, Proc, Mutating
<1> QED BY <1>1, <1>2, <1>3 DEF Control

\* The same for a client that takes the lock, or has it, and keeps it.
LEMMA MutatingKeepsControl ==
    ASSUME Control, NEW c \in Clients, NEW there \in Mutating \cup Reading, NEW r \in Calls,
           Goto(c, there),
           lock[Proc(c)] \in {c, Nobody},
           lock' = [lock EXCEPT ![Proc(c)] = c],
           call' = [call EXCEPT ![c] = r],
           UNCHANGED todo,
           there \in Reading \cup {"blob", "writing", "choose", "link"} => r.op \in {"Add", "Put"},
           there = "save" => r.op \in {"Add", "Put", "SetMeta"},
           there \in {"unlink", "drop", "remove", "erase"} => r.op = "Forget"
    PROVE  Control'
<1>1. /\ lock' \in [Procs -> Clients \cup {Nobody}]
      /\ pc' \in [Clients -> Locations]
      /\ call' \in [Clients -> Calls]
      /\ todo' \in [Clients -> SUBSET (Hashes \X Names)]
  BY Places DEF Control, Goto, Mutating, Reading, Locations
<1>2. LockHeldByACall'
  BY Places, StoreAssumption DEF Control, Goto, LockHeldByACall, Proc, Reading
<1>3. ASSUME NEW d \in Clients
      PROVE  Placed(d)'
  <2>1. CASE d = c
    BY <2>1, Places DEF Control, Goto, Placed, Mutating, Reading, Proc
  <2>2. CASE d # c
    BY <2>2, Places, StoreAssumption DEF Control, Goto, Placed, Proc
  <2> QED BY <2>1, <2>2
<1> QED BY <1>1, <1>2, <1>3 DEF Control

\* So does the end of one visit of an unlocked walk.
LEMMA NextVisitKeepsControl ==
    ASSUME Control, NEW c \in Clients, NextVisit(c),
           call[c].op \in {"Resolve", "Assets", "Pending"},
           lock[Proc(c)] # c
    PROVE  Control'
<1>1. CASE todo[c] = {}
  BY <1>1, ReturnKeepsControl DEF NextVisit
<1>2. CASE todo[c] # {}
  <2>1. PICK t \in todo[c] :
          /\ call' = [call EXCEPT ![c].hash = t[1], ![c].name = t[2]]
          /\ todo' = [todo EXCEPT ![c] = todo[c] \ {t}]
          /\ Goto(c, IF call[c].op = "Pending" THEN "read" ELSE "asset")
          /\ UNCHANGED lock
    BY <1>2 DEF NextVisit
  <2> DEFINE r == [call[c] EXCEPT !.hash = t[1], !.name = t[2]]
             there == IF call[c].op = "Pending" THEN "read" ELSE "asset"
  <2>2. t[1] \in Hashes /\ t[2] \in Names
    BY <2>1 DEF Control
  <2>3. r \in Calls /\ r.op = call[c].op
    BY <2>2 DEF Control, Calls
  <2>4. call' = [call EXCEPT ![c] = r]
    BY <2>1 DEF Control, Calls
  <2>5. todo' \in [Clients -> SUBSET (Hashes \X Names)]
    BY <2>1 DEF Control
  <2>6. there \in Locations /\ there \notin Mutating
    BY DEF Locations, Mutating
  <2> HIDE DEF r
  <2>7. there = "asset" => r.op \in {"Resolve", "Assets"}
    BY <2>3
  <2>8. Goto(c, there) /\ UNCHANGED lock
    BY <2>1
  <2>9. there \in {"asset", "create"} => there = "asset"
    OBVIOUS
  <2> HIDE DEF there
  <2> QED BY <2>3, <2>4, <2>5, <2>6, <2>7, <2>8, <2>9, GotoKeepsControl
<1> QED BY <1>1, <1>2

\* So does the end of a path-keyed read, in the probe of an Add too.
LEMMA ReadDoneKeepsControl ==
    ASSUME Control, NEW c \in Clients, NEW content \in SUBSET Hashes, ReadDone(c, content),
           pc[c] \in Reading \cup {"create"}
    PROVE  Control'
<1>1. CASE Return(c)
  BY <1>1, ReturnKeepsControl
<1>2. CASE call[c].op \in {"Resolve", "Assets", "Pending"} /\ NextVisit(c)
  <2>1. lock[Proc(c)] # c
    BY <1>2, HoldsNothing DEF Control, Placed, Reading, Mutating
  <2> QED BY <1>2, <2>1, NextVisitKeepsControl
<1>3. CASE call[c].op = "Lookup" /\ Goto(c, "lock") /\ UNCHANGED <<lock, call, todo>>
  <2>1. lock[Proc(c)] # c
    BY <1>3, HoldsNothing DEF Control, Placed, Reading, Mutating
  <2>2. /\ call' = [call EXCEPT ![c] = call[c]] /\ call[c] \in Calls
        /\ todo' \in [Clients -> SUBSET (Hashes \X Names)]
    BY <1>3 DEF Control
  <2>3. "lock" \in Locations \ Mutating
    BY DEF Locations, Mutating
  <2> QED BY <1>3, <2>1, <2>2, <2>3, GotoKeepsControl
<1>4. CASE /\ call[c].op = "Associate"
           /\ \E h \in content : call' = [call EXCEPT ![c].op = "Add", ![c].hash = h]
           /\ Goto(c, "lock")
           /\ UNCHANGED <<lock, todo>>
  <2>1. lock[Proc(c)] # c
    BY <1>4, HoldsNothing DEF Control, Placed, Reading, Mutating
  <2>2. PICK h \in content : call' = [call EXCEPT ![c].op = "Add", ![c].hash = h]
    BY <1>4
  <2> DEFINE r == [call[c] EXCEPT !.op = "Add", !.hash = h]
  <2>3. /\ call' = [call EXCEPT ![c] = r] /\ r \in Calls
        /\ todo' \in [Clients -> SUBSET (Hashes \X Names)]
    BY <1>4, <2>2 DEF Control, Calls, AllOps
  <2>4. "lock" \in Locations \ Mutating
    BY DEF Locations, Mutating
  <2> HIDE DEF r
  <2> QED BY <1>4, <2>1, <2>3, <2>4, GotoKeepsControl
<1> QED BY <1>1, <1>2, <1>3, <1>4 DEF ReadDone

-----------------------------------------------------------------------------
(* Frames: what a step of one client leaves alone. *)

\* The other clients stay where they are.
OthersStay(c) ==
    \A d \in Clients \ {c} : pc'[d] = pc[d] /\ call'[d] = call[d]

\* Only a client that holds the index lock, or takes it, touches the memory of its instance.
MemoryFrame(c) ==
    \/ UNCHANGED mem
    \/ /\ lock[Proc(c)] \in {c, Nobody}
       /\ \E idx \in Indexes : mem' = [mem EXCEPT ![Inst(c)] = idx]

\* Returning moves no other client.
LEMMA ReturnStays ==
    ASSUME Control, NEW c \in Clients, Return(c)
    PROVE  OthersStay(c) /\ pc'[c] = "idle"
  BY DEF Control, Return, OthersStay

\* Nor does the end of a visit.
LEMMA NextVisitStays ==
    ASSUME Control, NEW c \in Clients, NextVisit(c)
    PROVE  OthersStay(c) /\ pc'[c] \in {"idle", "read", "asset"}
<1>1. CASE todo[c] = {}
  BY <1>1, ReturnStays DEF NextVisit
<1>2. CASE todo[c] # {}
  BY <1>2 DEF Control, NextVisit, Goto, OthersStay
<1> QED BY <1>1, <1>2

\* Nor does the end of a read.
LEMMA ReadDoneStays ==
    ASSUME Control, NEW c \in Clients, NEW content, ReadDone(c, content)
    PROVE  OthersStay(c) /\ pc'[c] \in {"idle", "read", "asset", "lock"}
<1>1. CASE Return(c)
  BY <1>1, ReturnStays
<1>2. CASE NextVisit(c)
  BY <1>2, NextVisitStays
<1>3. CASE Goto(c, "lock") /\ UNCHANGED <<lock, call, todo>>
  BY <1>3 DEF Control, Goto, OthersStay
<1>4. CASE /\ \E h \in content : call' = [call EXCEPT ![c].op = "Add", ![c].hash = h]
           /\ Goto(c, "lock")
  BY <1>4 DEF Control, Goto, OthersStay
<1> QED BY <1>1, <1>2, <1>3, <1>4 DEF ReadDone

\* What memory is replaced by is an index again.
LEMMA LockAndReloadTyped ==
    ASSUME Control, Data, NEW c \in Clients, LockAndReload(c)
    PROVE  /\ mem' \in [Insts -> Indexes]
           /\ mem'[Inst(c)] = Reload(mem[Inst(c)], disk)
           /\ mem'[Inst(c)] \in Indexes
           /\ MemoryFrame(c)
           /\ lock[Proc(c)] = Nobody
           /\ pc[c] = "lock"
<1>1. Reload(mem[Inst(c)], disk) \in Indexes
  BY Places, ReloadTyped DEF Data
<1> QED BY <1>1, Places DEF LockAndReload, Data, MemoryFrame, At

-----------------------------------------------------------------------------
(* The inductive invariant. *)

\* SetMeta only ever writes to content it found a record of.
RecordBehindSetMeta ==
    \A c \in Clients :
        pc[c] = "save" /\ call[c].op = "SetMeta" => mem[Inst(c)][call[c].hash] # NoRecord

IInv == Control /\ Data /\ RecordBehindSetMeta

\* A step whose client owns the memory it changes takes no record from another's SetMeta.
LEMMA FrameKeepsRecords ==
    ASSUME Control, RecordBehindSetMeta, NEW c \in Clients, OthersStay(c), MemoryFrame(c),
           mem \in [Insts -> Indexes],
           pc'[c] = "save" /\ call'[c].op = "SetMeta"
              => mem'[Inst(c)][call'[c].hash] # NoRecord
    PROVE  RecordBehindSetMeta'
<1> SUFFICES ASSUME NEW d \in Clients, pc'[d] = "save", call'[d].op = "SetMeta"
             PROVE  mem'[Inst(d)][call'[d].hash] # NoRecord
  BY DEF RecordBehindSetMeta, Inst
<1>1. CASE d = c
  BY <1>1
<1>2. CASE d # c
  <2>1. /\ pc[d] = "save" /\ call'[d] = call[d]
        /\ mem[Inst(d)][call[d].hash] # NoRecord
        /\ lock[Proc(d)] = d
    BY <1>2 DEF OthersStay, RecordBehindSetMeta, Control, Placed, Mutating
  <2>2. CASE UNCHANGED mem
    BY <2>1, <2>2
  <2>3. CASE /\ lock[Proc(c)] \in {c, Nobody}
             /\ \E idx \in Indexes : mem' = [mem EXCEPT ![Inst(c)] = idx]
    <3>1. Inst(d) # Inst(c)
      BY <1>2, <2>1, <2>3, StoreAssumption DEF Proc, Inst
    <3> QED BY <2>1, <2>3, <3>1, Places
  <2> QED BY <2>2, <2>3 DEF MemoryFrame
<1> QED BY <1>1, <1>2

\* The invariant holds of a store just opened.
LEMMA InitInv == Init => IInv
<1> SUFFICES ASSUME Init PROVE IInv
  OBVIOUS
<1>1. Control
  BY BlankTyped DEF Init, Control, LockHeldByACall, Placed, Locations, Mutating, Reading
<1>2. Data
  BY EmptyIndexTyped, StoreAssumption DEF Init, Data, BlobStates
<1>3. RecordBehindSetMeta
  BY DEF Init, RecordBehindSetMeta
<1> QED BY <1>1, <1>2, <1>3 DEF IInv

\* Keeping the call one has, with or without the lock.
LEMMA SameCall ==
    ASSUME Control, NEW c \in Clients
    PROVE  /\ call[c] \in Calls
           /\ UNCHANGED call => call' = [call EXCEPT ![c] = call[c]]
           /\ UNCHANGED todo => todo' \in [Clients -> SUBSET (Hashes \X Names)]
  BY DEF Control

\* A call that moves on to another file is the same operation.
LEMMA VisitTyped ==
    ASSUME NEW r \in Calls, NEW h \in Hashes, NEW n \in Names
    PROVE  /\ [r EXCEPT !.hash = h, !.name = n] \in Calls
           /\ [r EXCEPT !.hash = h, !.name = n].op = r.op
  BY DEF Calls

\* Taking the lock keeps the invariant.
LEMMA AcquireKeepsInv ==
    ASSUME IInv, NEW c \in Clients, Acquire(c)
    PROVE  IInv' /\ OthersStay(c) /\ MemoryFrame(c)
<1> USE DEF IInv
<1> DEFINE Holds == IInv' /\ OthersStay(c) /\ MemoryFrame(c)
<1>0. LockAndReload(c) /\ UNCHANGED <<disk, blob, friendly, reports, depth>>
  BY DEF Acquire, BeginAdd, BeginSetMeta, BeginForget, Inspect, BeginResolve, BeginAssets,
         BeginPending
<1>1. /\ mem' \in [Insts -> Indexes]
      /\ mem'[Inst(c)] \in Indexes
      /\ MemoryFrame(c)
      /\ lock[Proc(c)] = Nobody /\ lock[Proc(c)] # c
      /\ pc[c] = "lock"
  BY <1>0, LockAndReloadTyped, StoreAssumption
<1>2. Data'
  BY <1>0, <1>1 DEF Data
<1>3. ASSUME Control', OthersStay(c),
             pc'[c] = "save" /\ call'[c].op = "SetMeta"
                => mem'[Inst(c)][call'[c].hash] # NoRecord
      PROVE  Holds
  BY <1>1, <1>2, <1>3, FrameKeepsRecords DEF Data
<1>4. ASSUME Return(c) PROVE Holds
  BY <1>3, <1>4, ReturnKeepsControl, ReturnStays
<1>5. CASE BeginAdd(c)
  <2>1. Control'
    BY <1>1, <1>5, SameCall, MutatingKeepsControl
    DEF BeginAdd, KeepLock, Mutating
  <2>2. OthersStay(c) /\ pc'[c] = "blob"
    BY <1>5 DEF BeginAdd, Goto, OthersStay, Control
  <2> QED BY <1>3, <2>1, <2>2
<1>6. CASE BeginSetMeta(c)
  <2>1. CASE Return(c)
    BY <1>4, <2>1
  <2>2. CASE /\ mem'[Inst(c)][call[c].hash] # NoRecord
             /\ KeepLock(c) /\ Goto(c, "save") /\ UNCHANGED <<call, todo>>
    <3>1. Control'
      BY <1>1, <1>6, <2>2, SameCall, MutatingKeepsControl
      DEF BeginSetMeta, KeepLock, Mutating, Reading
    <3>2. OthersStay(c)
      BY <2>2 DEF Goto, OthersStay, Control
    <3> QED BY <1>3, <2>2, <3>1, <3>2
  <2> QED BY <1>6, <2>1, <2>2 DEF BeginSetMeta
<1>7. CASE BeginForget(c)
  <2>1. CASE Return(c)
    BY <1>4, <2>1
  <2>2. CASE KeepLock(c) /\ Goto(c, "erase") /\ UNCHANGED <<call, todo>>
    <3>1. Control'
      BY <1>1, <1>7, <2>2, SameCall, MutatingKeepsControl
      DEF BeginForget, KeepLock, Mutating, Reading
    <3>2. OthersStay(c) /\ pc'[c] = "erase"
      BY <2>2 DEF Goto, OthersStay, Control
    <3> QED BY <1>3, <3>1, <3>2
  <2>3. CASE /\ \E e \in BlobFound(call[c].hash) : call' = [call EXCEPT ![c].ext = e]
             /\ KeepLock(c) /\ Goto(c, "unlink") /\ UNCHANGED todo
    <3>1. PICK e \in BlobFound(call[c].hash) : call' = [call EXCEPT ![c].ext = e]
      BY <2>3
    <3> DEFINE r == [call[c] EXCEPT !.ext = e]
    <3>2. e \in Exts
      BY DEF BlobFound, Held
    <3>3. call' = [call EXCEPT ![c] = r] /\ r \in Calls /\ r.op = "Forget"
      BY <1>7, <3>1, <3>2 DEF BeginForget, Control, Calls
    <3> HIDE DEF r
    <3>4. Control'
      BY <1>1, <2>3, <3>3, MutatingKeepsControl DEF KeepLock, Mutating, Reading
    <3>5. OthersStay(c) /\ pc'[c] = "unlink"
      BY <2>3, <3>1 DEF Goto, OthersStay, Control
    <3> QED BY <1>3, <3>4, <3>5
  <2> QED BY <1>7, <2>1, <2>2, <2>3 DEF BeginForget
<1>8. CASE Inspect(c)
  BY <1>4, <1>8 DEF Inspect
<1>9. CASE BeginResolve(c)
  <2> DEFINE idx == mem'[Inst(c)]
             matches == {h \in Hashes : HasId(idx, h, call[c].id)}
  <2>1. CASE Return(c)
    BY <1>4, <2>1
  <2>2. CASE \E h \in matches :
               /\ call' = [call EXCEPT ![c].hash = h, ![c].name = idx[h].name]
               /\ Goto(c, "asset")
               /\ UNCHANGED <<lock, todo>>
    <3>1. PICK h \in matches : /\ call' = [call EXCEPT ![c].hash = h, ![c].name = idx[h].name]
                               /\ Goto(c, "asset")
                               /\ UNCHANGED <<lock, todo>>
      BY <2>2
    <3> DEFINE name == idx[h].name
               r == [call[c] EXCEPT !.hash = h, !.name = name]
    <3>2. name \in Names
      BY <1>1 DEF HasId, Indexes, Records
    <3>6. call' = [call EXCEPT ![c] = r]
      BY <3>1 DEF Control
    <3> HIDE DEF name
    <3>3. r \in Calls /\ r.op = "Resolve"
      <4>1. call[c].op = "Resolve"
        BY <1>9 DEF BeginResolve
      <4>2. h \in Hashes
        OBVIOUS
      <4> QED BY <3>2, <4>1, <4>2, SameCall, VisitTyped
    <3> HIDE DEF r
    <3>4. Control'
      BY <1>1, <3>1, <3>3, <3>6, SameCall, GotoKeepsControl DEF Locations, Mutating
    <3>5. OthersStay(c) /\ pc'[c] = "asset"
      BY <3>1 DEF Goto, OthersStay, Control
    <3> QED BY <1>3, <3>4, <3>5
  <2> QED BY <1>9, <2>1, <2>2 DEF BeginResolve
<1>10. CASE BeginAssets(c)
  <2> DEFINE idx == mem'[Inst(c)]
             known == {k \in Ids : \E h \in Hashes : HasId(idx, h, k)}
  <2>1. CASE Return(c)
    BY <1>4, <2>1
  <2>2. CASE \E pick \in [known -> Hashes] :
               /\ \A k \in known : HasId(idx, pick[k], k)
               /\ \E k \in known :
                    /\ call' = [call EXCEPT ![c].hash = pick[k], ![c].name = idx[pick[k]].name]
                    /\ todo' = [todo EXCEPT ![c] =
                                  {<<pick[x], idx[pick[x]].name>> : x \in known \ {k}}]
               /\ Goto(c, "asset")
               /\ UNCHANGED lock
    <3>1. PICK pick \in [known -> Hashes] :
               /\ \A k \in known : HasId(idx, pick[k], k)
               /\ \E k \in known :
                    /\ call' = [call EXCEPT ![c].hash = pick[k], ![c].name = idx[pick[k]].name]
                    /\ todo' = [todo EXCEPT ![c] =
                                  {<<pick[x], idx[pick[x]].name>> : x \in known \ {k}}]
               /\ Goto(c, "asset")
               /\ UNCHANGED lock
      BY <2>2
    <3>2. PICK k \in known :
                    /\ call' = [call EXCEPT ![c].hash = pick[k], ![c].name = idx[pick[k]].name]
                    /\ todo' = [todo EXCEPT ![c] =
                                  {<<pick[x], idx[pick[x]].name>> : x \in known \ {k}}]
      BY <3>1
    <3> DEFINE hash == pick[k]
               name == idx[hash].name
               r == [call[c] EXCEPT !.hash = hash, !.name = name]
    <3>3. \A x \in known : pick[x] \in Hashes /\ idx[pick[x]].name \in Names
      <4>1. \A x \in known : pick[x] \in Hashes /\ idx[pick[x]] # NoRecord
        BY <3>1 DEF HasId
      <4>2. \A h \in Hashes : idx[h] # NoRecord => idx[h].name \in Names
        BY <1>1 DEF Indexes, Records
      <4> QED BY <4>1, <4>2
    <3>5. todo' \in [Clients -> SUBSET (Hashes \X Names)]
      BY <3>2, <3>3 DEF Control
    <3>8. call' = [call EXCEPT ![c] = r]
      BY <3>2 DEF Control
    <3>9. hash \in Hashes /\ name \in Names
      BY <3>3
    <3> HIDE DEF hash, name
    <3>4. r \in Calls /\ r.op = "Assets"
      <4>1. call[c].op = "Assets"
        BY <1>10 DEF BeginAssets
      <4> QED BY <3>9, <4>1, SameCall, VisitTyped
    <3> HIDE DEF r, idx, known
    <3>6. Control'
      BY <1>1, <3>1, <3>4, <3>5, <3>8, GotoKeepsControl DEF Locations, Mutating
    <3>7. OthersStay(c) /\ pc'[c] = "asset"
      BY <3>1, <3>2 DEF Goto, OthersStay, Control
    <3> QED BY <1>3, <3>6, <3>7
  <2> QED BY <1>10, <2>1, <2>2 DEF BeginAssets
<1>11. CASE BeginPending(c)
  <2>1. Control'
    BY <1>1, <1>11, SameCall, GotoKeepsControl DEF BeginPending, Locations, Mutating
  <2>2. OthersStay(c) /\ pc'[c] = "list"
    BY <1>11 DEF BeginPending, Goto, OthersStay, Control
  <2> QED BY <1>3, <2>1, <2>2
<1> QED BY <1>5, <1>6, <1>7, <1>8, <1>9, <1>10, <1>11 DEF Acquire

\* A call that starts keeps the invariant, and so does a Report scope that opens or closes.
LEMMA InvokeKeepsInv ==
    ASSUME IInv, NEW c \in Clients, Invoke(c) \/ EnterReport(c) \/ ExitReport(c)
    PROVE  IInv' /\ OthersStay(c) /\ MemoryFrame(c)
<1> USE DEF IInv
<1>1. lock[Proc(c)] # c
  BY HoldsNothing DEF Invoke, EnterReport, ExitReport, At, Mutating, Reading
<1>2. MemoryFrame(c)
  BY DEF Invoke, EnterReport, ExitReport, MemoryFrame
<1>3. CASE Invoke(c)
  <2>1. PICK r \in Requests :
          /\ call' = [call EXCEPT ![c] = r]
          /\ Goto(c, IF r.op \in {"Load", "Lookup", "Associate"} THEN "read" ELSE "lock")
    BY <1>3 DEF Invoke
  <2> DEFINE there == IF r.op \in {"Load", "Lookup", "Associate"} THEN "read" ELSE "lock"
  <2>2. there \in Locations \ Mutating /\ there \notin {"asset", "create", "save"}
    BY DEF Locations, Mutating
  <2>3. r \in Calls
    BY DEF Requests
  <2>4. Goto(c, there)
    BY <2>1
  <2> HIDE DEF there
  <2>5. Control'
    BY <1>1, <1>3, <2>1, <2>2, <2>3, <2>4, SameCall, GotoKeepsControl DEF Invoke
  <2>6. OthersStay(c) /\ pc'[c] # "save"
    BY <2>1, <2>2, <2>4 DEF Control, Goto, OthersStay
  <2>7. Data'
    BY <1>3 DEF Invoke, Data
  <2> QED BY <1>2, <2>5, <2>6, <2>7, FrameKeepsRecords DEF Data
<1>4. CASE EnterReport(c) \/ ExitReport(c)
  <2>1. UNCHANGED <<lock, pc, call, todo, mem>>
    BY <1>4 DEF EnterReport, ExitReport
  <2>2. Control' /\ OthersStay(c) /\ RecordBehindSetMeta'
    BY <2>1 DEF Control, LockHeldByACall, Placed, Proc, OthersStay, RecordBehindSetMeta, Inst
  <2>3. Data'
    <3>1. CASE EnterReport(c)
      BY <3>1, Places, StoreAssumption DEF EnterReport, Data
    <3>2. CASE ExitReport(c)
      BY <3>2, Places, StoreAssumption DEF ExitReport, Closed, Data
    <3> QED BY <1>4, <3>1, <3>2
  <2> QED BY <1>2, <2>2, <2>3
<1> QED BY <1>3, <1>4

\* From one place of a mutation to the next.
LEMMA MutationGoesOn ==
    ASSUME Control, NEW c \in Clients, pc[c] \in Mutating,
           NEW there \in Mutating \cup Reading, Goto(c, there),
           NEW r \in Calls, call' = [call EXCEPT ![c] = r], r.op = call[c].op,
           UNCHANGED <<lock, todo>>,
           pc[c] \in {"blob", "writing", "choose", "link"} => there \notin {"unlink", "drop", "remove", "erase"},
           pc[c] = "save" => there \in Reading /\ call[c].op # "SetMeta",
           pc[c] \in {"unlink", "drop", "remove", "erase"} => there \in {"unlink", "drop", "remove", "erase"}
    PROVE  Control' /\ OthersStay(c)
<1>1. lock[Proc(c)] = c /\ lock' = [lock EXCEPT ![Proc(c)] = c]
  BY Places DEF Control, Placed
<1>2. /\ there \in Reading \cup {"blob", "writing", "choose", "link"} => r.op \in {"Add", "Put"}
      /\ there = "save" => r.op \in {"Add", "Put", "SetMeta"}
      /\ there \in {"unlink", "drop", "remove", "erase"} => r.op = "Forget"
  BY DEF Control, Placed, Mutating, Reading
<1>3. Control'
  BY <1>1, <1>2, MutatingKeepsControl
<1>4. OthersStay(c)
  BY DEF Control, Goto, OthersStay
<1> QED BY <1>3, <1>4

\* From one place of a path-keyed read to the next, with the lock (Add) or without (Load).
LEMMA ReadGoesOn ==
    ASSUME Control, NEW c \in Clients, pc[c] \in Reading,
           NEW there \in Reading, Goto(c, there),
           NEW r \in Calls, call' = [call EXCEPT ![c] = r], r.op = call[c].op,
           UNCHANGED <<lock, todo>>
    PROVE  Control' /\ OthersStay(c)
<1>1. CASE lock[Proc(c)] = c
  <2>1. call[c].op \in {"Add", "Put"} /\ lock' = [lock EXCEPT ![Proc(c)] = c]
    BY <1>1, Places DEF Control, Placed
  <2> QED BY <1>1, <2>1, MutatingKeepsControl DEF Reading, Control, Goto, OthersStay
<1>2. CASE lock[Proc(c)] # c
  <2>1. there \in Locations \ Mutating /\ there \notin {"asset", "create"}
    BY DEF Locations, Mutating, Reading
  <2>2. Control'
    BY <1>2, <2>1, SameCall, GotoKeepsControl
  <2>3. OthersStay(c)
    BY DEF Control, Goto, OthersStay
  <2> QED BY <2>2, <2>3
<1> QED BY <1>1, <1>2

\* A blob's name is a content and an extension.
LEMMA BlobForTyped ==
    ASSUME NEW h \in Hashes, NEW n \in Names
    PROVE  BlobFor(h, n) \in Blobs
  BY StoreAssumption DEF BlobFor, Blobs

\* Links and plain files are files.
LEMMA FilesTyped ==
    ASSUME NEW h \in Hashes, NEW n \in Names, NEW copied \in Hashes
    PROVE  /\ Link(h, ExtOf[n]) \in Files
           /\ Plain(copied, ExtOf[n]) \in Files
           /\ Made(h, n, copied) \subseteq Files
  BY StoreAssumption DEF Link, Plain, Made, Files

\* The record a mutation saves.
LEMMA UpdatedTyped ==
    ASSUME IInv, NEW c \in Clients, pc[c] = "save"
    PROVE  /\ Updated(c) \in Records
           /\ call[c].hash \in Hashes
           /\ [mem[Inst(c)] EXCEPT ![call[c].hash] = Updated(c)] \in Indexes
           /\ mem[Inst(c)] \in Indexes
<1> DEFINE r == mem[Inst(c)][call[c].hash]
<1>1. /\ call[c].hash \in Hashes /\ call[c].name \in Names /\ call[c].id \in Ids
      /\ call[c].scope \in Scopes /\ call[c].ns \in NSs /\ call[c].val \in Vals \cup {NoVal}
  BY DEF IInv, Control, Calls
<1>2. r \in Records \cup {NoRecord} /\ mem[Inst(c)] \in Indexes
  BY <1>1, Places DEF IInv, Data, Indexes
<1>3. call[c].op = "SetMeta" => r \in Records
  BY <1>2 DEF IInv, RecordBehindSetMeta
<1>4. Stored(r, call[c].name) \in Records
  BY <1>1, <1>2, StoredTyped
<1>5. WithID(Stored(r, call[c].name), call[c].id, call[c].scope) \in Records
  BY <1>1, <1>4, WithIDTyped
<1>6. call[c].op = "SetMeta" => [r EXCEPT !.meta[call[c].ns] = call[c].val] \in Records
  BY <1>1, <1>3 DEF Records
<1>7. Updated(c) \in Records
  BY <1>4, <1>5, <1>6 DEF Updated
<1> QED BY <1>1, <1>2, <1>7 DEF Indexes

\* A friendly file half written is a file.
LEMMA HalfMadeTyped ==
    ASSUME Data, NEW c \in Clients, NEW n \in Names, HalfMade(c, n)
    PROVE  friendly' \in [Folders -> [Names -> Files \cup {NoFile}]]
<1>1. Plain(Torn, ExtOf[n]) \in Files
  BY FilesTyped, StoreAssumption
<1>2. CASE UNCHANGED friendly
  BY <1>2 DEF Data
<1>3. CASE friendly' = [friendly EXCEPT ![Folder(c)][n] = Plain(Torn, ExtOf[n])]
  BY <1>1, <1>3, Places DEF Data
<1> QED BY <1>2, <1>3 DEF HalfMade

\* The steps of Add, Put and SetMeta keep the invariant.
LEMMA StoreKeepsInv ==
    ASSUME IInv, NEW c \in Clients,
           \/ CreateBlob(c) \/ FillBlob(c) \/ FillBlobFails(c)
           \/ ChooseFriendly(c) \/ LinkFriendly(c) \/ LinkFriendlyFails(c)
           \/ Save(c) \/ SaveFails(c)
    PROVE  IInv' /\ OthersStay(c) /\ MemoryFrame(c)
<1> DEFINE h == call[c].hash
           n == call[c].name
           Holds == IInv' /\ OthersStay(c) /\ MemoryFrame(c)
<1>0. /\ Control /\ Data /\ RecordBehindSetMeta /\ h \in Hashes /\ n \in Names
      /\ BlobFor(h, n) \in Blobs
  BY BlobForTyped DEF IInv, Control, Calls
<1>1. ASSUME Control', Data', OthersStay(c), MemoryFrame(c),
             pc'[c] # "save" \/ call'[c].op # "SetMeta"
      PROVE  Holds
  BY <1>0, <1>1, FrameKeepsRecords DEF IInv, Data
<1>2. ASSUME Return(c), Data', MemoryFrame(c)
      PROVE  Holds
  BY <1>0, <1>1, <1>2, ReturnKeepsControl, ReturnStays
<1>3. CASE CreateBlob(c)
  <2>1. Data'
    BY <1>0, <1>3 DEF CreateBlob, Data, BlobStates
  <2>2. PICK there \in {"choose", "writing"} : Goto(c, there)
    BY <1>3 DEF CreateBlob
  <2>3. Control' /\ OthersStay(c)
    BY <1>0, <1>3, <2>2, SameCall, MutationGoesOn DEF CreateBlob, At, Mutating
  <2>4. pc'[c] # "save" /\ MemoryFrame(c)
    BY <1>0, <1>3, <2>2 DEF CreateBlob, Control, Goto, MemoryFrame
  <2> QED BY <1>1, <2>1, <2>3, <2>4
<1>4. CASE FillBlob(c)
  <2>1. Data'
    BY <1>0, <1>4 DEF FillBlob, Data, BlobStates
  <2>2. Control' /\ OthersStay(c)
    BY <1>0, <1>4, SameCall, MutationGoesOn DEF FillBlob, At, Mutating
  <2>3. pc'[c] # "save" /\ MemoryFrame(c)
    BY <1>0, <1>4 DEF FillBlob, Control, Goto, MemoryFrame
  <2> QED BY <1>1, <2>1, <2>2, <2>3
<1>5. CASE FillBlobFails(c)
  BY <1>0, <1>2, <1>5 DEF FillBlobFails, Data, MemoryFrame
<1>6. CASE ChooseFriendly(c)
  <2>1. PICK name \in Names, there \in {"save", "link"} :
          call' = [call EXCEPT ![c].name = name] /\ Goto(c, there)
    <3>1. mem[Inst(c)][h] # NoRecord => mem[Inst(c)][h].name \in Names
      BY <1>0, Places DEF Data, Indexes, Records
    <3>2. CASE \E name \in Names :
                 /\ call' = [call EXCEPT ![c].name = name]
                 /\ Goto(c, IF Adopts(c, name, BlobFor(h, n)) THEN "save" ELSE "link")
      BY <3>2
    <3> QED BY <1>6, <3>1, <3>2 DEF ChooseFriendly
  <2> DEFINE r == [call[c] EXCEPT !.name = name]
  <2>2. r \in Calls /\ r.op = call[c].op /\ call' = [call EXCEPT ![c] = r]
    BY <1>0, <2>1 DEF Control, Calls
  <2>3. call[c].op \in {"Add", "Put"}
    BY <1>0, <1>6 DEF Control, Placed, ChooseFriendly, At
  <2>6. call'[c].op # "SetMeta"
    BY <1>0, <2>2, <2>3 DEF Control
  <2> HIDE DEF r
  <2>4. Control' /\ OthersStay(c)
    BY <1>0, <1>6, <2>1, <2>2, MutationGoesOn DEF ChooseFriendly, At, Mutating
  <2>5. Data' /\ MemoryFrame(c)
    BY <1>0, <1>6 DEF ChooseFriendly, Data, MemoryFrame
  <2> QED BY <1>1, <2>4, <2>5, <2>6
<1>7. CASE LinkFriendly(c)
  <2>1. CASE Refused(c)
    BY <1>0, <1>2, <1>7, <2>1 DEF LinkFriendly, Refused, Data, MemoryFrame
  <2>2. CASE /\ \E f \in Made(h, n, h) : friendly' = [friendly EXCEPT ![Folder(c)][n] = f]
             /\ Goto(c, "save")
             /\ UNCHANGED <<mem, lock, call, todo>>
    <3>1. Data' /\ MemoryFrame(c)
      <4>1. PICK f \in Made(h, n, h) : friendly' = [friendly EXCEPT ![Folder(c)][n] = f]
        BY <2>2
      <4>2. f \in Files
        BY <1>0, FilesTyped
      <4> QED BY <1>0, <1>7, <2>2, <4>1, <4>2, Places DEF LinkFriendly, Data, MemoryFrame
    <3>2. Control' /\ OthersStay(c)
      BY <1>0, <1>7, <2>2, SameCall, MutationGoesOn DEF LinkFriendly, At, Mutating
    <3>3. call'[c].op # "SetMeta"
      BY <1>0, <1>7, <2>2 DEF LinkFriendly, At, Control, Placed
    <3> QED BY <1>1, <3>1, <3>2, <3>3
  <2> QED BY <1>7, <2>1, <2>2 DEF LinkFriendly
<1>8. CASE LinkFriendlyFails(c)
  <2>1. Data' /\ MemoryFrame(c)
    BY <1>0, <1>8, HalfMadeTyped DEF LinkFriendlyFails, Data, MemoryFrame
  <2> QED BY <1>2, <1>8, <2>1 DEF LinkFriendlyFails
<1>9. ASSUME Save(c) \/ SaveFails(c)
      PROVE  Data' /\ MemoryFrame(c)
  <2> DEFINE idx == [mem[Inst(c)] EXCEPT ![h] = Updated(c)]
  <2>1. idx \in Indexes /\ mem[Inst(c)] \in Indexes
    BY <1>9, UpdatedTyped DEF Save, SaveFails, At
  <2>2. mem' = [mem EXCEPT ![Inst(c)] = idx]
    BY <1>9 DEF Save, SaveFails
  <2>3. lock[Proc(c)] = c
    BY <1>0, <1>9 DEF Save, SaveFails, At, Control, Placed, Mutating
  <2> HIDE DEF idx
  <2>4. MemoryFrame(c)
    BY <2>1, <2>2, <2>3 DEF MemoryFrame
  <2>5. mem' \in [Insts -> Indexes] /\ mem'[Inst(c)] \in Indexes
    BY <1>0, <2>1, <2>2, Places DEF Data
  <2>6. disk' \in Indexes
    BY <1>0, <1>9, <2>5 DEF Save, SaveFails, Data
  <2> QED BY <1>0, <1>9, <2>4, <2>5, <2>6 DEF Save, SaveFails, Data
<1>10. CASE Save(c)
  <2>1. CASE Return(c)
    BY <1>2, <1>9, <1>10, <2>1
  <2>2. CASE call[c].op # "SetMeta" /\ Goto(c, "read") /\ UNCHANGED <<lock, call, todo>>
    <3>1. Control' /\ OthersStay(c)
      BY <1>0, <1>10, <2>2, SameCall, MutationGoesOn DEF Save, At, Mutating, Reading
    <3>2. pc'[c] # "save"
      BY <1>0, <2>2 DEF Control, Goto
    <3> QED BY <1>1, <1>9, <1>10, <3>1, <3>2
  <2> QED BY <1>10, <2>1, <2>2 DEF Save
<1>11. CASE SaveFails(c)
  BY <1>2, <1>9, <1>11 DEF SaveFails
<1> QED BY <1>3, <1>4, <1>5, <1>6, <1>7, <1>8, <1>10, <1>11

\* The steps of Forget keep the invariant.
LEMMA ForgetKeepsInv ==
    ASSUME IInv, NEW c \in Clients,
           \/ CheckFriendly(c) \/ UnlinkFriendly(c) \/ UnlinkFriendlyFails(c)
           \/ RemoveBlob(c) \/ RemoveBlobFails(c)
           \/ EraseRecord(c) \/ EraseRecordFails(c)
    PROVE  IInv' /\ OthersStay(c) /\ MemoryFrame(c)
<1> DEFINE h == call[c].hash
           Holds == IInv' /\ OthersStay(c) /\ MemoryFrame(c)
<1>0. Control /\ Data /\ RecordBehindSetMeta /\ h \in Hashes /\ call[c].ext \in Exts
  BY DEF IInv, Control, Calls
<1>1. ASSUME Control', Data', OthersStay(c), MemoryFrame(c), pc'[c] # "save"
      PROVE  Holds
  BY <1>0, <1>1, FrameKeepsRecords DEF IInv, Data
<1>2. ASSUME Return(c), Data', MemoryFrame(c)
      PROVE  Holds
  BY <1>0, <1>1, <1>2, ReturnKeepsControl, ReturnStays
<1>3. CASE CheckFriendly(c)
  <2>1. PICK r \in Calls, there \in {"drop", "remove"} :
          r.op = call[c].op /\ call' = [call EXCEPT ![c] = r] /\ Goto(c, there)
    <3>1. CASE UNCHANGED call /\ Goto(c, "remove")
      BY <1>0, <3>1, SameCall
    <3>2. CASE /\ mem[Inst(c)][h] # NoRecord
               /\ call' = [call EXCEPT ![c].name = mem[Inst(c)][h].name] /\ Goto(c, "drop")
      <4> DEFINE n == mem[Inst(c)][h].name
                 r == [call[c] EXCEPT !.name = n]
      <4>1. n \in Names
        BY <1>0, <3>2, Places DEF Data, Indexes, Records
      <4>2. r \in Calls /\ r.op = call[c].op /\ call' = [call EXCEPT ![c] = r]
        BY <1>0, <3>2, <4>1 DEF Control, Calls
      <4> QED BY <3>2, <4>2
    <3> QED BY <1>3, <3>1, <3>2 DEF CheckFriendly
  <2>2. Control' /\ OthersStay(c)
    BY <1>0, <1>3, <2>1, MutationGoesOn DEF CheckFriendly, At, Mutating
  <2>3. Data' /\ MemoryFrame(c)
    BY <1>0, <1>3 DEF CheckFriendly, Data, MemoryFrame
  <2>4. pc'[c] # "save"
    BY <1>0, <2>1 DEF Control, Goto
  <2> QED BY <1>1, <2>2, <2>3, <2>4
<1>7. CASE UnlinkFriendly(c) \/ UnlinkFriendlyFails(c)
  <2>1. friendly' \in [Folders -> [Names -> Files \cup {NoFile}]]
    <3>1. call[c].name \in Names
      BY <1>0 DEF Control, Calls
    <3> QED BY <1>0, <1>7, <3>1, Places DEF UnlinkFriendly, UnlinkFriendlyFails, Data
  <2>2. Data' /\ MemoryFrame(c)
    BY <1>0, <1>7, <2>1 DEF UnlinkFriendly, UnlinkFriendlyFails, Data, MemoryFrame
  <2>3. pc[c] = "drop" /\ Goto(c, "remove") /\ UNCHANGED <<lock, call, todo>>
    BY <1>7 DEF UnlinkFriendly, UnlinkFriendlyFails, At
  <2>4. Control' /\ OthersStay(c)
    BY <1>0, <2>3, SameCall, MutationGoesOn DEF Mutating
  <2>5. pc'[c] # "save"
    BY <1>0, <2>3 DEF Control, Goto
  <2> QED BY <1>1, <2>2, <2>4, <2>5
<1>4. CASE RemoveBlob(c)
  <2>1. Data' /\ MemoryFrame(c)
    BY <1>0, <1>4 DEF RemoveBlob, Data, MemoryFrame, Blobs, BlobStates
  <2>2. Control' /\ OthersStay(c)
    BY <1>0, <1>4, SameCall, MutationGoesOn DEF RemoveBlob, At, Mutating
  <2>3. pc'[c] # "save"
    BY <1>0, <1>4 DEF RemoveBlob, Control, Goto
  <2> QED BY <1>1, <2>1, <2>2, <2>3
<1>5. CASE RemoveBlobFails(c)
  BY <1>0, <1>2, <1>5 DEF RemoveBlobFails, Data, MemoryFrame
<1>6. CASE EraseRecord(c) \/ EraseRecordFails(c)
  <2> DEFINE idx == [mem[Inst(c)] EXCEPT ![h] = NoRecord]
  <2>1. idx \in Indexes
    BY <1>0, Places DEF Data, Indexes
  <2>2. mem' = [mem EXCEPT ![Inst(c)] = idx]
    BY <1>6 DEF EraseRecord, EraseRecordFails
  <2>3. lock[Proc(c)] = c
    BY <1>0, <1>6 DEF EraseRecord, EraseRecordFails, At, Control, Placed, Mutating
  <2> HIDE DEF idx
  <2>4. MemoryFrame(c)
    BY <2>1, <2>2, <2>3 DEF MemoryFrame
  <2>5. mem' \in [Insts -> Indexes] /\ mem'[Inst(c)] \in Indexes
    BY <1>0, <2>1, <2>2, Places DEF Data
  <2>6. Data'
    BY <1>0, <1>6, <2>5 DEF EraseRecord, EraseRecordFails, Data
  <2> QED BY <1>2, <1>6, <2>4, <2>6 DEF EraseRecord, EraseRecordFails
<1> QED BY <1>3, <1>4, <1>5, <1>6, <1>7

\* A repaired folder is a folder.
LEMMA MaterializeTyped ==
    ASSUME Control, Data, NEW c \in Clients, Materialize(c)
    PROVE  friendly' \in [Folders -> [Names -> Files \cup {NoFile}]]
<1> DEFINE h == call[c].hash
           n == call[c].name
<1>1. h \in Hashes /\ n \in Names
  BY DEF Control, Calls
<1>2. BlobContent(h, n) \in Hashes
  BY <1>1, StoreAssumption DEF BlobContent
<1>3. PICK f \in Made(h, n, BlobContent(h, n)) :
        friendly' = [friendly EXCEPT ![Folder(c)][n] = f]
  BY DEF Materialize
<1>4. f \in Files
  BY <1>1, <1>2, <1>3, FilesTyped
<1> QED BY <1>1, <1>3, <1>4, Places DEF Data

\* Reading a file yields a content.
LEMMA ContentTyped ==
    ASSUME Data, NEW c \in Clients, NEW n \in Names
    PROVE  ContentAt(c, n) \in SUBSET Hashes
<1>1. FileOf(c, n) \in Files \cup {NoFile}
  BY Places DEF Data, FileOf
<1>2. StatOK(FileOf(c, n)) => ContentOf(FileOf(c, n)) \in Hashes
  BY <1>1, StoreAssumption DEF StatOK, ContentOf, Files
<1> QED BY <1>2 DEF ContentAt

\* The unlocked reads keep the invariant.
LEMMA AnswerKeepsInv ==
    ASSUME IInv, NEW c \in Clients,
           \/ ProbeAsset(c) \/ CreateAsset(c) \/ ReadPath(c) \/ RestorePath(c) \/ RestoreFails(c)
           \/ RereadPath(c) \/ ListFolder(c)
    PROVE  IInv' /\ OthersStay(c) /\ MemoryFrame(c)
<1> DEFINE h == call[c].hash
           n == call[c].name
           Holds == IInv' /\ OthersStay(c) /\ MemoryFrame(c)
<1>0. Control /\ Data /\ RecordBehindSetMeta /\ h \in Hashes /\ n \in Names
  BY DEF IInv, Control, Calls
<1>1. UNCHANGED <<disk, mem, blob, reports, depth>> /\ MemoryFrame(c)
  BY DEF ProbeAsset, CreateAsset, ReadPath, RestorePath, RestoreFails, RereadPath, ListFolder,
         MemoryFrame
<1>2. friendly' \in [Folders -> [Names -> Files \cup {NoFile}]]
  BY <1>0, MaterializeTyped, HalfMadeTyped
  DEF ProbeAsset, CreateAsset, ReadPath, RestorePath, RestoreFails, RereadPath, ListFolder, Data
<1>3. Data'
  BY <1>0, <1>1, <1>2 DEF Data
<1>4. ASSUME Control', OthersStay(c), pc'[c] # "save"
      PROVE  Holds
  BY <1>0, <1>1, <1>3, <1>4, FrameKeepsRecords DEF IInv, Data
<1>5. ASSUME Return(c) PROVE Holds
  BY <1>0, <1>4, <1>5, ReturnKeepsControl, ReturnStays
<1>6. ASSUME NEW content \in SUBSET Hashes, ReadDone(c, content), pc[c] \in Reading \cup {"create"}
      PROVE  Holds
  BY <1>0, <1>4, <1>6, ReadDoneKeepsControl, ReadDoneStays
<1>7. ASSUME NextVisit(c), pc[c] \in {"asset", "create"}
      PROVE  Holds
  <2>1. call[c].op \in {"Resolve", "Assets"} /\ lock[Proc(c)] # c
    BY <1>0, <1>7, HoldsNothing DEF Control, Placed, Mutating, Reading
  <2> QED BY <1>0, <1>4, <1>7, <2>1, NextVisitKeepsControl, NextVisitStays
<1>8. ASSUME pc[c] \in {"asset", "create"}, NEW there \in {"read", "create"}, Goto(c, there),
             UNCHANGED <<lock, call, todo>>
      PROVE  Holds
  <2>1. call[c].op \in {"Resolve", "Assets"} /\ lock[Proc(c)] # c
    BY <1>0, <1>8, HoldsNothing DEF Control, Placed, Mutating, Reading
  <2>2. Control'
    BY <1>0, <1>8, <2>1, SameCall, GotoKeepsControl DEF Locations, Mutating
  <2>3. OthersStay(c) /\ pc'[c] # "save"
    BY <1>0, <1>8 DEF Control, Goto, OthersStay
  <2> QED BY <1>4, <2>2, <2>3
<1>9. ASSUME pc[c] \in Reading, NEW there \in {"restore", "reread"}, Goto(c, there),
             NEW r \in Calls, call' = [call EXCEPT ![c] = r], r.op = call[c].op,
             UNCHANGED <<lock, todo>>
      PROVE  Holds
  <2>1. Control' /\ OthersStay(c)
    BY <1>0, <1>9, ReadGoesOn DEF Reading
  <2>2. pc'[c] # "save"
    BY <1>0, <1>9 DEF Control, Goto
  <2> QED BY <1>4, <2>1, <2>2
<1>10. CASE ProbeAsset(c)
  BY <1>7, <1>8, <1>10 DEF ProbeAsset, At
<1>11. CASE CreateAsset(c)
  BY <1>7, <1>8, <1>11 DEF CreateAsset, At
<1>12. CASE ReadPath(c)
  <2>1. pc[c] = "read"
    BY <1>12 DEF ReadPath, At
  <2>2. CASE ReadDone(c, ContentAt(c, n))
    BY <1>0, <1>6, <2>1, <2>2, ContentTyped DEF Reading
  <2>3. CASE ReadDone(c, {})
    BY <1>6, <2>1, <2>3 DEF Reading
  <2>4. CASE \E src \in BlobsForName(n) : ReadDone(c, {BlobContent(src, n)})
    <3>1. PICK src \in BlobsForName(n) : ReadDone(c, {BlobContent(src, n)})
      BY <2>4
    <3>2. {BlobContent(src, n)} \in SUBSET Hashes
      BY StoreAssumption DEF BlobContent, BlobsForName
    <3> QED BY <1>6, <2>1, <3>1, <3>2 DEF Reading
  <2>5. CASE /\ \E src \in BlobsForName(n) : call' = [call EXCEPT ![c].hash = src]
             /\ Goto(c, "restore") /\ UNCHANGED <<lock, todo>>
    <3>1. PICK src \in BlobsForName(n) : call' = [call EXCEPT ![c].hash = src]
      BY <2>5
    <3> DEFINE r == [call[c] EXCEPT !.hash = src]
    <3>2. src \in Hashes
      BY DEF BlobsForName
    <3>3. call' = [call EXCEPT ![c] = r] /\ r \in Calls /\ r.op = call[c].op
      BY <1>0, <3>1, <3>2 DEF Control, Calls
    <3> HIDE DEF r
    <3> QED BY <1>9, <2>1, <2>5, <3>3 DEF Reading
  <2> QED BY <1>12, <2>2, <2>3, <2>4, <2>5 DEF ReadPath
<1>13. CASE RestorePath(c)
  <2>1. pc[c] = "restore"
    BY <1>13 DEF RestorePath, At
  <2>2. CASE Goto(c, "reread") /\ UNCHANGED <<lock, call, todo>>
    BY <1>0, <1>9, <2>1, <2>2, SameCall DEF Reading
  <2>3. CASE ReadDone(c, {})
    BY <1>6, <2>1, <2>3 DEF Reading
  <2> QED BY <1>13, <2>2, <2>3 DEF RestorePath
<1>14. CASE RestoreFails(c)
  BY <1>6, <1>14 DEF RestoreFails, Reading
<1>15. CASE RereadPath(c)
  BY <1>0, <1>6, <1>15, ContentTyped DEF RereadPath, At, Reading
<1>16. CASE ListFolder(c)
  <2> DEFINE entries == {x \in Names : FileOf(c, x) # NoFile}
  <2>1. CASE Return(c)
    BY <1>5, <2>1
  <2>2. CASE \E first \in entries :
               /\ call' = [call EXCEPT ![c].name = first]
               /\ todo' = [todo EXCEPT ![c] = {<<call[c].hash, x>> : x \in entries \ {first}}]
               /\ Goto(c, "read")
               /\ UNCHANGED lock
    <3>1. PICK first \in entries :
               /\ call' = [call EXCEPT ![c].name = first]
               /\ todo' = [todo EXCEPT ![c] = {<<call[c].hash, x>> : x \in entries \ {first}}]
               /\ Goto(c, "read")
               /\ UNCHANGED lock
      BY <2>2
    <3> DEFINE r == [call[c] EXCEPT !.name = first]
    <3>2. call' = [call EXCEPT ![c] = r] /\ r \in Calls
      BY <1>0, <3>1 DEF Control, Calls
    <3>3. todo' \in [Clients -> SUBSET (Hashes \X Names)]
      BY <1>0, <3>1 DEF Control
    <3> HIDE DEF r
    <3>4. lock[Proc(c)] # c
      BY <1>0, <1>16, HoldsNothing DEF ListFolder, At, Mutating, Reading
    <3>5. Control'
      BY <1>0, <3>1, <3>2, <3>3, <3>4, GotoKeepsControl DEF Locations, Mutating
    <3>6. OthersStay(c) /\ pc'[c] # "save"
      BY <1>0, <3>1 DEF Control, Goto, OthersStay
    <3> QED BY <1>4, <3>5, <3>6
  <2> QED BY <1>16, <2>1, <2>2 DEF ListFolder
<1> QED BY <1>10, <1>11, <1>12, <1>13, <1>14, <1>15, <1>16

\* A step of a client keeps the invariant, leaves the others where they are, and moves the
\* memory of its instance only under the lock.
LEMMA ClientStepKeepsInv ==
    ASSUME IInv, NEW c \in Clients, ClientStep(c)
    PROVE  IInv' /\ OthersStay(c) /\ MemoryFrame(c)
<1>1. CASE Invoke(c) \/ EnterReport(c) \/ ExitReport(c)
  BY <1>1, InvokeKeepsInv
<1>2. CASE Acquire(c)
  BY <1>2, AcquireKeepsInv
<1>3. CASE \/ CreateBlob(c) \/ FillBlob(c) \/ FillBlobFails(c)
           \/ ChooseFriendly(c) \/ LinkFriendly(c) \/ LinkFriendlyFails(c)
           \/ Save(c) \/ SaveFails(c)
  BY <1>3, StoreKeepsInv
<1>4. CASE \/ CheckFriendly(c) \/ UnlinkFriendly(c) \/ UnlinkFriendlyFails(c)
           \/ RemoveBlob(c) \/ RemoveBlobFails(c)
           \/ EraseRecord(c) \/ EraseRecordFails(c)
  BY <1>4, ForgetKeepsInv
<1>5. CASE \/ ProbeAsset(c) \/ CreateAsset(c) \/ ReadPath(c) \/ RestorePath(c) \/ RestoreFails(c)
           \/ RereadPath(c) \/ ListFolder(c)
  BY <1>5, AnswerKeepsInv
<1> QED BY <1>1, <1>2, <1>3, <1>4, <1>5 DEF ClientStep, Proceed, Fail

\* The death of a process keeps the invariant: its lock dies with it.
LEMMA CrashKeepsInv ==
    ASSUME IInv, NEW p \in Procs, Crash(p)
    PROVE  IInv'
<1> USE DEF IInv
<1>1. Control'
  <2>1. /\ lock' \in [Procs -> Clients \cup {Nobody}]
        /\ pc' \in [Clients -> Locations]
        /\ call' \in [Clients -> Calls]
        /\ todo' \in [Clients -> SUBSET (Hashes \X Names)]
    BY BlankTyped DEF Crash, Control, Locations
  <2>2. LockHeldByACall'
    BY StoreAssumption DEF Crash, Control, LockHeldByACall, Proc
  <2>3. ASSUME NEW c \in Clients PROVE Placed(c)'
    <3>1. CASE Proc(c) = p
      BY <3>1 DEF Crash, Placed, Mutating, Reading
    <3>2. CASE Proc(c) # p
      BY <3>2, Places DEF Crash, Control, Placed, Proc
    <3> QED BY <3>1, <3>2
  <2> QED BY <2>1, <2>2, <2>3 DEF Control
<1>2. Data'
  BY VettedTyped, StoreAssumption DEF Crash, Data
<1>3. RecordBehindSetMeta'
  <2> SUFFICES ASSUME NEW c \in Clients, pc'[c] = "save", call'[c].op = "SetMeta"
               PROVE  mem'[Inst(c)][call'[c].hash] # NoRecord
    BY DEF RecordBehindSetMeta, Inst
  <2>1. Proc(c) # p /\ pc[c] = "save" /\ call'[c] = call[c]
    BY DEF Crash
  <2>2. mem'[Inst(c)] = mem[Inst(c)]
    BY <2>1, Places DEF Crash, Proc, Inst
  <2> QED BY <2>1, <2>2 DEF RecordBehindSetMeta
<1> QED BY <1>1, <1>2, <1>3

\* A new instance keeps the invariant.
LEMMA ReopenKeepsInv ==
    ASSUME IInv, NEW i \in Insts, Reopen(i)
    PROVE  IInv'
<1> USE DEF IInv
<1>1. Control'
  BY DEF Reopen, Control, LockHeldByACall, Placed, Proc
<1>2. Data'
  BY VettedTyped DEF Reopen, Data
<1>3. RecordBehindSetMeta'
  BY DEF Reopen, RecordBehindSetMeta, Data, Inst
<1> QED BY <1>1, <1>2, <1>3

\* People who edit a folder keep the invariant.
LEMMA UsersKeepInv ==
    ASSUME IInv, NEW f \in Folders, NEW n \in Names, NEW h \in Hashes,
           UserAdds(f, n, h) \/ UserRemoves(f, n)
    PROVE  IInv'
<1> USE DEF IInv
<1>1. UNCHANGED <<disk, mem, blob, lock, reports, depth, pc, call, todo>>
  BY DEF UserAdds, UserRemoves
<1>2. Control' /\ RecordBehindSetMeta'
  BY <1>1 DEF Control, LockHeldByACall, Placed, Proc, RecordBehindSetMeta, Inst
<1>3. friendly' \in [Folders -> [Names -> Files \cup {NoFile}]]
  <2>1. Plain(h, ExtOf[n]) \in Files
    BY FilesTyped
  <2> QED BY <2>1 DEF UserAdds, UserRemoves, Data
<1> QED BY <1>1, <1>2, <1>3 DEF Data

\* Every step keeps the invariant.
LEMMA StepKeepsInv == IInv /\ [Next]_vars => IInv'
<1> SUFFICES ASSUME IInv, [Next]_vars PROVE IInv'
  OBVIOUS
<1>1. CASE \E c \in Clients : ClientStep(c)
  BY <1>1, ClientStepKeepsInv
<1>2. CASE \E p \in Procs : Crash(p)
  BY <1>2, CrashKeepsInv
<1>3. CASE \E i \in Insts : Reopen(i)
  BY <1>3, ReopenKeepsInv
<1>4. CASE \E f \in Folders, n \in Suggested, h \in Hashes \ {Torn} : UserAdds(f, n, h)
  BY <1>4, UsersKeepInv, StoreAssumption
<1>5. CASE \E f \in Folders, n \in Names : UserRemoves(f, n)
  BY <1>5, UsersKeepInv, IndexAssumption
<1>6. CASE UNCHANGED vars
  BY <1>6 DEF vars, IInv, Control, LockHeldByACall, Placed, Proc, Data, RecordBehindSetMeta, Inst
<1> QED BY <1>1, <1>2, <1>3, <1>4, <1>5, <1>6 DEF Next

\* The invariant always holds.
LEMMA Invariance == Spec => []IInv
  BY InitInv, StepKeepsInv, PTL DEF Spec

\* Every variable keeps its type, whatever the bounds, the failures and the interleaving.
THEOREM TypeCorrect == Spec => []TypeOK
<1>1. IInv => TypeOK
  BY DEF IInv, Control, Data, TypeOK
<1> QED BY <1>1, Invariance, PTL

\* No call leaves the index lock behind, on any path: successful, early or failed, and
\* whatever the other goroutines, the crashes and the people do.
THEOREM NoLockLeftBehind == Spec => []LockHeldByACall
<1>1. IInv => LockHeldByACall
  BY DEF IInv, Control
<1> QED BY <1>1, Invariance, PTL

-----------------------------------------------------------------------------
(* One process: no association is lost. *)

\* All instances live in one process, as NewFSStore's indexLock assumes.
SingleProcess == \A i, j \in Insts : ProcOf[i] = ProcOf[j]

\* The vetting refuses no name a caller suggests.
AllNamesValid == ValidNames = Names

\* A mutation starts with a reload, and until it is over touches neither memory nor file.
LEMMA MutationFrame ==
    ASSUME IInv, NEW c \in Clients, ClientStep(c), pc'[c] \in Mutating
    PROVE  /\ UNCHANGED disk
           /\ LockAndReload(c) \/ (pc[c] \in Mutating /\ UNCHANGED mem)
<1> USE DEF IInv
<1>1. CASE Invoke(c) \/ EnterReport(c) \/ ExitReport(c)
  BY <1>1 DEF Invoke, EnterReport, ExitReport, At, Goto, Control, Mutating
<1>2. CASE Acquire(c)
  BY <1>2 DEF Acquire, BeginAdd, BeginSetMeta, BeginForget, Inspect, BeginResolve, BeginAssets,
              BeginPending
<1>3. CASE CreateBlob(c) \/ FillBlob(c) \/ ChooseFriendly(c)
  BY <1>3 DEF CreateBlob, FillBlob, ChooseFriendly, At, Mutating
<1>4. CASE LinkFriendly(c)
  BY <1>4 DEF LinkFriendly, Refused, At, Mutating
<1>5. CASE \/ FillBlobFails(c) \/ LinkFriendlyFails(c) \/ SaveFails(c)
           \/ RemoveBlobFails(c) \/ EraseRecordFails(c) \/ EraseRecord(c)
  <2>1. pc'[c] = "idle"
    BY <1>5, ReturnStays DEF FillBlobFails, LinkFriendlyFails, SaveFails, RemoveBlobFails,
       EraseRecordFails, EraseRecord
  <2> QED BY <2>1 DEF Mutating
<1>6. CASE Save(c)
  <2>1. pc'[c] \in {"idle", "read"}
    BY <1>6, ReturnStays DEF Save, Goto, Control
  <2> QED BY <2>1 DEF Mutating
<1>7. CASE CheckFriendly(c) \/ UnlinkFriendly(c) \/ UnlinkFriendlyFails(c) \/ RemoveBlob(c)
  BY <1>7 DEF CheckFriendly, UnlinkFriendly, UnlinkFriendlyFails, RemoveBlob, At, Mutating
<1>8. CASE \/ ProbeAsset(c) \/ CreateAsset(c) \/ ReadPath(c) \/ RestorePath(c) \/ RestoreFails(c)
           \/ RereadPath(c) \/ ListFolder(c)
  <2>1. pc'[c] \in {"idle", "read", "asset", "lock", "create", "restore", "reread"}
    <3>1. CASE Return(c)
      BY <3>1, ReturnStays
    <3>2. CASE NextVisit(c)
      BY <3>2, NextVisitStays
    <3>3. CASE \E content : ReadDone(c, content)
      BY <3>3, ReadDoneStays
    <3>4. CASE \E there \in {"read", "create", "restore", "reread"} : Goto(c, there)
      BY <3>4 DEF Goto, Control
    <3> QED BY <1>8, <3>1, <3>2, <3>3, <3>4
        DEF ProbeAsset, CreateAsset, ReadPath, RestorePath, RestoreFails, RereadPath, ListFolder
  <2> QED BY <2>1 DEF Mutating
<1> QED BY <1>1, <1>2, <1>3, <1>4, <1>5, <1>6, <1>7, <1>8 DEF ClientStep, Proceed, Fail

\* Only a client about to save or to erase writes the file.
LEMMA DiskFrame ==
    ASSUME NEW c \in Clients, ClientStep(c), disk' # disk
    PROVE  Save(c) \/ EraseRecord(c)
<1>1. CASE Invoke(c) \/ EnterReport(c) \/ ExitReport(c)
  BY <1>1 DEF Invoke, EnterReport, ExitReport
<1>2. CASE Acquire(c)
  BY <1>2 DEF Acquire, BeginAdd, BeginSetMeta, BeginForget, Inspect, BeginResolve, BeginAssets,
              BeginPending
<1>3. CASE CreateBlob(c) \/ FillBlob(c) \/ ChooseFriendly(c) \/ LinkFriendly(c)
  BY <1>3 DEF CreateBlob, FillBlob, ChooseFriendly, LinkFriendly
<1>4. CASE \/ CheckFriendly(c) \/ UnlinkFriendly(c) \/ RemoveBlob(c)
           \/ ProbeAsset(c) \/ CreateAsset(c)
           \/ ReadPath(c) \/ RestorePath(c) \/ RereadPath(c) \/ ListFolder(c)
  BY <1>4 DEF CheckFriendly, UnlinkFriendly, RemoveBlob, ProbeAsset, CreateAsset, ReadPath,
              RestorePath, RereadPath, ListFolder
<1>5. CASE Fail(c)
  BY <1>5 DEF Fail, FillBlobFails, LinkFriendlyFails, SaveFails, UnlinkFriendlyFails,
              RemoveBlobFails, EraseRecordFails, RestoreFails
<1> QED BY <1>1, <1>2, <1>3, <1>4, <1>5 DEF ClientStep, Proceed

\* What WriterKnowsTheDisk adds to the lock discipline.
MemoryCoversDisk ==
    \A c \in Clients : pc[c] \in Mutating =>
        \A h \in Hashes, k \in Ids : HasId(disk, h, k) => HasId(mem[Inst(c)], h, k)

\* No step of a client leaves a running mutation ignorant of an id on disk.
LEMMA ClientStepKeepsCover ==
    ASSUME SingleProcess, AllNamesValid, IInv, MemoryCoversDisk,
           NEW c \in Clients, ClientStep(c)
    PROVE  MemoryCoversDisk'
<1> USE DEF IInv
<1> SUFFICES ASSUME NEW d \in Clients, pc'[d] \in Mutating,
                    NEW h \in Hashes, NEW k \in Ids, HasId(disk', h, k)
             PROVE  HasId(mem'[Inst(d)], h, k)
  BY DEF MemoryCoversDisk, Inst, HasId
<1>1. OthersStay(c) /\ MemoryFrame(c)
  BY ClientStepKeepsInv
<1>2. CASE d # c
  <2>1. pc[d] \in Mutating
    BY <1>1, <1>2 DEF OthersStay
  <2>2. lock[Proc(c)] = d
    <3>1. Proc(c) = Proc(d)
      BY Places DEF SingleProcess, Proc, Inst
    <3> QED BY <2>1, <3>1 DEF Control, Placed
  <2>3. UNCHANGED mem
    BY <1>1, <1>2, <2>2, StoreAssumption DEF MemoryFrame
  <2>4. UNCHANGED disk
    <3>1. ~ (Save(c) \/ EraseRecord(c))
      BY <1>2, <2>2 DEF Save, EraseRecord, At, Control, Placed, Mutating
    <3> QED BY <3>1, DiskFrame
  <2> QED BY <2>1, <2>3, <2>4 DEF MemoryCoversDisk
<1>3. CASE d = c
  <2>1. UNCHANGED disk
    BY <1>3, MutationFrame
  <2>2. CASE LockAndReload(c)
    <3>1. mem'[Inst(c)] = Reload(mem[Inst(c)], disk)
      BY <2>2, LockAndReloadTyped
    <3>2. HasId(disk, h, k) /\ mem[Inst(c)] \in Indexes /\ disk \in Indexes
      BY <2>1, Places DEF Data
    <3> QED BY <1>3, <3>1, <3>2, ReloadKnowsTheDisk DEF AllNamesValid
  <2>3. CASE pc[c] \in Mutating /\ UNCHANGED mem
    BY <1>3, <2>1, <2>3 DEF MemoryCoversDisk
  <2> QED BY <1>3, <2>2, <2>3, MutationFrame
<1> QED BY <1>2, <1>3

\* Nor does any other step.
LEMMA StepKeepsCover ==
    ASSUME SingleProcess, AllNamesValid, IInv, MemoryCoversDisk, [Next]_vars
    PROVE  MemoryCoversDisk'
<1>1. CASE \E c \in Clients : ClientStep(c)
  BY <1>1, ClientStepKeepsCover
<1>2. CASE \E p \in Procs : Crash(p)
  <2>1. PICK p \in Procs : Crash(p)
    BY <1>2
  <2>2. ASSUME NEW c \in Clients, pc'[c] \in Mutating
        PROVE  pc[c] \in Mutating /\ Proc(c) # p
    BY <2>1, <2>2 DEF Crash, Mutating
  <2>3. ASSUME NEW c \in Clients, pc'[c] \in Mutating
        PROVE  mem'[Inst(c)] = mem[Inst(c)]
    BY <2>1, <2>2, <2>3, Places DEF Crash, Proc, Inst
  <2> QED BY <2>1, <2>2, <2>3 DEF MemoryCoversDisk, Crash, Inst
<1>3. CASE \E i \in Insts : Reopen(i)
  <2>1. PICK i \in Insts : Reopen(i)
    BY <1>3
  <2>2. ASSUME NEW c \in Clients, pc[c] \in Mutating
        PROVE  mem'[Inst(c)] = mem[Inst(c)]
    BY <2>1, <2>2, Places DEF Reopen, Mutating, IInv, Data
  <2> QED BY <2>1, <2>2 DEF MemoryCoversDisk, Reopen, Inst
<1>4. CASE \/ \E f \in Folders, n \in Suggested, h \in Hashes \ {Torn} : UserAdds(f, n, h)
           \/ \E f \in Folders, n \in Names : UserRemoves(f, n)
           \/ UNCHANGED vars
  BY <1>4 DEF UserAdds, UserRemoves, vars, MemoryCoversDisk, Inst
<1> QED BY <1>1, <1>2, <1>3, <1>4 DEF Next

\* In one process, and for names the vetting accepts, a mutation that runs owns the index
\* lock and its memory knows every association on disk, whatever instances it shares the
\* index with, whichever operations failed before and however often instances are reopened.
THEOREM MutationsKnowTheDisk ==
    ASSUME SingleProcess, AllNamesValid
    PROVE  Spec => []WriterKnowsTheDisk
<1>1. Init => MemoryCoversDisk
  BY DEF Init, MemoryCoversDisk, Mutating
<1>2. IInv /\ MemoryCoversDisk /\ [Next]_vars => MemoryCoversDisk'
  BY StepKeepsCover
<1>3. IInv /\ MemoryCoversDisk => WriterKnowsTheDisk
  BY DEF IInv, Control, Placed, MemoryCoversDisk, WriterKnowsTheDisk
<1> QED BY <1>1, <1>2, <1>3, Invariance, PTL DEF Spec

\* The record a save writes has every id the one in memory had.
LEMMA SavedKeepsIds ==
    ASSUME IInv, NEW c \in Clients, pc[c] = "save", NEW k \in Ids,
           HasId(mem[Inst(c)], call[c].hash, k)
    PROVE  Updated(c) # NoRecord /\ Updated(c).ids[k] # NoScope
<1> DEFINE r == mem[Inst(c)][call[c].hash]
<1>1. /\ call[c].hash \in Hashes /\ call[c].name \in Names /\ call[c].id \in Ids
      /\ call[c].scope \in Scopes
  BY DEF IInv, Control, Calls
<1>2. r \in Records /\ r # NoRecord /\ r.ids[k] # NoScope
  BY <1>1, Places DEF IInv, Data, Indexes, HasId
<1>3. Updated(c) # NoRecord
  BY UpdatedTyped, NoRecordAssumption
<1>4. /\ Stored(r, call[c].name) \in Records
      /\ Stored(r, call[c].name).ids = r.ids
  BY <1>1, <1>2, StoredTyped
<1>5. CASE call[c].op = "SetMeta"
  BY <1>2, <1>3, <1>5 DEF Updated, Records
<1>6. CASE call[c].op = "Put"
  BY <1>2, <1>3, <1>4, <1>6 DEF Updated
<1>7. CASE call[c].op \notin {"SetMeta", "Put"}
  <2>1. Updated(c) = WithID(Stored(r, call[c].name), call[c].id, call[c].scope)
    BY <1>7 DEF Updated
  <2>2. Updated(c).ids = [r.ids EXCEPT ![call[c].id] = call[c].scope]
    BY <1>1, <1>4, <2>1, WithIDTyped
  <2>3. call[c].scope # NoScope
    BY <1>1, IndexAssumption
  <2> QED BY <1>1, <1>2, <1>3, <2>2, <2>3 DEF Records
<1> QED BY <1>5, <1>6, <1>7

\* A step loses no media id but by erasing the record a Forget names.
LEMMA StepLosesNoId ==
    ASSUME IInv, WriterKnowsTheDisk, [Next]_vars,
           NEW h \in Hashes, NEW k \in Ids, HasId(disk, h, k)
    PROVE  HasId(disk', h, k) \/ \E c \in Clients : At(c, "erase") /\ call[c].hash = h
<1>1. CASE disk' = disk
  BY <1>1 DEF HasId
<1>2. CASE disk' # disk
  <2>1. PICK c \in Clients : ClientStep(c)
    BY <1>2 DEF Next, Crash, Reopen, UserAdds, UserRemoves, vars
  <2>2. CASE Save(c)
    <3>1. pc[c] = "save" /\ HasId(mem[Inst(c)], h, k)
      BY <2>2 DEF Save, At, WriterKnowsTheDisk, Mutating
    <3>2. disk' = [mem[Inst(c)] EXCEPT ![call[c].hash] = Updated(c)] /\ mem[Inst(c)] \in Indexes
      BY <2>2, Places DEF Save, IInv, Data
    <3>3. CASE h = call[c].hash
      <4>1. disk'[h] = Updated(c)
        BY <3>2, <3>3 DEF Indexes
      <4> QED BY <3>1, <3>3, <4>1, SavedKeepsIds DEF HasId
    <3>4. CASE h # call[c].hash
      BY <3>1, <3>2, <3>4 DEF HasId, Indexes
    <3> QED BY <3>3, <3>4
  <2>3. CASE EraseRecord(c)
    <3>1. At(c, "erase") /\ HasId(mem[Inst(c)], h, k)
      BY <2>3 DEF EraseRecord, At, WriterKnowsTheDisk, Mutating
    <3>2. CASE h = call[c].hash
      BY <3>1, <3>2
    <3>3. CASE h # call[c].hash
      <4>1. disk' = [mem[Inst(c)] EXCEPT ![call[c].hash] = NoRecord] /\ mem[Inst(c)] \in Indexes
        BY <1>2, <2>3, Places DEF EraseRecord, IInv, Data
      <4> QED BY <3>1, <3>3, <4>1 DEF HasId, Indexes
    <3> QED BY <3>2, <3>3
  <2> QED BY <1>2, <2>1, <2>2, <2>3, DiskFrame
<1> QED BY <1>1, <1>2

\* "An association recorded through one instance is not lost by another": in one process,
\* with names the vetting accepts, only a Forget of its content takes an id off the disk.
THEOREM AssociationsLast ==
    ASSUME SingleProcess, AllNamesValid
    PROVE  Spec => NoAssociationLost
<1>1. ASSUME IInv, WriterKnowsTheDisk, [Next]_vars
      PROVE  \A h \in Hashes, k \in Ids :
               HasId(disk, h, k) => \/ HasId(disk', h, k)
                                    \/ \E c \in Clients : At(c, "erase") /\ call[c].hash = h
  BY <1>1, StepLosesNoId
<1> QED BY <1>1, Invariance, MutationsKnowTheDisk, PTL DEF Spec, NoAssociationLost

-----------------------------------------------------------------------------
(* The folders. *)

\* A client adds a file where there is none, or removes the link to the blob it forgets.
FolderFrame(c) ==
    \/ UNCHANGED friendly
    \/ /\ pc[c] \in {"link", "create", "restore"}
       /\ \E n \in Names, file \in Files :
            /\ FileOf(c, n) = NoFile
            /\ friendly' = [friendly EXCEPT ![Folder(c)][n] = file]
    \/ /\ pc[c] = "drop"
       /\ friendly' = [friendly EXCEPT ![Folder(c)][call[c].name] = NoFile]

\* Creating a file fills an empty place, and touches nothing else.
LEMMA MaterializeFrame ==
    ASSUME IInv, NEW c \in Clients, Materialize(c) \/ HalfMade(c, call[c].name),
           pc[c] \in {"link", "create", "restore"}
    PROVE  FolderFrame(c)
<1>1. call[c].name \in Names /\ call[c].hash \in Hashes
  BY DEF IInv, Control, Calls
<1>2. Made(call[c].hash, call[c].name, BlobContent(call[c].hash, call[c].name)) \subseteq Files
  BY <1>1, FilesTyped, StoreAssumption DEF BlobContent
<1>3. Plain(Torn, ExtOf[call[c].name]) \in Files
  BY <1>1, FilesTyped, StoreAssumption
<1> QED BY <1>1, <1>2, <1>3 DEF Materialize, HalfMade, FolderFrame

\* A step of a client changes its folder only as the frame allows.
LEMMA FolderStep ==
    ASSUME IInv, NEW c \in Clients, ClientStep(c)
    PROVE  FolderFrame(c)
<1>1. CASE UNCHANGED friendly
  BY <1>1 DEF FolderFrame
<1>2. CASE LinkFriendly(c)
  <2>1. call[c].name \in Names /\ call[c].hash \in Hashes
    BY DEF IInv, Control, Calls
  <2>2. Made(call[c].hash, call[c].name, call[c].hash) \subseteq Files
    BY <2>1, FilesTyped
  <2> QED BY <1>2, <2>1, <2>2 DEF LinkFriendly, Refused, At, FolderFrame
<1>3. CASE LinkFriendlyFails(c) \/ RestoreFails(c)
  BY <1>3, MaterializeFrame DEF LinkFriendlyFails, RestoreFails, At
<1>4. CASE CreateAsset(c) \/ RestorePath(c)
  BY <1>4, <1>1, MaterializeFrame DEF CreateAsset, RestorePath, At
<1>5. CASE UnlinkFriendly(c)
  BY <1>5 DEF UnlinkFriendly, At, FolderFrame
<1>6. CASE Invoke(c) \/ EnterReport(c) \/ ExitReport(c) \/ Acquire(c)
  BY <1>1, <1>6 DEF Invoke, EnterReport, ExitReport, Acquire, BeginAdd, BeginSetMeta,
     BeginForget, Inspect, BeginResolve, BeginAssets, BeginPending
<1>7. CASE \/ CreateBlob(c) \/ FillBlob(c) \/ FillBlobFails(c) \/ ChooseFriendly(c)
           \/ Save(c) \/ SaveFails(c)
           \/ CheckFriendly(c) \/ UnlinkFriendlyFails(c) \/ RemoveBlob(c) \/ RemoveBlobFails(c)
           \/ EraseRecord(c) \/ EraseRecordFails(c)
           \/ ProbeAsset(c) \/ ReadPath(c) \/ RereadPath(c) \/ ListFolder(c)
  BY <1>1, <1>7 DEF CreateBlob, FillBlob, FillBlobFails, ChooseFriendly, Save, SaveFails,
     CheckFriendly, UnlinkFriendlyFails, RemoveBlob, RemoveBlobFails, EraseRecord, EraseRecordFails,
     ProbeAsset, ReadPath, RereadPath, ListFolder
<1> QED BY <1>2, <1>3, <1>4, <1>5, <1>6, <1>7 DEF ClientStep, Proceed, Fail

\* In one process a mutation keeps everyone else from the lock.
LEMMA OneMutator ==
    ASSUME SingleProcess, Control, NEW c \in Clients, NEW d \in Clients,
           pc[d] \in Mutating, pc[c] \in Mutating \/ lock[Proc(c)] \in {c, Nobody}
    PROVE  c = d
<1>1. Proc(c) = Proc(d)
  BY Places DEF SingleProcess, Proc, Inst
<1>2. lock[Proc(c)] = d
  BY <1>1 DEF Control, Placed
<1>3. lock[Proc(c)] \in {c, Nobody}
  BY DEF Control, Placed
<1> QED BY <1>2, <1>3, StoreAssumption

\* What a Forget is about to remove is the link it found.
DropsItsLink ==
    \A c \in Clients :
        pc[c] = "drop" => FileOf(c, call[c].name) = Link(call[c].hash, call[c].ext)

\* A client heads for the removal by having found the link.
LEMMA FindsItsLink ==
    ASSUME IInv, NEW c \in Clients, ClientStep(c), pc'[c] = "drop"
    PROVE  /\ UNCHANGED friendly
           /\ FileOf(c, call'[c].name) = Link(call'[c].hash, call'[c].ext)
<1> USE DEF IInv
<1>1. ASSUME NEW there \in Locations \ {"drop"}, Goto(c, there) PROVE FALSE
  BY <1>1 DEF Control, Goto
<1>2. ASSUME Return(c) PROVE FALSE
  BY <1>2, ReturnStays
<1>3. ASSUME NextVisit(c) PROVE FALSE
  BY <1>3, NextVisitStays
<1>4. ASSUME NEW content, ReadDone(c, content) PROVE FALSE
  BY <1>4, ReadDoneStays
<1>5. CASE Invoke(c)
  BY <1>1, <1>5 DEF Invoke, Locations
<1>6. CASE EnterReport(c) \/ ExitReport(c)
  BY <1>6 DEF EnterReport, ExitReport, At
<1>7. CASE BeginAdd(c) \/ BeginSetMeta(c) \/ BeginForget(c) \/ Inspect(c)
  BY <1>1, <1>2, <1>7 DEF BeginAdd, BeginSetMeta, BeginForget, Inspect, Locations
<1>8. CASE BeginResolve(c) \/ BeginAssets(c) \/ BeginPending(c)
  BY <1>1, <1>2, <1>8 DEF BeginResolve, BeginAssets, BeginPending, Locations
<1>9. CASE CreateBlob(c) \/ FillBlob(c) \/ ChooseFriendly(c) \/ LinkFriendly(c) \/ Save(c)
  BY <1>1, <1>2, <1>9 DEF CreateBlob, FillBlob, ChooseFriendly, LinkFriendly, Refused, Save, Locations
<1>10. CASE CheckFriendly(c)
  <2> DEFINE h == call[c].hash
             r == mem[Inst(c)][h]
  <2>1. /\ Matches(c, r.name, <<h, call[c].ext>>)
        /\ call' = [call EXCEPT ![c].name = r.name] /\ UNCHANGED friendly
    BY <1>1, <1>10 DEF CheckFriendly, Locations
  <2> HIDE DEF r
  <2>2. call'[c].name = r.name /\ call'[c].hash = h /\ call'[c].ext = call[c].ext
    BY <2>1 DEF Control, Calls
  <2> QED BY <2>1, <2>2 DEF Matches
<1>11. CASE UnlinkFriendly(c) \/ RemoveBlob(c) \/ EraseRecord(c)
  BY <1>1, <1>2, <1>11 DEF UnlinkFriendly, RemoveBlob, EraseRecord, Locations
<1>12. CASE ProbeAsset(c) \/ CreateAsset(c)
  BY <1>1, <1>3, <1>12 DEF ProbeAsset, CreateAsset, Locations
<1>13. CASE ReadPath(c)
  BY <1>1, <1>4, <1>13 DEF ReadPath, Locations
<1>14. CASE RestorePath(c) \/ RereadPath(c) \/ RestoreFails(c)
  BY <1>1, <1>4, <1>14 DEF RestorePath, RereadPath, RestoreFails, Locations
<1>15. CASE ListFolder(c)
  BY <1>1, <1>2, <1>15 DEF ListFolder, Locations
<1>16. CASE Fail(c)
  BY <1>1, <1>2, <1>4, <1>16 DEF Fail, FillBlobFails, LinkFriendlyFails, SaveFails,
     UnlinkFriendlyFails, RemoveBlobFails, EraseRecordFails, RestoreFails, Locations
<1> QED BY <1>5, <1>6, <1>7, <1>8, <1>9, <1>10, <1>11, <1>12, <1>13, <1>14, <1>15, <1>16
        DEF ClientStep, Acquire, Proceed

\* Between the look and the removal nobody touches the link: other calls only add files
\* where there are none, other mutations wait for the lock, and people only add.
LEMMA StepKeepsItsLink ==
    ASSUME SingleProcess, "removes" \notin UserEdits, IInv, DropsItsLink, [Next]_vars
    PROVE  DropsItsLink'
<1> SUFFICES ASSUME NEW c \in Clients, pc'[c] = "drop"
             PROVE  friendly'[Folder(c)][call'[c].name] = Link(call'[c].hash, call'[c].ext)
  BY DEF DropsItsLink, FileOf, Folder, Inst
<1>0. /\ friendly \in [Folders -> [Names -> Files \cup {NoFile}]]
      /\ Folder(c) \in Folders
  BY Places DEF IInv, Data
<1>1. CASE ClientStep(c)
  BY <1>1, FindsItsLink DEF FileOf, Folder, Inst
<1>2. CASE \E d \in Clients \ {c} : ClientStep(d)
  <2>1. PICK d \in Clients \ {c} : ClientStep(d)
    BY <1>2
  <2>2. pc[c] = "drop" /\ call'[c] = call[c]
    BY <2>1, ClientStepKeepsInv DEF OthersStay
  <2>3. FileOf(c, call[c].name) = Link(call[c].hash, call[c].ext)
    BY <2>2 DEF DropsItsLink
  <2>4. pc[d] \notin Mutating
    BY <2>1, <2>2, OneMutator DEF IInv, Mutating
  <2>5. FolderFrame(d)
    BY <2>1, FolderStep
  <2>6. CASE UNCHANGED friendly
    BY <2>2, <2>3, <2>6 DEF FileOf, Folder, Inst
  <2>7. CASE \E n \in Names, file \in Files :
               /\ FileOf(d, n) = NoFile
               /\ friendly' = [friendly EXCEPT ![Folder(d)][n] = file]
    <3>1. PICK n \in Names, file \in Files :
            /\ FileOf(d, n) = NoFile
            /\ friendly' = [friendly EXCEPT ![Folder(d)][n] = file]
      BY <2>7
    <3>2. call[c].name \in Names /\ Link(call[c].hash, call[c].ext) # NoFile
      BY NoFileAssumption DEF IInv, Control, Calls, Link, Files
    <3>3. ~ (Folder(d) = Folder(c) /\ n = call[c].name)
      BY <2>3, <3>1, <3>2 DEF FileOf
    <3> QED BY <1>0, <2>1, <2>2, <2>3, <3>1, <3>2, <3>3, Places DEF FileOf, Folder, Inst
  <2> QED BY <2>4, <2>5, <2>6, <2>7 DEF FolderFrame, Mutating
<1>3. CASE \E p \in Procs : Crash(p)
  <2>1. pc[c] = "drop" /\ call'[c] = call[c] /\ UNCHANGED friendly
    BY <1>3 DEF Crash
  <2> QED BY <2>1 DEF DropsItsLink, FileOf, Folder, Inst
<1>4. CASE \E f \in Folders, n \in Suggested, h \in Hashes \ {Torn} : UserAdds(f, n, h)
  <2>1. PICK f \in Folders, n \in Suggested, h \in Hashes \ {Torn} : UserAdds(f, n, h)
    BY <1>4
  <2>2. pc[c] = "drop" /\ UNCHANGED call
    BY <2>1 DEF UserAdds
  <2>3. FileOf(c, call[c].name) = Link(call[c].hash, call[c].ext)
    BY <2>2 DEF DropsItsLink
  <2>4. call[c].name \in Names /\ Link(call[c].hash, call[c].ext) # NoFile
    BY NoFileAssumption DEF IInv, Control, Calls, Link, Files
  <2>5. /\ friendly[f][n] = NoFile
        /\ friendly' = [friendly EXCEPT ![f][n] = Plain(h, ExtOf[n])]
    BY <2>1 DEF UserAdds
  <2>6. ~ (f = Folder(c) /\ n = call[c].name)
    BY <2>3, <2>4, <2>5 DEF FileOf
  <2>7. friendly'[Folder(c)][call[c].name] = friendly[Folder(c)][call[c].name]
    BY <1>0, <2>4, <2>5, <2>6
  <2> QED BY <2>2, <2>3, <2>7 DEF FileOf, Folder, Inst
<1>5. CASE (\E i \in Insts : Reopen(i)) \/ UNCHANGED vars
  BY <1>5 DEF Reopen, vars, DropsItsLink, FileOf, Folder, Inst
<1>6. CASE \E f \in Folders, n \in Names : UserRemoves(f, n)
  BY <1>6 DEF UserRemoves
<1> QED BY <1>1, <1>2, <1>3, <1>4, <1>5, <1>6 DEF Next

\* What a Forget removes is the link it found.
LEMMA LinksFoundAreDropped ==
    ASSUME SingleProcess, "removes" \notin UserEdits
    PROVE  Spec => []DropsItsLink
<1>1. Init => DropsItsLink
  BY DEF Init, DropsItsLink
<1>2. IInv /\ DropsItsLink /\ [Next]_vars => DropsItsLink'
  BY StepKeepsItsLink
<1> QED BY <1>1, <1>2, Invariance, PTL DEF Spec

\* In one process, and while people add files and remove none, no call replaces a file of a
\* folder or takes a plain one away, whatever appears between a look and what follows it,
\* which removals fail and when the process dies.
THEOREM FolderFilesSurvive ==
    ASSUME SingleProcess, "removes" \notin UserEdits
    PROVE  Spec => FriendlyFilesKept
<1>1. ASSUME IInv, DropsItsLink, [Next]_vars, NEW f \in Folders, NEW n \in Names
      PROVE  FileKept(f, n)
  <2>1. friendly \in [Folders -> [Names -> Files \cup {NoFile}]]
    BY <1>1 DEF IInv, Data
  <2>2. CASE \E c \in Clients : ClientStep(c)
    <3>1. PICK c \in Clients : FolderFrame(c)
      BY <1>1, <2>2, FolderStep
    <3>2. CASE UNCHANGED friendly
      BY <3>2 DEF FileKept
    <3>3. CASE \E x \in Names, file \in Files :
                 /\ FileOf(c, x) = NoFile
                 /\ friendly' = [friendly EXCEPT ![Folder(c)][x] = file]
      BY <2>1, <3>3, Places DEF FileOf, FileKept
    <3>4. CASE /\ pc[c] = "drop"
               /\ friendly' = [friendly EXCEPT ![Folder(c)][call[c].name] = NoFile]
      <4>1. FileOf(c, call[c].name) = Link(call[c].hash, call[c].ext)
        BY <1>1, <3>4 DEF DropsItsLink
      <4>2. call[c].name \in Names
        BY <1>1 DEF IInv, Control, Calls
      <4> QED BY <2>1, <3>4, <4>1, <4>2, Places DEF FileOf, At, FileKept
    <3> QED BY <3>1, <3>2, <3>3, <3>4 DEF FolderFrame
  <2>3. CASE \E g \in Folders, x \in Suggested, h \in Hashes \ {Torn} : UserAdds(g, x, h)
    BY <2>1, <2>3, StoreAssumption DEF UserAdds, FileKept
  <2>4. CASE \E g \in Folders, x \in Names : UserRemoves(g, x)
    BY <2>4 DEF UserRemoves
  <2>5. CASE \/ \E p \in Procs : Crash(p)
             \/ \E i \in Insts : Reopen(i)
             \/ UNCHANGED vars
    BY <2>5 DEF Crash, Reopen, vars, FileKept
  <2> QED BY <1>1, <2>2, <2>3, <2>4, <2>5 DEF Next
<1>2. ASSUME IInv, DropsItsLink, [Next]_vars
      PROVE  \A f \in Folders, n \in Names : FileKept(f, n)
  BY <1>1, <1>2
<1> QED BY <1>2, Invariance, LinksFoundAreDropped, PTL DEF Spec, FriendlyFilesKept

-----------------------------------------------------------------------------
(* Report scopes. *)

\* Every scope a client opened is still counted, and no client inside one is about to
\* create a file for an answer.
ScopesCounted ==
    \A c \in Clients :
        /\ \A k \in 1 .. depth[c] : <<c, k>> \in reports[Inst(c)]
        /\ depth[c] > 0 => pc[c] \notin {"create", "restore"}

\* Scopes are opened and closed between calls only.
LEMMA ScopeFrame ==
    ASSUME NEW c \in Clients, ClientStep(c)
    PROVE  EnterReport(c) \/ ExitReport(c) \/ UNCHANGED <<depth, reports>>
<1>1. CASE Invoke(c) \/ Acquire(c)
  BY <1>1 DEF Invoke, Acquire, BeginAdd, BeginSetMeta, BeginForget, Inspect, BeginResolve,
     BeginAssets, BeginPending
<1>2. CASE Proceed(c)
  BY <1>2 DEF Proceed, CreateBlob, FillBlob, ChooseFriendly, LinkFriendly, Save, CheckFriendly,
     UnlinkFriendly, RemoveBlob, EraseRecord, ProbeAsset, CreateAsset, ReadPath, RestorePath, RereadPath, ListFolder
<1>3. CASE Fail(c)
  BY <1>3 DEF Fail, FillBlobFails, LinkFriendlyFails, SaveFails, UnlinkFriendlyFails,
     RemoveBlobFails, EraseRecordFails, RestoreFails
<1> QED BY <1>1, <1>2, <1>3 DEF ClientStep

\* A call heads for creating a file only outside every scope.
LEMMA CreatesOutsideScopes ==
    ASSUME IInv, NEW c \in Clients, ClientStep(c), pc'[c] \in {"create", "restore"}
    PROVE  ~ Reporting(c) \/ pc'[c] = pc[c]
<1> USE DEF IInv
<1> SUFFICES ASSUME pc'[c] # pc[c], Reporting(c) PROVE FALSE
  OBVIOUS
<1>1. ASSUME NEW there \in Locations \ {"create", "restore"}, Goto(c, there)
      PROVE  FALSE
  BY <1>1 DEF Control, Goto
<1>2. ASSUME Return(c) PROVE FALSE
  BY <1>2, ReturnStays
<1>3. ASSUME NextVisit(c) PROVE FALSE
  BY <1>3, NextVisitStays
<1>4. ASSUME NEW content, ReadDone(c, content) PROVE FALSE
  BY <1>4, ReadDoneStays
<1>5. CASE Invoke(c) \/ EnterReport(c) \/ ExitReport(c)
  BY <1>1, <1>5 DEF Invoke, EnterReport, ExitReport, Locations
<1>6. CASE BeginAdd(c) \/ BeginSetMeta(c) \/ BeginForget(c) \/ Inspect(c)
  BY <1>1, <1>2, <1>6 DEF BeginAdd, BeginSetMeta, BeginForget, Inspect, Locations
<1>7. CASE BeginResolve(c) \/ BeginAssets(c) \/ BeginPending(c)
  BY <1>1, <1>2, <1>7 DEF BeginResolve, BeginAssets, BeginPending, Locations
<1>8. CASE CreateBlob(c) \/ FillBlob(c) \/ ChooseFriendly(c) \/ LinkFriendly(c) \/ Save(c)
  BY <1>1, <1>2, <1>8 DEF CreateBlob, FillBlob, ChooseFriendly, LinkFriendly, Refused, Save, Locations
<1>9. CASE CheckFriendly(c) \/ UnlinkFriendly(c) \/ RemoveBlob(c) \/ EraseRecord(c)
  BY <1>1, <1>2, <1>9 DEF CheckFriendly, UnlinkFriendly, RemoveBlob, EraseRecord, Locations
<1>10. CASE ProbeAsset(c)
  BY <1>1, <1>3, <1>10 DEF ProbeAsset, Locations
<1>11. CASE CreateAsset(c)
  BY <1>1, <1>3, <1>11 DEF CreateAsset, Locations
<1>12. CASE ReadPath(c)
  BY <1>4, <1>12 DEF ReadPath, Repairs
<1>13. CASE RestorePath(c) \/ RereadPath(c) \/ RestoreFails(c)
  BY <1>1, <1>4, <1>13 DEF RestorePath, RereadPath, RestoreFails, Locations
<1>14. CASE ListFolder(c)
  BY <1>1, <1>2, <1>14 DEF ListFolder, Locations
<1>15. CASE \/ FillBlobFails(c) \/ LinkFriendlyFails(c) \/ SaveFails(c)
            \/ UnlinkFriendlyFails(c) \/ RemoveBlobFails(c) \/ EraseRecordFails(c)
  BY <1>1, <1>2, <1>15 DEF FillBlobFails, LinkFriendlyFails, SaveFails, UnlinkFriendlyFails,
     RemoveBlobFails, EraseRecordFails, Locations
<1> QED BY <1>5, <1>6, <1>7, <1>8, <1>9, <1>10, <1>11, <1>12, <1>13, <1>14, <1>15
        DEF ClientStep, Acquire, Proceed, Fail

\* The calls and scopes of one client keep the count of all scopes.
LEMMA ClientStepKeepsScopes ==
    ASSUME IInv, ScopesCounted, NEW c \in Clients, ClientStep(c)
    PROVE  ScopesCounted'
<1> USE DEF IInv
<1> SUFFICES ASSUME NEW d \in Clients
             PROVE  /\ \A k \in 1 .. depth'[d] : <<d, k>> \in reports'[Inst(d)]
                    /\ depth'[d] > 0 => pc'[d] \notin {"create", "restore"}
  BY DEF ScopesCounted, Inst
<1>0. depth[d] \in Nat /\ depth[c] \in Nat /\ Inst(c) \in Insts /\ Inst(d) \in Insts
  BY Places, StoreAssumption DEF Data
<1>1. CASE EnterReport(c)
  <2>1. \A k \in 1 .. depth'[d] : <<d, k>> \in reports'[Inst(d)]
    BY <1>0, <1>1 DEF EnterReport, ScopesCounted, Data
  <2>2. depth'[d] > 0 => pc'[d] \notin {"create", "restore"}
    BY <1>0, <1>1 DEF EnterReport, ScopesCounted, Data, At
  <2> QED BY <2>1, <2>2
<1>2. CASE ExitReport(c)
  <2>1. \A k \in 1 .. depth'[d] : <<d, k>> \in reports'[Inst(d)]
    BY <1>0, <1>2 DEF ExitReport, Closed, ScopesCounted, Data
  <2>2. depth'[d] > 0 => pc'[d] \notin {"create", "restore"}
    BY <1>0, <1>2 DEF ExitReport, ScopesCounted, Data, At
  <2> QED BY <2>1, <2>2
<1>3. CASE UNCHANGED <<depth, reports>>
  <2>1. \A k \in 1 .. depth'[d] : <<d, k>> \in reports'[Inst(d)]
    BY <1>3 DEF ScopesCounted
  <2>2. CASE d # c
    <3>1. pc'[d] = pc[d]
      BY <2>2, ClientStepKeepsInv DEF OthersStay
    <3> QED BY <1>3, <2>1, <3>1 DEF ScopesCounted
  <2>3. CASE d = c
    <3>1. depth[c] > 0 => Reporting(c)
      <4>1. depth[c] > 0 => 1 \in 1 .. depth[c]
        BY <1>0
      <4> QED BY <4>1 DEF ScopesCounted, Reporting
    <3> QED BY <1>3, <2>1, <2>3, <3>1, CreatesOutsideScopes DEF ScopesCounted
  <2> QED BY <2>2, <2>3
<1> QED BY <1>1, <1>2, <1>3, ScopeFrame

\* Every step keeps the count of scopes.
LEMMA StepKeepsScopes ==
    ASSUME IInv, ScopesCounted, [Next]_vars
    PROVE  ScopesCounted'
<1>1. CASE \E c \in Clients : ClientStep(c)
  BY <1>1, ClientStepKeepsScopes
<1>2. CASE \E p \in Procs : Crash(p)
  <2>1. PICK p \in Procs : Crash(p)
    BY <1>2
  <2>2. ASSUME NEW c \in Clients
        PROVE  /\ \A k \in 1 .. depth'[c] : <<c, k>> \in reports'[Inst(c)]
               /\ depth'[c] > 0 => pc'[c] \notin {"create", "restore"}
    <3>1. CASE Proc(c) = p
      BY <2>1, <3>1 DEF Crash
    <3>2. CASE Proc(c) # p
      <4>1. depth'[c] = depth[c] /\ pc'[c] = pc[c] /\ reports'[Inst(c)] = reports[Inst(c)]
        BY <2>1, <3>2, Places DEF Crash, Proc, Inst
      <4> QED BY <4>1 DEF ScopesCounted
    <3> QED BY <3>1, <3>2
  <2> QED BY <2>2 DEF ScopesCounted, Inst
<1>3. CASE \/ \E i \in Insts : Reopen(i)
           \/ \E f \in Folders, n \in Suggested, h \in Hashes \ {Torn} : UserAdds(f, n, h)
           \/ \E f \in Folders, n \in Names : UserRemoves(f, n)
           \/ UNCHANGED vars
  BY <1>3 DEF Reopen, UserAdds, UserRemoves, vars, ScopesCounted, Inst
<1> QED BY <1>1, <1>2, <1>3 DEF Next

\* Inside a Report scope a call that only asks about media changes no folder, whatever
\* scopes other goroutines open and close on the same instance meanwhile.
THEOREM ReportsOnlyRead == Spec => ReportIsReadOnly
<1>1. Init => ScopesCounted
  BY DEF Init, ScopesCounted
<1>2. IInv /\ ScopesCounted /\ [Next]_vars => ScopesCounted'
  BY StepKeepsScopes
<1>3. ASSUME IInv, ScopesCounted, [Next]_vars, NEW c \in Clients
      PROVE  LeavesTheFolder(c)
  <2> SUFFICES ASSUME depth[c] > 0, pc'[c] # pc[c], call[c].op \notin {"Add", "Put", "Forget"}
               PROVE  friendly' = friendly
    BY DEF LeavesTheFolder
  <2>1. CASE \E d \in Clients : ClientStep(d)
    <3>1. PICK d \in Clients : ClientStep(d)
      BY <2>1
    <3>2. d = c
      BY <1>3, <3>1, ClientStepKeepsInv DEF OthersStay
    <3>3. FolderFrame(c)
      BY <1>3, <3>1, <3>2, FolderStep
    <3>4. pc[c] \notin {"link", "drop", "create", "restore"}
      BY <1>3 DEF ScopesCounted, IInv, Control, Placed
    <3> QED BY <3>3, <3>4 DEF FolderFrame
  <2>2. CASE \/ \E p \in Procs : Crash(p)
             \/ \E i \in Insts : Reopen(i)
             \/ \E f \in Folders, n \in Suggested, h \in Hashes \ {Torn} : UserAdds(f, n, h)
             \/ \E f \in Folders, n \in Names : UserRemoves(f, n)
             \/ UNCHANGED vars
    BY <2>2 DEF Crash, Reopen, UserAdds, UserRemoves, vars
  <2> QED BY <1>3, <2>1, <2>2 DEF Next
<1>4. ASSUME IInv, ScopesCounted, [Next]_vars
      PROVE  \A c \in Clients : LeavesTheFolder(c)
  BY <1>3, <1>4
<1> QED BY <1>1, <1>2, <1>4, Invariance, PTL DEF Spec, ReportIsReadOnly

=============================================================================
