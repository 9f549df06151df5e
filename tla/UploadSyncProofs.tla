--------------------------- MODULE UploadSyncProofs ---------------------------
(***************************************************************************)
(* What UploadSync guarantees for every value of its constants, proved     *)
(* with TLAPS: any number of pushers, layers, documents and files, any     *)
(* hooks, and any of the failures.                                         *)
(***************************************************************************)
EXTENDS PushSteps

-----------------------------------------------------------------------------
(* Where ids come from. *)

Recorded(k) == \E i \in IndexIds, h \in Hashes : ids[i][h][k] # NoScope

\* An id stands only in indexes it was minted for, under the scope of the push it was
\* minted for, and no two pushes were given the same one.
Provenance ==
    /\ \A k \in Ids : Recorded(k) => uploaded[k] # NoFile
    /\ \A c \in Pushers :
         /\ \A k \in job[c].minted :
              /\ uploaded[k] # NoFile
              /\ \A i \in IndexIds, h \in Hashes : ids[i][h][k] \in {job[c].view, NoScope}
         /\ \A n \in DOMAIN job[c].results : job[c].results[n].id \in job[c].minted
    /\ \A c, d \in Pushers : c # d => job[c].minted \cap job[d].minted = {}

\* What was encoded for a container is recorded for it, or for all.
SentToOwn ==
    \A c \in Pushers : job[c].view # Unscoped =>
        \A k \in IdsOf(c) : \E i \in IndexIds, h \in Hashes : ids[i][h][k] \in {job[c].view, Unscoped}

\* An id a push was given is recorded, still to be recorded, or reported.
Remembered ==
    \A c \in Pushers : \A k \in job[c].minted :
        \/ Recorded(k)
        \/ k \in job[c].failed /\ job[c].err
        \/ \E n \in DOMAIN job[c].results : job[c].results[n].id = k

\* An id stands in the index for the content it was minted for.
Truthful == \A i \in IndexIds, h \in Hashes, k \in Ids : ids[i][h][k] # NoScope => uploaded[k] = h

\* What a call has read of the files of its batch and of its results is what they hold.
Recalls(c) ==
    LET j == job[c]
    IN  /\ \A n \in DOMAIN j.batch : Load(j.batch[n].path) = j.batch[n].hash
        /\ \A n \in DOMAIN j.results : uploaded[j.results[n].id] = Load(j.results[n].path)
        /\ pc[c] \in {"read", "add"} => j.at = Loads(j.results[1].path)
        /\ pc[c] = "add" => j.read = Load(j.results[1].path)

\* So it is while nobody edits files.
Faithful == edits = 0 => Truthful /\ \A c \in Pushers : Recalls(c)

-----------------------------------------------------------------------------
(* The files a call is at. *)

\* Some layer has the file.
Firm(p) == p \in Paths /\ \E l \in Layers : file[l][p] # NoFile

\* The paths a call has put on a worklist.
Queue(l, j) ==
    IF l \in {"list", "load"} THEN ToSet(j.todo)
    ELSE IF l \in {"readable", "held"} THEN ToSet(j.paths) ELSE {}

\* Those it has asked for, listed, loaded or uploaded.
Handled(l, j) ==
    j.there \cup Queue(l, j) \cup {j.batch[n].path : n \in DOMAIN j.batch}
    \cup {j.results[n].path : n \in DOMAIN j.results}

\* Until somebody edits a file, a layer has every one of them: a read that answers from
\* the index has put the file back.
Finds ==
    \A c \in Pushers :
        /\ job[c].since <= edits
        /\ pc[c] = "held" => Head(job[c].todo) \in job[c].there
        /\ job[c].kind = "sync" => job[c].there \subseteq UNION {Lists[l] : l \in Layers}
        /\ job[c].since = edits => \A p \in Handled(pc[c], job[c]) : Firm(p)

-----------------------------------------------------------------------------
(* What is sent. *)

OnePusher == \A c, d \in Pushers : c = d

\* No file is in reach of two layers (a document's folder and the project's).
SeparateLayers == \A l, m \in Layers : l # m => Reaches[l] \cap Reaches[m] = {}

\* The file a path leads to has no id the scope may use.
New(s, p) == Load(p) # NoFile /\ ~ Visible(ids[IndexOf[Loads(p)]][Load(p)], s)

\* All a call is about to send is new, and no two of the files are the same.
NewToSend(l, j) ==
    /\ l \in {"list", "load"} => \A p \in ToSet(j.todo) : New(j.view, p)
    /\ l \in {"readable", "held"} => \A p \in ToSet(j.paths) : New(j.view, p)
    /\ l \in {"load", "upload"} => \A n \in DOMAIN j.batch : New(j.view, j.batch[n].path)
    /\ \A m, n \in DOMAIN j.batch : m # n => j.batch[m].hash # j.batch[n].hash
    /\ \A n \in DOMAIN j.results : New(j.view, j.results[n].path)
    /\ \A m, n \in DOMAIN j.results : m # n => Load(j.results[m].path) # Load(j.results[n].path)

\* So it is while nobody edits files, and for one pusher.
SendsNew == edits = 0 => \A c \in Pushers : NewToSend(pc[c], job[c])

-----------------------------------------------------------------------------
(* What is covered. *)

\* Nothing has gone wrong in the call, and nobody has touched a file since it began.
Clean(l, j) == l # "idle" /\ ~ j.err /\ j.full /\ j.since = edits

\* A picture has its id, or a layer with another index has the same content.
Answered(s, p) == Lookup(s, p) # 0 \/ Doubled(p)

\* The paths a call undertakes to upload.
Wanted(j) == IF j.kind = "sync" THEN UNION {Lists[l] : l \in Layers}
             ELSE LocalImages(ToSet(j.docs) \ {<<>>})

UploadsBefore(n) == \E i \in DOMAIN Hooks : i < n /\ Hooks[i] = "upload"

\* A document that was encoded asked for all its paths, and has an id for each of the
\* wanted ones that were there.
EncodedWell(j) ==
    \A i \in DOMAIN j.encoded :
        /\ DOMAIN j.encoded[i] = LookupKeys(j.docs[i])
        /\ \A p \in DOMAIN j.encoded[i] \cap j.there :
             p \in Wanted(j) => Doubled(p) \/ j.encoded[i][p] # 0

\* Each of them has its id, or is on the way to it in the stage the call has reached.
OnTheWay(l, j) ==
    /\ l = "list" => \A m \in Layers : m < j.at =>
         \A p \in Lists[m] \cap j.there : Answered(j.view, p) \/ p \in ToSet(j.todo)
    /\ l \in {"readable", "held"} => \A p \in Wanted(j) \cap j.there :
         Answered(j.view, p) \/ p \in ToSet(j.todo) \/ p \in ToSet(j.paths)
    /\ l = "load" => \A p \in Wanted(j) \cap j.there :
         Answered(j.view, p) \/ p \in ToSet(j.todo) \/ \E n \in DOMAIN j.batch : j.batch[n].hash = Load(p)
    /\ l = "upload" => \A p \in Wanted(j) \cap j.there :
         Answered(j.view, p) \/ \E n \in DOMAIN j.batch : j.batch[n].hash = Load(p)
    /\ \A n \in DOMAIN j.batch : Load(j.batch[n].path) = j.batch[n].hash
    /\ l \in Associating => \A p \in Wanted(j) \cap j.there :
         Answered(j.view, p) \/ \E n \in DOMAIN j.results : Load(j.results[n].path) = Load(p)
    /\ l \in {"read", "add"} => j.at = Loads(j.results[1].path)
    /\ l = "add" => j.read = Load(j.results[1].path)
    /\ l = "hook" /\ UploadsBefore(j.hook) => \A p \in Wanted(j) \cap j.there : Answered(j.view, p)
    /\ l \in {"encode", "done"} => \A p \in Wanted(j) \cap j.there : Answered(j.view, p)
    /\ EncodedWell(j)

Covered == \A c \in Pushers : Clean(pc[c], job[c]) => OnTheWay(pc[c], job[c])

-----------------------------------------------------------------------------
(* Types and places. *)

\* Every variable has its type, and a call that has a step to take has what it needs:
\* a reference to look up, a result to record and a layer to record it in.
THEOREM PushTypeCorrect == Spec => []TypeOK
<1>1. Typed /\ Control => TypeOK
  <2> SUFFICES ASSUME Typed, Control
               PROVE  TypeOK
    OBVIOUS
  <2>1. ASSUME NEW c \in Pushers
        PROVE  /\ pc[c] \in Places
               /\ job[c].todo \in Seq(Paths) /\ job[c].paths \in Seq(Paths) /\ job[c].there \subseteq Paths
               /\ pc[c] = "held" => job[c].todo # <<>>
               /\ pc[c] \in {"read", "add"} => job[c].results # <<>> /\ job[c].at \in Layers
    <3>1. Placed(pc[c], job[c])
      BY DEF Control
    <3>2. pc[c] \in Places
      BY DEF Typed
    <3>3. QED
      BY <3>1, <3>2, JobTyped DEF Placed
  <2>2. QED
    BY <2>1 DEF TypeOK, Typed, Stored, Folders, Names, Places
<1>2. QED
  BY <1>1, InitTyped, StepTyped, PTL DEF Spec

\* MarkdownToADFAll encodes all documents or none, MarkdownToADF always its one, and a
\* call that reports success has encoded everything.
THEOREM AllOrNothing == Spec => []BatchIsAllOrNothing
<1>1. Control => BatchIsAllOrNothing
  BY DEF Control, Placed, Ended, BatchIsAllOrNothing
<1>2. QED
  BY <1>1, InitTyped, StepTyped, PTL DEF Spec

-----------------------------------------------------------------------------
(* Where ids come from. *)

\* One pusher's move leaves the others where they are.
LEMMA MovesFrame ==
    ASSUME Typed, NEW c \in Pushers, Moves(c), NEW d \in Pushers, d # c
    PROVE  pc'[d] = pc[d] /\ job'[d] = job[d]
  BY GotoFrame DEF Moves

\* The results that wait after a step are among those that waited before it.
LEMMA FewerResults ==
    ASSUME Typed, Control, NEW c \in Pushers, Silent(c) \/ Failing(c) \/ AddAssociate(c)
    PROVE  \A n \in DOMAIN job'[c].results :
             \E m \in DOMAIN job[c].results : job'[c].results[n] = job[c].results[m]
<1>1. CASE Silent(c)
  BY <1>1 DEF Silent, Seeks
<1>2. CASE Failing(c) \/ AddAssociate(c)
  <2>1. job[c].results # <<>> /\ job'[c].results = Tail(job[c].results)
    BY <1>2, AddAssociateMoves DEF Failing, Skips
  <2>2. job[c].results \in Seq(Answers)
    BY JobTyped
  <2>3. QED
    BY <2>1, <2>2, HeadAndTail
<1>3. QED
  BY <1>1, <1>2

\* The result that is being recorded is one of the call's own.
LEMMA HeadIsMinted ==
    ASSUME Typed, Provenance, NEW c \in Pushers, job[c].results # <<>>
    PROVE  /\ Head(job[c].results) = job[c].results[1] /\ 1 \in DOMAIN job[c].results
           /\ Head(job[c].results).id \in job[c].minted /\ Head(job[c].results).id \in Ids
           /\ Head(job[c].results).path \in Paths
<1>1. job[c].results \in Seq(Answers)
  BY JobTyped
<1>2. /\ Head(job[c].results) = job[c].results[1] /\ 1 \in DOMAIN job[c].results
      /\ Head(job[c].results) \in Answers
  BY <1>1, HeadAndTail
<1>3. QED
  BY <1>2 DEF Provenance, Answers

\* A step that records nothing and mints nothing.
LEMMA ProvenanceFrame ==
    ASSUME Typed, Provenance, NEW c \in Pushers, Moves(c), ids' = ids, uploaded' = uploaded,
           \/ job'[c].minted = {}
           \/ job'[c].minted = job[c].minted /\ job'[c].view = job[c].view,
           \A n \in DOMAIN job'[c].results : job'[c].results[n].id \in job'[c].minted
    PROVE  Provenance'
<1>1. \A k \in Ids : Recorded(k)' => uploaded'[k] # NoFile
  BY DEF Provenance, Recorded
<1>2. ASSUME NEW d \in Pushers
      PROVE  /\ \A k \in job'[d].minted :
                  /\ uploaded'[k] # NoFile
                  /\ \A i \in IndexIds, h \in Hashes : ids'[i][h][k] \in {job'[d].view, NoScope}
             /\ \A n \in DOMAIN job'[d].results : job'[d].results[n].id \in job'[d].minted
             /\ job'[d].minted \subseteq job[d].minted
  <2>1. CASE d = c
    BY <2>1 DEF Provenance
  <2>2. CASE d # c
    BY <2>2, MovesFrame DEF Provenance
  <2>3. QED
    BY <2>1, <2>2
<1>3. \A d, e \in Pushers : d # e => job'[d].minted \cap job'[e].minted = {}
  BY <1>2 DEF Provenance
<1>4. QED
  BY <1>1, <1>2, <1>3 DEF Provenance

\* No step records an id without an upload, or takes one back.
LEMMA ProvenanceKept ==
    ASSUME Typed, Control, Provenance, [Next]_vars
    PROVE  Provenance'
<1>1. ASSUME NEW c \in Pushers, Push(c)
      PROVE  Provenance'
  <2>1. Moves(c) /\ job'[c].minted = {} /\ job'[c].results = <<>>
    BY <1>1, PushMoves
  <2>2. ids' = ids /\ uploaded' = uploaded
    BY <1>1 DEF Push, World, Books
  <2>3. QED
    BY <2>1, <2>2, ProvenanceFrame
<1>2. ASSUME NEW c \in Pushers, Silent(c) \/ Failing(c)
      PROVE  Provenance'
  <2>1. /\ Moves(c) /\ job'[c].minted = job[c].minted /\ job'[c].view = job[c].view
        /\ ids' = ids /\ uploaded' = uploaded
    BY <1>2 DEF Silent, Failing, Seeks, Kept, Books
  <2>2. \A n \in DOMAIN job'[c].results : job'[c].results[n].id \in job'[c].minted
    BY <1>2, <2>1, FewerResults DEF Provenance
  <2>3. QED
    BY <2>1, <2>2, ProvenanceFrame
<1>3. ASSUME NEW c \in Pushers, Upload(c)
      PROVE  Provenance'
  <2> DEFINE j == job[c]
             r == job'[c]
  <2>1. /\ Moves(c) /\ r.view = j.view /\ r.minted \in SUBSET Ids
        /\ \A k \in Ids : uploaded[k] # NoFile => uploaded'[k] = uploaded[k]
        /\ \A k \in r.minted \ j.minted : uploaded[k] = NoFile /\ uploaded'[k] # NoFile
        /\ \A n \in DOMAIN r.results : r.results[n].id \in r.minted
    BY <1>3, UploadMoves DEF Kept, Answer, Moves, Jobs
  <2>2. ids' = ids
    BY <1>3 DEF Upload
  <2>3. \A k \in Ids : Recorded(k)' => uploaded'[k] # NoFile
    BY <2>1, <2>2 DEF Provenance, Recorded
  <2>4. \A d \in Pushers : \A k \in job[d].minted : k \in Ids /\ uploaded'[k] # NoFile
    BY <2>1, JobTyped DEF Provenance
  <2>5. ASSUME NEW k \in r.minted
        PROVE  /\ uploaded'[k] # NoFile
               /\ \A i \in IndexIds, h \in Hashes : ids'[i][h][k] \in {r.view, NoScope}
    <3>1. CASE k \in j.minted
      BY <2>1, <2>2, <2>4, <3>1 DEF Provenance
    <3>2. CASE k \notin j.minted
      <4>1. k \in Ids /\ ~ Recorded(k)
        BY <2>1, <3>2 DEF Provenance
      <4>2. QED
        BY <2>1, <2>2, <3>2, <4>1 DEF Recorded
    <3>3. QED
      BY <3>1, <3>2
  <2>6. ASSUME NEW d \in Pushers, d # c
        PROVE  job'[d] = job[d] /\ job[d].minted \cap r.minted = {}
    <3>1. job'[d] = job[d]
      BY <2>1, <2>6, MovesFrame
    <3>2. job[d].minted \cap j.minted = {}
      BY <2>6 DEF Provenance
    <3>3. \A k \in job[d].minted : uploaded[k] # NoFile
      BY DEF Provenance
    <3>4. QED
      BY <2>1, <3>1, <3>2, <3>3
  <2>7. ASSUME NEW d \in Pushers
        PROVE  /\ \A k \in job'[d].minted :
                    /\ uploaded'[k] # NoFile
                    /\ \A i \in IndexIds, h \in Hashes : ids'[i][h][k] \in {job'[d].view, NoScope}
               /\ \A n \in DOMAIN job'[d].results : job'[d].results[n].id \in job'[d].minted
    <3>1. CASE d = c
      BY <2>1, <2>5, <3>1
    <3>2. CASE d # c
      BY <2>2, <2>4, <2>6, <3>2 DEF Provenance
    <3>3. QED
      BY <3>1, <3>2
  <2>8. \A d, e \in Pushers : d # e => job'[d].minted \cap job'[e].minted = {}
    BY <2>6 DEF Provenance
  <2>9. QED
    BY <2>3, <2>7, <2>8 DEF Provenance
<1>4. ASSUME NEW c \in Pushers, AddAssociate(c)
      PROVE  Provenance'
  <2> DEFINE j == job[c]
             r == job'[c]
             k0 == Head(j.results).id
  <2>1. /\ Moves(c) /\ r.view = j.view /\ r.minted = j.minted /\ j.results # <<>>
        /\ j.at \in Layers /\ j.read \in Hashes /\ Head(j.results) \in Answers /\ ids' \in {ids, Adds(j)}
    BY <1>4, AddAssociateMoves DEF Skips, Kept
  <2>2. uploaded' = uploaded
    BY <1>4 DEF AddAssociate
  <2>3. k0 \in j.minted /\ k0 \in Ids
    BY <2>1, HeadIsMinted
  <2>4. \A i \in IndexIds, h \in Hashes, k \in Ids :
          ids'[i][h][k] = ids[i][h][k] \/ (k = k0 /\ ids'[i][h][k] = j.view)
    BY <2>1, AddsWrites
  <2> HIDE DEF k0
  <2>5. \A k \in Ids : Recorded(k)' => uploaded'[k] # NoFile
    BY <2>2, <2>3, <2>4 DEF Provenance, Recorded
  <2>6. ASSUME NEW d \in Pushers, d # c
        PROVE  job'[d] = job[d] /\ k0 \notin job[d].minted /\ job[d].minted \in SUBSET Ids
    BY <2>1, <2>3, <2>6, MovesFrame, JobTyped DEF Provenance
  <2>7. ASSUME NEW d \in Pushers
        PROVE  /\ \A k \in job'[d].minted :
                    /\ uploaded'[k] # NoFile
                    /\ \A i \in IndexIds, h \in Hashes : ids'[i][h][k] \in {job'[d].view, NoScope}
               /\ \A n \in DOMAIN job'[d].results : job'[d].results[n].id \in job'[d].minted
    <3>1. CASE d = c
      <4>1. j.minted \in SUBSET Ids
        BY JobTyped
      <4>2. \A n \in DOMAIN r.results : r.results[n].id \in r.minted
        BY <1>4, <2>1, FewerResults DEF Provenance
      <4>3. \A k \in j.minted : \A i \in IndexIds, h \in Hashes : ids'[i][h][k] \in {j.view, NoScope}
        BY <2>4, <4>1 DEF Provenance
      <4>4. QED
        BY <2>1, <2>2, <3>1, <4>2, <4>3 DEF Provenance
    <3>2. CASE d # c
      BY <2>2, <2>4, <2>6, <3>2 DEF Provenance
    <3>3. QED
      BY <3>1, <3>2
  <2>8. \A d, e \in Pushers : d # e => job'[d].minted \cap job'[e].minted = {}
    BY <2>1, <2>6 DEF Provenance
  <2>9. QED
    BY <2>5, <2>7, <2>8 DEF Provenance
<1>5. CASE UserWrites \/ UserRemoves \/ UNCHANGED vars
  BY <1>5 DEF UserWrites, UserRemoves, vars, Provenance, Recorded
<1>6. QED
  BY <1>1, <1>2, <1>3, <1>4, <1>5, CallKinds DEF Next

\* The start of a push changes nothing but the pusher.
LEMMA PushFrame ==
    ASSUME NEW c \in Pushers, Push(c)
    PROVE  file' = file /\ ids' = ids /\ uploaded' = uploaded /\ edits' = edits
  BY Zenon DEF Push, World, Books

\* Nothing but an association writes to an index.
LEMMA OnlyAddRecords ==
    ASSUME Typed, Control, NEW c \in Pushers, Push(c) \/ Call(c), ~ AddAssociate(c)
    PROVE  ids' = ids
<1>1. CASE Silent(c) \/ Failing(c)
  BY <1>1 DEF Silent, Failing, Books
<1>2. CASE Upload(c)
  BY <1>2 DEF Upload
<1>3. CASE Push(c)
  BY <1>3, PushFrame
<1>4. QED
  BY <1>1, <1>2, <1>3, CallKinds

\* No push takes an id back that an index holds, and none moves it to another scope.
LEMMA RecordedStays ==
    ASSUME Typed, Control, Provenance, [Next]_vars,
           NEW i \in IndexIds, NEW h \in Hashes, NEW k \in Ids, ids[i][h][k] # NoScope
    PROVE  ids'[i][h][k] = ids[i][h][k]
<1>1. ASSUME NEW c \in Pushers, AddAssociate(c)
      PROVE  ids'[i][h][k] = ids[i][h][k]
  <2> DEFINE j == job[c]
  <2>1. /\ j.results # <<>> /\ j.at \in Layers /\ j.read \in Hashes
        /\ Head(j.results) \in Answers /\ ids' \in {ids, Adds(j)}
    BY <1>1, AddAssociateMoves
  <2>2. \/ ids'[i][h][k] = ids[i][h][k]
        \/ k = Head(j.results).id /\ ids'[i][h][k] = j.view
    BY <2>1, AddsWrites
  <2>3. Head(j.results).id \in j.minted
    BY <2>1, HeadIsMinted
  <2>4. k = Head(j.results).id => ids[i][h][k] \in {j.view, NoScope}
    BY <2>3 DEF Provenance
  <2>5. QED
    BY <2>2, <2>4
<1>2. ASSUME NEW c \in Pushers, Push(c) \/ Call(c), ~ AddAssociate(c)
      PROVE  ids' = ids
  BY <1>2, OnlyAddRecords
<1>3. CASE UserWrites \/ UserRemoves \/ UNCHANGED vars
  BY <1>3 DEF UserWrites, UserRemoves, vars
<1>4. QED
  BY <1>1, <1>2, <1>3 DEF Next

\* A recorded id stays recorded.
LEMMA RecordedForward ==
    ASSUME Typed, Control, Provenance, [Next]_vars, NEW k \in Ids, Recorded(k)
    PROVE  Recorded(k)'
<1>1. PICK i \in IndexIds, h \in Hashes : ids[i][h][k] # NoScope
  BY DEF Recorded
<1>2. ids'[i][h][k] # NoScope
  BY <1>1, RecordedStays
<1>3. QED
  BY <1>2 DEF Recorded

\* No step forgets an upload: what is not recorded yet is still on its pusher's way.
LEMMA RememberedKept ==
    ASSUME Typed, Control, Provenance, Remembered, [Next]_vars
    PROVE  Remembered'
<1> DEFINE Found(c, k) == \/ Recorded(k)
                          \/ k \in job[c].failed /\ job[c].err
                          \/ \E n \in DOMAIN job[c].results : job[c].results[n].id = k
<1>1. ASSUME NEW c \in Pushers
      PROVE  job[c].minted \in SUBSET Ids
  BY JobTyped
<1>2. ASSUME NEW c \in Pushers, NEW d \in Pushers, job'[d] = job[d], NEW k \in job'[d].minted
      PROVE  Found(d, k)'
  BY <1>1, <1>2, RecordedForward DEF Remembered
<1>3. ASSUME NEW c \in Pushers, Push(c)
      PROVE  \A k \in job'[c].minted : Found(c, k)'
  BY <1>3, PushMoves
<1>4. ASSUME NEW c \in Pushers, Silent(c), NEW k \in job'[c].minted
      PROVE  Found(c, k)'
  <2>1. /\ job'[c].minted = job[c].minted /\ job'[c].failed = job[c].failed
        /\ job'[c].results = job[c].results /\ (job[c].err => job'[c].err)
    BY <1>4 DEF Silent, Seeks
  <2>2. QED
    BY <1>1, <1>4, <2>1, RecordedForward DEF Remembered
<1>5. ASSUME NEW c \in Pushers, Failing(c) \/ AddAssociate(c), NEW k \in job'[c].minted
      PROVE  Found(c, k)'
  <2> DEFINE j == job[c]
             r == job'[c]
  <2>1. /\ r.minted = j.minted /\ j.results # <<>> /\ r.results = Tail(j.results)
        /\ \/ r.err /\ r.failed = j.failed \cup {Head(j.results).id}
           \/ /\ AddAssociate(c) /\ ids' = Adds(j)
              /\ r.err = j.err /\ r.failed = j.failed
    <3>1. CASE Failing(c)
      BY <3>1 DEF Failing
    <3>2. CASE AddAssociate(c)
      BY <3>2, AddAssociateMoves DEF Skips
    <3>3. QED
      BY <1>5, <3>1, <3>2
  <2>2. j.results \in Seq(Answers) /\ k \in Ids
    BY <1>1, <1>5, <2>1, JobTyped
  <2>3. Found(c, k)
    BY <1>5, <2>1 DEF Remembered
  <2>4. CASE Recorded(k)
    BY <2>2, <2>4, RecordedForward
  <2>5. CASE k \in j.failed /\ j.err
    BY <2>1, <2>5
  <2>6. CASE k = Head(j.results).id
    <3>1. CASE AddAssociate(c) /\ ids' = Adds(j)
      <4>1. j.at \in Layers /\ j.read \in Hashes /\ Head(j.results) \in Answers
        BY <3>1, AddAssociateMoves
      <4>2. /\ IndexOf[j.at] \in IndexIds
            /\ ids'[IndexOf[j.at]][j.read][k] = j.view
        BY <2>6, <3>1, <4>1, AddsWrites
      <4>3. j.view # NoScope
        BY JobTyped, PushAssumption
      <4>4. Recorded(k)'
        BY <4>1, <4>2, <4>3 DEF Recorded
      <4>5. QED
        BY <4>4
    <3>2. CASE r.err /\ r.failed = j.failed \cup {Head(j.results).id}
      BY <2>6, <3>2
    <3>3. QED
      BY <2>1, <3>1, <3>2
  <2>7. CASE k # Head(j.results).id /\ \E n \in DOMAIN j.results : j.results[n].id = k
    <3>1. PICK n \in DOMAIN j.results : j.results[n].id = k
      BY <2>7
    <3>2. Head(j.results) = j.results[1]
      BY <2>1, <2>2, HeadAndTail
    <3>3. n # 1
      BY <2>7, <3>1, <3>2
    <3>4. n - 1 \in DOMAIN Tail(j.results) /\ Tail(j.results)[n - 1] = j.results[n]
      BY <2>1, <2>2, <3>3, HeadAndTail
    <3>5. QED
      BY <2>1, <3>1, <3>4
  <2>8. QED
    BY <2>3, <2>4, <2>5, <2>6, <2>7
<1>6. ASSUME NEW c \in Pushers, Upload(c), NEW k \in job'[c].minted
      PROVE  Found(c, k)'
  <2> DEFINE j == job[c]
             r == job'[c]
  <2>1. /\ pc[c] = "upload" /\ ~ j.err
        /\ \A x \in r.minted \ j.minted : \E i \in DOMAIN r.results : r.results[i].id = x
    BY <1>6, UploadMoves DEF Answer
  <2>2. j.results = <<>>
    BY <2>1 DEF Control, Placed, Associating
  <2>3. CASE k \in j.minted
    <3>1. Recorded(k) /\ k \in Ids
      BY <1>1, <2>1, <2>2, <2>3 DEF Remembered
    <3>2. QED
      BY <3>1, RecordedForward
  <2>4. CASE k \notin j.minted
    BY <1>6, <2>1, <2>4
  <2>5. QED
    BY <2>3, <2>4
<1>7. ASSUME NEW c \in Pushers, Push(c) \/ Call(c), NEW d \in Pushers, NEW k \in job'[d].minted
      PROVE  Found(d, k)'
  <2>1. Moves(c)
    BY <1>7, PushMoves, CallKinds
  <2> HIDE DEF Found
  <2>2. CASE d = c
    BY <1>3, <1>4, <1>5, <1>6, <1>7, <2>2, CallKinds
  <2>3. CASE d # c
    <3>1. job'[d] = job[d]
      BY <2>1, <2>3, MovesFrame
    <3>2. QED
      BY <1>2, <1>7, <3>1
  <2>4. QED
    BY <2>2, <2>3
<1>8. CASE UserWrites \/ UserRemoves \/ UNCHANGED vars
  <2>1. job' = job /\ ids' = ids
    BY <1>8 DEF UserWrites, UserRemoves, vars
  <2>2. QED
    BY <2>1 DEF Remembered, Recorded
<1>9. ASSUME NEW c \in Pushers, Push(c) \/ Call(c)
      PROVE  Remembered'
  BY <1>7, <1>9 DEF Remembered
<1>10. QED
  BY <1>8, <1>9 DEF Next

\* IdsOf, element by element.
LEMMA IdsOfAre ==
    \A c \in Pushers : \A k :
      k \in IdsOf(c) <=>
        k # 0 /\ \E i \in DOMAIN job[c].encoded :
                   \E p \in DOMAIN job[c].encoded[i] : k = job[c].encoded[i][p]
<1>1. SUFFICES ASSUME NEW c \in Pushers, NEW k
               PROVE  k \in IdsOf(c) <=>
                        k # 0 /\ \E i \in DOMAIN job[c].encoded :
                                   \E p \in DOMAIN job[c].encoded[i] : k = job[c].encoded[i][p]
  OBVIOUS
<1> DEFINE given(i) == {job[c].encoded[i][p] : p \in DOMAIN job[c].encoded[i]}
<1>2. IdsOf(c) = (UNION {given(i) : i \in DOMAIN job[c].encoded}) \ {0}
  BY DEF IdsOf
<1>3. \A i : k \in given(i) <=> \E p \in DOMAIN job[c].encoded[i] : k = job[c].encoded[i][p]
  OBVIOUS
<1> HIDE DEF given
<1>4. QED
  BY <1>2, <1>3

\* The same in the next state.
LEMMA IdsOfAreNext ==
    (\A c \in Pushers : \A k :
      k \in IdsOf(c) <=>
        k # 0 /\ \E i \in DOMAIN job[c].encoded :
                   \E p \in DOMAIN job[c].encoded[i] : k = job[c].encoded[i][p])'
  BY IdsOfAre, PTL

\* Only ToADF adds to what a call has encoded.
LEMMA OnlyEncodeSends ==
    ASSUME Typed, Control, NEW c \in Pushers, Push(c) \/ Call(c)
    PROVE  \/ job'[c].encoded = <<>>
           \/ Encode(c)
<1>1. CASE Push(c)
  BY <1>1, PushMoves
<1>2. CASE ListLayer(c)
  BY <1>2, ListLayerMoves
<1>3. CASE RunHook(c)
  BY <1>3, RunHookMoves
<1>4. CASE CheckReadable(c) \/ CheckHeld(c)
  BY <1>4, CheckReadableMoves, CheckHeldMoves
<1>5. CASE LoadPath(c)
  BY <1>5, LoadPathMoves
<1>6. CASE Upload(c)
  BY <1>6, UploadMoves
<1>7. CASE RouteAssociate(c)
  BY <1>7, RouteAssociateMoves
<1>8. CASE ReadAssociate(c)
  BY <1>8, ReadAssociateMoves
<1>9. CASE AddAssociate(c)
  BY <1>9, AddAssociateMoves DEF Skips
<1>10. CASE Encode(c)
  BY <1>10
<1>11. QED
  BY <1>1, <1>2, <1>3, <1>4, <1>5, <1>6, <1>7, <1>8, <1>9, <1>10 DEF Call

\* No step encodes an id uploaded to another container.
LEMMA SentToOwnKept ==
    ASSUME Typed, Control, Provenance, SentToOwn, [Next]_vars
    PROVE  SentToOwn'
<1> DEFINE Own(c, k) == \E i \in IndexIds, h \in Hashes : ids[i][h][k] \in {job[c].view, Unscoped}
<1>1. ASSUME NEW c \in Pushers, NEW i \in DOMAIN job[c].encoded, NEW p \in DOMAIN job[c].encoded[i]
      PROVE  job[c].encoded[i][p] \in Ids \cup {0}
  <2>1. job[c].encoded[i] \in Encodings
    BY JobTyped
  <2>2. QED
    BY <2>1 DEF Encodings
<1>2. ASSUME NEW c \in Pushers, NEW k \in Ids, Own(c, k), job'[c].view = job[c].view
      PROVE  Own(c, k)'
  <2>1. PICK i \in IndexIds, h \in Hashes : ids[i][h][k] \in {job[c].view, Unscoped}
    BY <1>2
  <2>2. ids[i][h][k] # NoScope
    BY <2>1, JobTyped, PushAssumption
  <2>3. ids'[i][h][k] = ids[i][h][k]
    BY <2>2, RecordedStays
  <2>4. QED
    BY <1>2, <2>1, <2>3
<1>3. ASSUME NEW c \in Pushers, job'[c].view # Unscoped, NEW k \in IdsOf(c)',
             job'[c].encoded = job[c].encoded, job'[c].view = job[c].view
      PROVE  Own(c, k)'
  <2>1. k # 0 /\ \E i \in DOMAIN job[c].encoded : \E p \in DOMAIN job[c].encoded[i] : k = job[c].encoded[i][p]
    BY <1>3, IdsOfAreNext
  <2>2. k \in IdsOf(c) /\ k \in Ids
    BY <1>1, <2>1, IdsOfAre
  <2>3. Own(c, k)
    BY <1>3, <2>2 DEF SentToOwn
  <2>4. QED
    BY <1>2, <1>3, <2>2, <2>3
<1>4. ASSUME NEW c \in Pushers, Encode(c), job'[c].view # Unscoped, NEW k \in IdsOf(c)',
             job'[c].view = job[c].view
      PROVE  Own(c, k)'
  <2> DEFINE j == job[c]
             n == Len(j.encoded) + 1
             encoding == [p \in LookupKeys(j.docs[n]) |-> Lookup(j.view, p)]
  <2>1. \/ job'[c].encoded = j.encoded
        \/ job'[c].encoded = Append(j.encoded, encoding) /\ encoding \in Encodings /\ n \in DOMAIN j.docs
    BY <1>4, EncodeMoves
  <2>2. CASE job'[c].encoded = j.encoded
    BY <1>3, <1>4, <2>2
  <2>3. CASE job'[c].encoded = Append(j.encoded, encoding) /\ encoding \in Encodings /\ n \in DOMAIN j.docs
    <3> PICK i \in DOMAIN job'[c].encoded :
          k # 0 /\ \E p \in DOMAIN job'[c].encoded[i] : k = job'[c].encoded[i][p]
      BY <1>4, IdsOfAreNext
    <3>1. PICK p \in DOMAIN job'[c].encoded[i] : k = job'[c].encoded[i][p] /\ k # 0
      OBVIOUS
    <3>2. j.encoded \in Seq(Encodings) /\ j.docs \in Seq(Seq(DocNodes)) /\ j.view \in Scopes
      BY JobTyped
    <3>3. CASE i \in DOMAIN j.encoded
      <4>1. job'[c].encoded[i] = j.encoded[i]
        BY <2>3, <3>2, <3>3, AppendLists
      <4>2. k \in IdsOf(c) /\ k \in Ids
        BY <1>1, <3>1, <3>3, <4>1, IdsOfAre
      <4>3. Own(c, k)
        BY <1>4, <4>2 DEF SentToOwn
      <4>4. QED
        BY <1>2, <1>4, <4>2, <4>3
    <3>4. CASE i \notin DOMAIN j.encoded
      <4>1. job'[c].encoded[i] = encoding
        <5> HIDE DEF encoding, n
        <5>1. i = n
          BY <2>3, <3>1, <3>2, <3>4, AppendLists DEF n
        <5>2. QED
          BY <2>3, <3>2, <5>1, AppendLists DEF n
      <4>2. p \in Paths /\ k = Lookup(j.view, p)
        <5>1. p \in LookupKeys(j.docs[n]) /\ k = Lookup(j.view, p)
          BY <3>1, <4>1
        <5>2. LookupKeys(j.docs[n]) \in SUBSET Paths
          BY <2>3, <3>2, ScanCoversEncoder
        <5>3. QED
          BY <5>1, <5>2
      <4>3. k \in Ids /\ Own(c, k)
        BY <1>4, <3>1, <3>2, <4>2, LookupGives DEF Typed
      <4>4. QED
        BY <1>2, <1>4, <4>3
    <3>5. QED
      BY <3>3, <3>4
  <2>4. QED
    BY <2>1, <2>2, <2>3
<1>5. ASSUME NEW c \in Pushers, Push(c) \/ Call(c), NEW d \in Pushers,
             job'[d].view # Unscoped, NEW k \in IdsOf(d)'
      PROVE  Own(d, k)'
  <2> HIDE DEF Own
  <2>1. Moves(c) /\ (Call(c) => job'[c].view = job[c].view)
    BY <1>5, PushMoves, CallKinds DEF Kept
  <2>2. CASE d # c
    <3>1. job'[d] = job[d]
      BY <2>1, <2>2, MovesFrame
    <3>2. QED
      BY <1>3, <1>5, <3>1
  <2>3. CASE d = c /\ job'[c].encoded = <<>>
    BY <1>5, <2>3, IdsOfAreNext
  <2>4. CASE d = c /\ Encode(c)
    BY <1>4, <1>5, <2>1, <2>4 DEF Call
  <2>5. QED
    BY <1>5, <2>2, <2>3, <2>4, OnlyEncodeSends
<1>6. CASE UserWrites \/ UserRemoves \/ UNCHANGED vars
  <2>1. job' = job
    BY <1>6 DEF UserWrites, UserRemoves, vars
  <2>2. QED
    BY <1>3, <2>1 DEF SentToOwn
<1>7. ASSUME NEW c \in Pushers, Push(c) \/ Call(c)
      PROVE  SentToOwn'
  BY <1>5, <1>7 DEF SentToOwn
<1>8. QED
  BY <1>6, <1>7 DEF Next

-----------------------------------------------------------------------------
(* The files a call is at. *)

\* A step that is no edit changes no file, and what is read only where it associates.
LEMMA StepLasts ==
    ASSUME Typed, Control, [Next]_vars, edits' = edits
    PROVE  /\ Lasting
           /\ SameReads \/ \E c \in Pushers : AddAssociate(c)
<1>1. Stored /\ edits \in Nat
  BY PushAssumption DEF Typed
<1>2. CASE file' = file /\ saved' = saved
  BY <1>1, <1>2, RestoresLast DEF Restores
<1>3. ASSUME NEW c \in Pushers, Push(c)
      PROVE  file' = file /\ saved' = saved
  BY <1>3 DEF Push, World, Books
<1>4. CASE UserWrites \/ UserRemoves
  BY <1>1, <1>4 DEF UserWrites, UserRemoves
<1>5. CASE UNCHANGED vars
  BY <1>2, <1>5 DEF vars
<1>6. CASE \E c \in Pushers : Push(c) \/ Call(c)
  BY <1>2, <1>3, <1>6, CallLasts
<1>7. QED
  BY <1>4, <1>5, <1>6 DEF Next

\* What a layer has it keeps.
LEMMA FirmStays ==
    ASSUME Lasting, NEW p, Firm(p)
    PROVE  Firm(p)'
  BY DEF Lasting, Firm

\* No step of a push handles a file that no layer has.
LEMMA HandledSteps ==
    ASSUME Typed, Control, Finds, NEW c \in Pushers, Call(c)
    PROVE  /\ pc'[c] = "held" => Head(job'[c].todo) \in job'[c].there
           /\ \A p \in Handled(pc'[c], job'[c]) : p \in Handled(pc[c], job[c]) \/ Firm(p) \/ Firm(p)'
<1> DEFINE j == job[c]
           l == pc'[c]
           r == job'[c]
<1>1. CASE ListLayer(c)
  <2>1. /\ Quiet(j, r) /\ pc[c] = "list" /\ r.batch = <<>> /\ j.at \in Layers
        /\ l \in {"list", "load", "encode", "done"}
        /\ l \in {"list", "load"} => ToSet(r.todo) = ToSet(j.todo) \cup Unsent(j.at, j.view)
    BY <1>1, ListLayerMoves
  <2>2. \A p \in Unsent(j.at, j.view) : Firm(p)
    BY <2>1, PendingLists DEF Unsent, Firm
  <2>3. QED
    BY <2>1, <2>2 DEF Quiet, Seeks, Handled, Queue
<1>2. CASE RunHook(c)
  <2>1. /\ Quiet(j, r) /\ r.batch = <<>> /\ l \in {"encode", "hook", "done", "readable"}
        /\ l = "readable" => r.paths = <<>>
    BY <1>2, RunHookMoves
  <2>2. QED
    BY <2>1 DEF Quiet, Seeks, Handled, Queue, ToSet
<1>3. CASE CheckReadable(c)
  <2> DEFINE p == Head(j.todo)
  <2>1. /\ Seeks(j, r) /\ pc[c] = "readable" /\ r.batch = <<>>
        /\ \/ l = "readable" /\ r.paths = j.paths /\ r.there = j.there
           \/ /\ l = "held" /\ r.paths = j.paths /\ r.todo = j.todo
              /\ r.there = j.there \cup {p} /\ p \in Paths
              /\ \E m \in Layers : file'[m][p] # NoFile
           \/ l = "load" /\ r.todo = j.paths /\ r.there = j.there
           \/ l = "hook" /\ r.there = j.there
    BY <1>3, CheckReadableMoves
  <2>2. CASE l = "held"
    <3>1. Firm(p)'
      BY <2>1, <2>2 DEF Firm
    <3>2. QED
      BY <2>1, <2>2, <3>1 DEF Seeks, Handled, Queue
  <2>3. CASE l # "held"
    BY <2>1, <2>3 DEF Seeks, Handled, Queue
  <2>4. QED
    BY <2>2, <2>3
<1>4. CASE CheckHeld(c)
  <2>1. /\ Quiet(j, r) /\ pc[c] = "held" /\ l = "readable" /\ r.batch = <<>>
        /\ \A q \in ToSet(r.paths) : q \in ToSet(j.paths) \/ q = Head(j.todo)
    BY <1>4, CheckHeldMoves
  <2>2. Head(j.todo) \in j.there
    BY <2>1 DEF Finds
  <2>3. QED
    BY <2>1, <2>2 DEF Quiet, Seeks, Handled, Queue
<1>5. CASE LoadPath(c)
  <2> DEFINE p == Head(j.todo)
             entry == [path |-> p, hash |-> Load(p)]
  <2>1. /\ Quiet(j, r) /\ pc[c] = "load" /\ l \in {"upload", "encode", "done", "load"}
        /\ l = "load" => ToSet(j.todo) = {p} \cup ToSet(r.todo)
        /\ \/ r.batch = j.batch
           \/ /\ l = "load" /\ p \in Paths /\ Load(p) \in Hashes /\ r.batch = Append(j.batch, entry)
    BY <1>5, LoadPathMoves
  <2>2. ASSUME NEW n \in DOMAIN r.batch
        PROVE  r.batch[n].path \in Handled(pc[c], j)
    <3>1. CASE r.batch = j.batch
      BY <3>1 DEF Handled
    <3>2. CASE /\ l = "load" /\ p \in Paths /\ Load(p) \in Hashes /\ r.batch = Append(j.batch, entry)
      <4>1. entry \in Entries /\ entry.path = p /\ j.batch \in Seq(Entries)
        BY <3>2, JobTyped DEF Entries
      <4> HIDE DEF entry
      <4>2. r.batch[n] = entry \/ (n \in DOMAIN j.batch /\ r.batch[n] = j.batch[n])
        BY <2>2, <3>2, <4>1, AppendLists
      <4>3. QED
        BY <2>1, <3>2, <4>1, <4>2 DEF Handled, Queue
    <3>3. QED
      BY <2>1, <3>1, <3>2
  <2> HIDE DEF p, entry
  <2>3. r.there = j.there /\ r.results = j.results /\ l # "held"
    BY <2>1 DEF Quiet, Seeks
  <2>4. \A q \in Queue(l, r) : q \in Queue(pc[c], j)
    BY <2>1 DEF Queue
  <2>5. QED
    BY <2>2, <2>3, <2>4 DEF Handled
<1>6. CASE Upload(c)
  <2>1. /\ r.there = j.there /\ pc[c] = "upload" /\ l = "route" /\ r.batch = j.batch
        /\ \E taken : Answer(j, r, taken)
    BY <1>6, UploadMoves
  <2>2. \A n \in DOMAIN r.results : \E m \in DOMAIN j.batch : r.results[n].path = j.batch[m].path
    BY <2>1 DEF Answer
  <2>3. QED
    BY <2>1, <2>2 DEF Handled, Queue
<1>7. CASE RouteAssociate(c) \/ ReadAssociate(c) \/ AddAssociate(c)
  <2>1. /\ l \in {"encode", "done", "hook", "route", "read", "add"} /\ r.there = j.there
        /\ r.batch = <<>> \/ r.batch = j.batch
        /\ r.results = j.results \/ (j.results # <<>> /\ r.results = Tail(j.results))
    BY <1>7, RouteAssociateMoves, ReadAssociateMoves, AddAssociateMoves DEF Skips, Quiet, Seeks
  <2>2. j.results \in Seq(Answers)
    BY JobTyped
  <2>3. \A n \in DOMAIN r.results : \E m \in DOMAIN j.results : r.results[n] = j.results[m]
    <3>1. CASE r.results = j.results
      BY <3>1
    <3>2. CASE j.results # <<>> /\ r.results = Tail(j.results)
      BY <2>2, <3>2, HeadAndTail
    <3>3. QED
      BY <2>1, <3>1, <3>2
  <2>4. QED
    BY <2>1, <2>3 DEF Handled, Queue
<1>8. CASE Encode(c)
  <2>1. Quiet(j, r) /\ pc[c] = "encode" /\ r.batch = j.batch /\ l \in {"encode", "done"}
    BY <1>8, EncodeMoves
  <2>2. QED
    BY <2>1 DEF Quiet, Seeks, Handled, Queue
<1>9. QED
  BY <1>1, <1>2, <1>3, <1>4, <1>5, <1>6, <1>7, <1>8 DEF Call

\* A file a push is at stays where it is until somebody edits one.
LEMMA FindsKept ==
    ASSUME Typed, Control, Finds, [Next]_vars
    PROVE  Finds'
<1>1. edits \in Nat /\ \A d \in Pushers : job[d].since \in Nat
  BY JobTyped, PushAssumption DEF Typed
<1>2. CASE edits' = edits + 1 /\ pc' = pc /\ job' = job
  <2>1. ASSUME NEW d \in Pushers
        PROVE  job'[d].since <= edits' /\ job'[d].since # edits'
    BY <1>1, <1>2 DEF Finds
  <2>2. QED
    BY <1>2, <2>1 DEF Finds
<1>3. CASE edits' = edits
  <2> DEFINE Fine(d) ==
        /\ job'[d].since <= edits
        /\ pc'[d] = "held" => Head(job'[d].todo) \in job'[d].there
        /\ job'[d].kind = "sync" => job'[d].there \subseteq UNION {Lists[l] : l \in Layers}
        /\ job'[d].since = edits => \A p \in Handled(pc'[d], job'[d]) : Firm(p)'
  <2>1. Lasting
    BY <1>3, StepLasts
  <2>2. ASSUME NEW d \in Pushers, pc'[d] = pc[d], job'[d] = job[d]
        PROVE  Fine(d)
    BY <2>1, <2>2, FirmStays DEF Finds
  <2>3. ASSUME NEW c \in Pushers, Push(c)
        PROVE  Fine(c)
    <3> DEFINE r == job'[c]
    <3>1. /\ r.results = <<>> /\ r.batch = <<>> /\ r.todo = <<>> /\ r.since = edits
          /\ r.there = Present(r.kind) /\ pc'[c] \in {"list", "hook"}
      BY <2>3, PushMoves
    <3>2. Handled(pc'[c], r) = Present(r.kind)
      BY <3>1 DEF Handled, Queue, ToSet
    <3>3. \A p \in Present(r.kind) : Firm(p)
      BY DEF Present, Firm
    <3>4. r.kind = "sync" => r.there \subseteq UNION {Lists[l] : l \in Layers}
      BY <3>1 DEF Present
    <3>5. QED
      BY <1>1, <2>1, <3>1, <3>2, <3>3, <3>4, FirmStays
  <2>4. ASSUME NEW c \in Pushers, Call(c)
        PROVE  Fine(c)
    <3> DEFINE j == job[c]
               r == job'[c]
    <3>1. Kept(j, r) /\ Looks(c)
      BY <2>4, CallKinds
    <3>2. r.since = j.since /\ r.kind = j.kind /\ (r.kind = "sync" => r.there = j.there)
      BY <3>1 DEF Kept, Looks
    <3>3. j.since = edits => \A p \in Handled(pc'[c], r) : Firm(p)'
      BY <2>1, <2>4, HandledSteps, FirmStays DEF Finds
    <3>4. pc'[c] = "held" => Head(r.todo) \in r.there
      BY <2>4, HandledSteps
    <3>5. QED
      BY <3>2, <3>3, <3>4 DEF Finds
  <2> HIDE DEF Fine
  <2>5. ASSUME NEW c \in Pushers, Push(c) \/ Call(c), NEW d \in Pushers
        PROVE  Fine(d)
    <3>1. Moves(c)
      BY <2>5, PushMoves, CallKinds
    <3>2. CASE d = c
      BY <2>3, <2>4, <2>5, <3>2
    <3>3. CASE d # c
      BY <2>2, <3>1, <3>3, MovesFrame
    <3>4. QED
      BY <3>2, <3>3
  <2>6. ~ UserWrites /\ ~ UserRemoves
    BY <1>1, <1>3 DEF UserWrites, UserRemoves
  <2>7. ASSUME UNCHANGED vars, NEW d \in Pushers
        PROVE  Fine(d)
    <3>1. pc' = pc /\ job' = job
      BY <2>7 DEF vars
    <3>2. QED
      BY <2>2, <3>1
  <2>8. ASSUME NEW d \in Pushers
        PROVE  Fine(d)
    <3>1. CASE \E c \in Pushers : Push(c) \/ Call(c)
      BY <2>5, <3>1
    <3>2. CASE UNCHANGED vars
      BY <2>7, <3>2
    <3>3. QED
      BY <2>6, <3>1, <3>2 DEF Next
  <2>9. QED
    BY <1>3, <2>8 DEF Fine, Finds
<1>4. CASE UserWrites \/ UserRemoves
  BY <1>2, <1>4 DEF UserWrites, UserRemoves
<1>5. CASE \E c \in Pushers : Push(c) \/ Call(c)
  BY <1>3, <1>5, CallKinds, PushFrame
<1>6. CASE UNCHANGED vars
  BY <1>3, <1>6 DEF vars
<1>7. QED
  BY <1>4, <1>5, <1>6 DEF Next

-----------------------------------------------------------------------------
(* What holds of any number of pushers, whatever fails and whoever edits. *)

Inv == Typed /\ Control /\ Finds /\ Provenance /\ Remembered /\ SentToOwn

\* The invariant that needs no assumption on who pushes what.
LEMMA Invariance == Spec => []Inv
<1>1. Init => Inv
  <2> SUFFICES ASSUME Init
               PROVE  Inv
    OBVIOUS
  <2>1. \A c \in Pushers : job[c] = Blank
    BY DEF Init
  <2>2. \A k \in Ids : ~ Recorded(k)
    BY DEF Init, Recorded
  <2>3. Provenance /\ Remembered
    BY <2>1, <2>2, BlankEmpty DEF Provenance, Remembered
  <2>4. SentToOwn
    BY <2>1, BlankEmpty, IdsOfAre DEF SentToOwn
  <2>5. Finds
    BY <2>1, BlankEmpty DEF Init, Finds, Handled, Queue, ToSet
  <2>6. QED
    BY <2>3, <2>4, <2>5, InitTyped DEF Inv
<1>2. Inv /\ [Next]_vars => Inv'
  BY StepTyped, FindsKept, ProvenanceKept, RememberedKept, SentToOwnKept DEF Inv
<1>3. QED
  BY <1>1, <1>2, PTL DEF Spec

\* When a push ends, each id it was given stands in an index, or the association of that
\* very id has failed and the caller is told of an error.
THEOREM UploadsRemembered == Spec => []NoUploadForgotten
<1>1. Inv => NoUploadForgotten
  <2> SUFFICES ASSUME Inv, NEW c \in Pushers, pc[c] = "done", NEW k \in job[c].minted
               PROVE  Recorded(k) \/ (k \in job[c].failed /\ job[c].err)
    BY DEF NoUploadForgotten, Recorded
  <2>1. job[c].results = <<>>
    BY DEF Inv, Control, Placed, Associating
  <2>2. QED
    BY <2>1 DEF Inv, Remembered
<1>2. QED
  BY <1>1, Invariance, PTL

\* A view bound to a container records what it uploads for that container, and no document
\* is sent with an id of another one, whatever other pushers do in the same indexes.
THEOREM OwnContainer == Spec => []EncodesOwnContainer
<1>1. Inv => EncodesOwnContainer
  BY DEF Inv, SentToOwn, Provenance, EncodesOwnContainer
<1>2. QED
  BY <1>1, Invariance, PTL

\* No push takes an id back that an index holds, and none moves it to another scope.
THEOREM RecordedForGood ==
    Spec => [][\A i \in IndexIds, h \in Hashes, k \in Ids :
                 ids[i][h][k] # NoScope => ids'[i][h][k] = ids[i][h][k]]_vars
<1>1. Inv /\ [Next]_vars => \A i \in IndexIds, h \in Hashes, k \in Ids :
                              ids[i][h][k] # NoScope => ids'[i][h][k] = ids[i][h][k]
  BY RecordedStays DEF Inv
<1>2. QED
  BY <1>1, Invariance, PTL DEF Spec

-----------------------------------------------------------------------------
(* Contents, while nobody edits a file. *)

\* What is read of a file some layer has, where no other layer reaches it.
LEMMA FirmReads ==
    ASSUME Stored, SeparateLayers, NEW p, Firm(p)
    PROVE  /\ Loads(p) \in Layers /\ Load(p) \in Hashes
           /\ file[Loads(p)][p] = Load(p) /\ Read(Loads(p), p) = Load(p)
           /\ \A l \in Layers : l # Loads(p) => p \notin Reaches[l]
<1>1. PICK l \in Layers : file[l][p] # NoFile
  BY DEF Firm
<1>2. p \in Paths /\ p \in Reaches[l] /\ Read(l, p) = file[l][p]
  BY <1>1, ReadTyped DEF Firm
<1>3. Load(p) # NoFile /\ Loads(p) \in Layers /\ Read(Loads(p), p) = Load(p) /\ Load(p) \in Hashes
  BY <1>1, <1>2, LoadFinds
<1>4. p \in Reaches[Loads(p)]
  BY <1>2, <1>3, ReadTyped
<1>5. Loads(p) = l
  BY <1>2, <1>3, <1>4 DEF SeparateLayers
<1>6. QED
  BY <1>1, <1>2, <1>3, <1>5 DEF SeparateLayers

\* Where every layer reads the same the stack does.
LEMMA SameLoads ==
    ASSUME NEW p, \A l \in Layers : Read(l, p)' = Read(l, p)
    PROVE  Loads(p)' = Loads(p) /\ Load(p)' = Load(p)
<1>1. {l \in Layers : Read(l, p)' # NoFile} = {l \in Layers : Read(l, p) # NoFile}
  OBVIOUS
<1>2. Loads(p)' = Loads(p)
  BY <1>1 DEF Loads
<1>3. Loads(p) \in Layers \/ Loads(p) = 0
  <2>1. {l \in Layers : Read(l, p) # NoFile} \in SUBSET Layers
    OBVIOUS
  <2>2. QED
    BY <2>1, FirstLayerFirst DEF Loads
<1>4. QED
  BY <1>2, <1>3 DEF Load

\* A file some layer has reads the same after a step that is no edit.
LEMMA FirmSteady ==
    ASSUME Typed, Control, SeparateLayers, [Next]_vars, edits' = edits, NEW p, Firm(p)
    PROVE  /\ Load(p)' = Load(p) /\ Loads(p)' = Loads(p)
           /\ \A l \in Layers : Read(l, p)' = Read(l, p)
<1>1. Stored /\ Lasting /\ p \in Paths
  BY StepLasts DEF Typed, Firm
<1>2. ASSUME NEW l \in Layers
      PROVE  Read(l, p)' = Read(l, p)
  <2>1. CASE l = Loads(p)
    <3>1. /\ file[l][p] # NoFile /\ file'[l][p] = file[l][p] /\ p \in Reaches[l]
          /\ Read(l, p) = file[l][p]
      BY <1>1, <2>1, FirmReads, ReadTyped, PushAssumption DEF Lasting
    <3>2. QED
      BY <3>1 DEF Read
  <2>2. CASE l # Loads(p)
    <3>1. p \notin Reaches[l]
      BY <1>1, <2>2, FirmReads
    <3>2. QED
      BY <3>1 DEF Read
  <2>3. QED
    BY <2>1, <2>2
<1>3. QED
  BY <1>2, SameLoads

\* No association changes what a call reads of the files it is at: a layer has them.
LEMMA HandledFirm ==
    ASSUME Typed, Control, Finds, [Next]_vars, edits' = edits,
           NEW d \in Pushers, job'[d].since = edits, NEW p \in Handled(pc'[d], job'[d])
    PROVE  p \in Paths /\ (SameReads \/ Firm(p))
<1>1. Firm(p)'
  BY FindsKept DEF Finds
<1>2. p \in Paths
  BY <1>1 DEF Firm
<1>3. ASSUME NEW c \in Pushers, AddAssociate(c)
      PROVE  Firm(p)
  <2>1. /\ Moves(c) /\ Skips(job[c], job'[c]) /\ pc[c] = "add" /\ pc'[c] = "route"
        /\ job[c].results # <<>> /\ job[c].results \in Seq(Answers)
    BY <1>3, AddAssociateMoves, JobTyped
  <2>2. CASE d # c
    <3>1. pc'[d] = pc[d] /\ job'[d] = job[d]
      BY <2>1, <2>2, MovesFrame
    <3>2. QED
      BY <3>1 DEF Finds
  <2>3. CASE d = c
    <3>1. /\ job'[c].there = job[c].there /\ job'[c].batch = job[c].batch
          /\ job'[c].results = Tail(job[c].results) /\ job'[c].since = job[c].since
      BY <2>1 DEF Skips, Kept
    <3>2. \A n \in DOMAIN job'[c].results : \E m \in DOMAIN job[c].results : job'[c].results[n] = job[c].results[m]
      BY <2>1, <3>1, HeadAndTail
    <3>3. p \in Handled(pc[c], job[c])
      BY <2>1, <2>3, <3>1, <3>2 DEF Handled, Queue
    <3>4. QED
      BY <2>3, <3>1, <3>3 DEF Finds
  <2>4. QED
    BY <2>2, <2>3
<1>4. QED
  BY <1>2, <1>3, StepLasts

\* So unless somebody edits them they read the same.
LEMMA HandledSteady ==
    ASSUME Typed, Control, Finds, SeparateLayers, [Next]_vars, edits' = edits,
           NEW d \in Pushers, job'[d].since = edits, NEW p \in Handled(pc'[d], job'[d])
    PROVE  Load(p)' = Load(p) /\ Loads(p)' = Loads(p)
<1>1. CASE Firm(p)
  BY <1>1, FirmSteady
<1>2. CASE SameReads /\ p \in Paths
  BY <1>2, SameLoads DEF SameReads
<1>3. QED
  BY <1>1, <1>2, HandledFirm

\* What of that is in the batch and among the results.
LEMMA HandledHas ==
    ASSUME NEW l, NEW j
    PROVE  /\ \A n \in DOMAIN j.batch : j.batch[n].path \in Handled(l, j)
           /\ \A n \in DOMAIN j.results : j.results[n].path \in Handled(l, j)
           /\ j.there \subseteq Handled(l, j)
           /\ l \in {"list", "load"} => ToSet(j.todo) \subseteq Handled(l, j)
           /\ l \in {"readable", "held"} => ToSet(j.paths) \subseteq Handled(l, j)
  BY DEF Handled, Queue

\* Nobody has edited a file since the push began if nobody ever has.
LEMMA SinceNone ==
    ASSUME Typed, Finds, edits = 0, NEW c \in Pushers
    PROVE  job[c].since = edits
<1>1. job[c].since \in Nat /\ job[c].since <= 0
  BY JobTyped DEF Finds
<1>2. QED
  BY <1>1

\* People's edits are counted, and nothing else is.
LEMMA EditsCount ==
    ASSUME Typed, Control, [Next]_vars
    PROVE  \/ edits' = edits
           \/ /\ edits' = edits + 1
              /\ UNCHANGED <<ids, uploaded, pc, job>>
<1>1. ASSUME NEW c \in Pushers, Push(c)
      PROVE  edits' = edits
  BY <1>1, PushFrame
<1>2. ASSUME NEW c \in Pushers, Call(c)
      PROVE  edits' = edits
  BY <1>2, CallKinds
<1>3. CASE UserWrites \/ UserRemoves \/ UNCHANGED vars
  BY <1>3 DEF UserWrites, UserRemoves, vars
<1>4. QED
  BY <1>1, <1>2, <1>3 DEF Next

\* What a call's batch holds after a step.
LEMMA BatchSteps ==
    ASSUME Typed, Control, NEW c \in Pushers, Push(c) \/ Call(c)
    PROVE  LET j == job[c]
               r == job'[c]
               p == Head(j.todo)
           IN  \/ r.batch = <<>>
               \/ r.batch = j.batch
               \/ /\ LoadPath(c) /\ p \in Paths /\ Load(p) \in Hashes
                  /\ ~ Seen(j.batch, p, Load(p))
                  /\ r.batch = Append(j.batch, [path |-> p, hash |-> Load(p)])
<1>1. CASE Push(c)
  BY <1>1, PushMoves
<1>2. CASE ListLayer(c)
  BY <1>2, ListLayerMoves
<1>3. CASE RunHook(c)
  BY <1>3, RunHookMoves
<1>4. CASE CheckReadable(c) \/ CheckHeld(c)
  BY <1>4, CheckReadableMoves, CheckHeldMoves
<1>5. CASE LoadPath(c)
  BY <1>5, LoadPathMoves
<1>6. CASE Upload(c)
  BY <1>6, UploadMoves
<1>7. CASE RouteAssociate(c)
  BY <1>7, RouteAssociateMoves DEF Skips
<1>8. CASE ReadAssociate(c)
  BY <1>8, ReadAssociateMoves DEF Skips
<1>9. CASE AddAssociate(c)
  BY <1>9, AddAssociateMoves DEF Skips
<1>10. CASE Encode(c)
  BY <1>10, EncodeMoves
<1>11. QED
  BY <1>1, <1>2, <1>3, <1>4, <1>5, <1>6, <1>7, <1>8, <1>9, <1>10 DEF Call

\* The batch of a call in which each file has the hash that was read of it.
LEMMA BatchFaithful ==
    ASSUME Typed, Control, NEW c \in Pushers, Push(c) \/ Call(c),
           \A n \in DOMAIN job[c].batch : Load(job[c].batch[n].path) = job[c].batch[n].hash
    PROVE  \A n \in DOMAIN job'[c].batch : Load(job'[c].batch[n].path) = job'[c].batch[n].hash
<1> DEFINE j == job[c]
           r == job'[c]
           p == Head(j.todo)
           entry == [path |-> p, hash |-> Load(p)]
<1>1. j.batch \in Seq(Entries)
  BY JobTyped
<1>2. CASE r.batch = <<>> \/ r.batch = j.batch
  BY <1>2
<1>3. CASE p \in Paths /\ Load(p) \in Hashes /\ r.batch = Append(j.batch, entry)
  <2>1. entry \in Entries /\ entry.path = p /\ entry.hash = Load(p)
    BY <1>3 DEF Entries
  <2> HIDE DEF entry
  <2>2. ASSUME NEW n \in DOMAIN r.batch
        PROVE  Load(r.batch[n].path) = r.batch[n].hash
    <3>1. CASE n \in DOMAIN j.batch
      BY <1>1, <1>3, <2>1, <3>1, AppendLists
    <3>2. CASE n \notin DOMAIN j.batch
      <4>1. r.batch[n] = entry
        BY <1>1, <1>3, <2>1, <2>2, <3>2, AppendLists
      <4>2. QED
        BY <2>1, <4>1
    <3>3. QED
      BY <3>1, <3>2
  <2>3. QED
    BY <2>2
<1>4. QED
  BY <1>2, <1>3, BatchSteps

\* Only the first steps of an association lead into the next ones.
LEMMA AssociationSteps ==
    ASSUME Typed, Control, NEW c \in Pushers, Push(c) \/ Call(c), pc'[c] \in {"read", "add"}
    PROVE  RouteAssociate(c) \/ ReadAssociate(c)
<1>1. CASE Push(c)
  BY <1>1, PushMoves
<1>2. CASE ListLayer(c)
  BY <1>2, ListLayerMoves
<1>3. CASE RunHook(c)
  BY <1>3, RunHookMoves
<1>4. CASE CheckReadable(c) \/ CheckHeld(c)
  BY <1>4, CheckReadableMoves, CheckHeldMoves
<1>5. CASE LoadPath(c)
  BY <1>5, LoadPathMoves
<1>6. CASE Upload(c)
  BY <1>6, UploadMoves
<1>7. CASE AddAssociate(c)
  BY <1>7, AddAssociateMoves
<1>8. CASE Encode(c)
  BY <1>8, EncodeMoves
<1>9. QED
  BY <1>1, <1>2, <1>3, <1>4, <1>5, <1>6, <1>7, <1>8 DEF Call

\* The layer an association goes to is the one that answers for the path.
LEMMA AssociationReads ==
    ASSUME Typed, Control, NEW c \in Pushers, Push(c) \/ Call(c),
           pc[c] = "read" => job[c].at = Loads(job[c].results[1].path)
    PROVE  LET l == pc'[c]
               r == job'[c]
           IN  /\ l \in {"read", "add"} => r.at = Loads(r.results[1].path)
               /\ l = "add" => r.read = Load(r.results[1].path)
<1> DEFINE j == job[c]
           r == job'[c]
<1>1. j.results \in Seq(Answers)
  BY JobTyped
<1>2. ASSUME RouteAssociate(c), pc'[c] = "read"
      PROVE  r.at = Loads(r.results[1].path)
  <2>1. r.at = Loads(Head(j.results).path) /\ r.results = j.results /\ j.results # <<>>
    BY <1>2, RouteAssociateMoves DEF Quiet, Seeks
  <2>2. QED
    BY <1>1, <2>1, HeadAndTail
<1>3. ASSUME ReadAssociate(c), pc'[c] = "add"
      PROVE  r.at = Loads(r.results[1].path) /\ r.read = Load(r.results[1].path)
  <2>1. /\ r.at = j.at /\ r.results = j.results /\ j.results # <<>> /\ pc[c] = "read"
        /\ r.read = Read(j.at, Head(j.results).path) /\ j.at \in Layers
    BY <1>3, ReadAssociateMoves DEF Quiet, Seeks
  <2>2. Head(j.results) = j.results[1] /\ Head(j.results).path \in Paths
    <3>1. Head(j.results) = j.results[1] /\ Head(j.results) \in Answers
      BY <1>1, <2>1, HeadAndTail
    <3>2. QED
      BY <3>1 DEF Answers
  <2>3. Loads(j.results[1].path) # 0
    BY <2>1, PushAssumption DEF Layers
  <2>4. QED
    BY <2>1, <2>2, <2>3, LoadFinds DEF Typed
<1>4. ASSUME RouteAssociate(c)
      PROVE  pc'[c] # "add"
  BY <1>4, RouteAssociateMoves
<1>5. ASSUME ReadAssociate(c)
      PROVE  pc'[c] # "read"
  BY <1>5, ReadAssociateMoves
<1>6. QED
  BY <1>2, <1>3, <1>4, <1>5, AssociationSteps

\* What a call knows after its own step, of the files as they were before it.
LEMMA RecallsMoves ==
    ASSUME Typed, Control, Provenance, NEW c \in Pushers, Push(c) \/ Call(c), Recalls(c)
    PROVE  LET l == pc'[c]
               r == job'[c]
           IN  /\ \A n \in DOMAIN r.batch : Load(r.batch[n].path) = r.batch[n].hash
               /\ \A n \in DOMAIN r.results : uploaded'[r.results[n].id] = Load(r.results[n].path)
               /\ l \in {"read", "add"} => r.at = Loads(r.results[1].path)
               /\ l = "add" => r.read = Load(r.results[1].path)
<1> DEFINE r == job'[c]
<1>1. \A n \in DOMAIN r.batch : Load(r.batch[n].path) = r.batch[n].hash
  BY BatchFaithful DEF Recalls
<1>2. /\ pc'[c] \in {"read", "add"} => r.at = Loads(r.results[1].path)
      /\ pc'[c] = "add" => r.read = Load(r.results[1].path)
  BY AssociationReads DEF Recalls
<1>3. ASSUME NEW n \in DOMAIN r.results
      PROVE  uploaded'[r.results[n].id] = Load(r.results[n].path)
  <2>1. CASE Push(c)
    BY <2>1, PushMoves
  <2>2. CASE Silent(c) \/ Failing(c) \/ AddAssociate(c)
    <3>1. uploaded' = uploaded
      BY <2>2 DEF Silent, Failing, AddAssociate, Books
    <3>2. QED
      BY <2>2, <3>1, FewerResults DEF Recalls
  <2>3. CASE Upload(c)
    BY <2>3, UploadMoves DEF Answer, Recalls
  <2>4. QED
    BY <2>1, <2>2, <2>3, CallKinds
<1>4. QED
  BY <1>1, <1>2, <1>3

\* The step leaves those files as they are.
LEMMA RecallsStays ==
    ASSUME Typed, Control, Finds, SeparateLayers, [Next]_vars, edits' = edits, NEW d \in Pushers,
           job'[d].since = edits,
           LET l == pc'[d]
               r == job'[d]
           IN  /\ \A n \in DOMAIN r.batch : Load(r.batch[n].path) = r.batch[n].hash
               /\ \A n \in DOMAIN r.results : uploaded'[r.results[n].id] = Load(r.results[n].path)
               /\ l \in {"read", "add"} => r.at = Loads(r.results[1].path)
               /\ l = "add" => r.read = Load(r.results[1].path)
    PROVE  Recalls(d)'
<1> DEFINE r == job'[d]
<1>1. \A p \in Handled(pc'[d], r) : Load(p)' = Load(p) /\ Loads(p)' = Loads(p)
  BY HandledSteady
<1>2. \A n \in DOMAIN r.batch : Load(job[d].batch[n].path)' = Load(r.batch[n].path)
  <2>1. \A n \in DOMAIN r.batch : r.batch[n].path \in Handled(pc'[d], r)
    BY HandledHas
  <2>2. QED
    BY <1>1, <2>1
<1>3. \A n \in DOMAIN r.results :
        /\ Load(job[d].results[n].path)' = Load(r.results[n].path)
        /\ Loads(job[d].results[n].path)' = Loads(r.results[n].path)
  <2>1. \A n \in DOMAIN r.results : r.results[n].path \in Handled(pc'[d], r)
    BY HandledHas
  <2>2. QED
    BY <1>1, <2>1
<1>4. pc'[d] \in {"read", "add"} => 1 \in DOMAIN r.results
  <2>1. Control' /\ r.results \in Seq(Answers)
    BY StepTyped DEF Typed, Jobs
  <2>2. pc'[d] \in {"read", "add"} => r.results # <<>>
    BY <2>1 DEF Control, Placed
  <2>3. QED
    BY <2>1, <2>2, HeadAndTail
<1>5. QED
  BY <1>2, <1>3, <1>4 DEF Recalls

\* Until somebody edits a picture, every id recorded is of the content uploaded.
LEMMA FaithfulKept ==
    ASSUME Typed, Control, Finds, Provenance, Faithful, SeparateLayers, [Next]_vars
    PROVE  Faithful'
<1>1. CASE edits' = edits + 1
  <2>1. edits' # 0
    BY <1>1, PushAssumption DEF Typed
  <2>2. QED
    BY <2>1 DEF Faithful
<1>2. CASE edits # 0 /\ edits' = edits
  BY <1>2 DEF Faithful
<1>3. CASE edits = 0 /\ edits' = edits
  <2>1. /\ Truthful
        /\ \A c \in Pushers : Recalls(c) /\ job[c].since = edits /\ job'[c].since = edits
    <3>1. \A c \in Pushers : job[c].since = edits
      BY <1>3, SinceNone
    <3>2. Typed' /\ Finds' /\ edits' = 0
      BY <1>3, StepTyped, FindsKept
    <3>3. \A c \in Pushers : job'[c].since \in Nat /\ job'[c].since <= edits'
      BY <3>2 DEF Typed, Finds, Jobs
    <3>4. QED
      BY <1>3, <3>1, <3>2, <3>3 DEF Faithful
  <2>2. ASSUME NEW c \in Pushers, Push(c) \/ Call(c)
        PROVE  \A k \in Ids : uploaded[k] # NoFile => uploaded'[k] = uploaded[k]
    <3>1. CASE Push(c)
      BY <3>1 DEF Push, World, Books
    <3>2. CASE Silent(c) \/ Failing(c) \/ AddAssociate(c)
      BY <3>2 DEF Silent, Failing, AddAssociate, Books
    <3>3. CASE Upload(c)
      BY <3>3, UploadMoves
    <3>4. QED
      BY <2>2, <3>1, <3>2, <3>3, CallKinds
  <2>3. ASSUME NEW c \in Pushers, Push(c) \/ Call(c), NEW d \in Pushers
        PROVE  Recalls(d)'
    <3>1. CASE d = c
      BY <1>3, <2>1, <2>3, <3>1, RecallsMoves, RecallsStays
    <3>2. CASE d # c
      <4>1. Moves(c)
        BY <2>3, PushMoves, CallKinds
      <4>2. job'[d] = job[d] /\ pc'[d] = pc[d]
        BY <3>2, <4>1, MovesFrame
      <4>3. \A n \in DOMAIN job[d].results : uploaded'[job[d].results[n].id] = uploaded[job[d].results[n].id]
        BY <2>2, <2>3, JobTyped DEF Provenance
      <4>4. QED
        BY <1>3, <2>1, <4>2, <4>3, RecallsStays DEF Recalls
    <3>3. QED
      BY <3>1, <3>2
  <2>4. ASSUME NEW c \in Pushers, Push(c) \/ Call(c)
        PROVE  Truthful'
    <3>1. ASSUME NEW i \in IndexIds, NEW h \in Hashes, NEW k \in Ids, ids'[i][h][k] # NoScope
          PROVE  uploaded'[k] = h
      <4>1. CASE ids[i][h][k] # NoScope
        <5>1. uploaded[k] # NoFile /\ uploaded[k] = h
          BY <2>1, <4>1 DEF Truthful, Provenance, Recorded
        <5>2. QED
          BY <2>2, <2>4, <5>1
      <4>2. CASE ids[i][h][k] = NoScope
        <5> DEFINE j == job[c]
        <5>1. AddAssociate(c)
          <6>1. ids' # ids
            BY <3>1, <4>2
          <6>2. QED
            BY <2>4, <6>1, OnlyAddRecords
        <5>2. /\ j.results # <<>> /\ j.at \in Layers /\ j.read \in Hashes /\ pc[c] = "add"
              /\ Head(j.results) \in Answers /\ ids' \in {ids, Adds(j)}
          BY <5>1, AddAssociateMoves
        <5>3. h = j.read /\ k = Head(j.results).id
          BY <3>1, <4>2, <5>2, AddsWrites
        <5>4. Head(j.results) = j.results[1] /\ 1 \in DOMAIN j.results
          BY <5>2, HeadIsMinted
        <5>5. uploaded[k] = h
          BY <2>1, <5>2, <5>3, <5>4 DEF Recalls
        <5>6. QED
          BY <5>1, <5>5 DEF AddAssociate
      <4>3. QED
        BY <4>1, <4>2
    <3>2. QED
      BY <3>1 DEF Truthful
  <2>5. CASE UserWrites \/ UserRemoves \/ UNCHANGED vars
    <3>1. UNCHANGED <<ids, uploaded, pc, job>>
      BY <2>5 DEF UserWrites, UserRemoves, vars
    <3>2. Truthful'
      BY <2>1, <3>1 DEF Truthful
    <3>3. \A c \in Pushers : Recalls(c)'
      BY <1>3, <2>1, <3>1, RecallsStays DEF Recalls
    <3>4. QED
      BY <3>2, <3>3 DEF Faithful
  <2>6. QED
    BY <2>3, <2>4, <2>5 DEF Next, Faithful
<1>4. QED
  BY <1>1, <1>2, <1>3, EditsCount

\* Unless people edit files, an id stands in the index for the very content it was minted
\* for, whichever layer its association went to.  No file is in reach of two layers: each
\* store keeps to its own folder (refToFull).
THEOREM IdsFaithful == ASSUME SeparateLayers PROVE Spec => []IdsNameTheirUpload
<1>1. Init => Faithful
  BY BlankEmpty DEF Init, Faithful, Truthful, Recalls
<1>2. Inv /\ Faithful /\ [Next]_vars => Faithful'
  BY FaithfulKept DEF Inv
<1>3. Faithful => IdsNameTheirUpload
  BY DEF Faithful, Truthful, IdsNameTheirUpload
<1>4. QED
  BY <1>1, <1>2, <1>3, Invariance, PTL DEF Spec

-----------------------------------------------------------------------------
(* One pusher sends nothing twice. *)

\* FSStore.Pending: what a layer lists as pending is new to it.
LEMMA UnsentIsNew ==
    ASSUME Stored, SeparateLayers, NEW l \in Layers, NEW s \in Scopes, NEW p \in Unsent(l, s)
    PROVE  p \in Paths /\ New(s, p)
<1>1. /\ p \in Paths /\ p \in Reaches[l]
      /\ file[l][p] # NoFile /\ Held(l, s, file[l][p]) = 0
  BY PushAssumption DEF Unsent
<1>2. /\ Loads(p) = l /\ Load(p) = file[l][p] /\ Load(p) \in Hashes
  BY <1>1, FirmReads DEF Firm
<1>3. QED
  BY <1>1, <1>2, PushAssumption, HeldGives DEF New

\* The upload hook: what no layer knows is new to the layer that loads it.
LEMMA UnknownIsNew ==
    ASSUME Stored, NEW s \in Scopes, NEW p \in Paths, Load(p) # NoFile, Lookup(s, p) = 0
    PROVE  New(s, p)
<1>1. Loads(p) \in Layers /\ Read(Loads(p), p) = Load(p)
  BY LoadFinds
<1>2. ~ Visible(ids[IndexOf[Loads(p)]][Load(p)], s)
  BY <1>1, LookupGives
<1>3. QED
  BY <1>2 DEF New

\* Where a call goes with nothing to send.
LEMMA NothingToSend ==
    ASSUME NEW l, NEW j, j.batch = <<>>, j.results = <<>>,
           l \in {"list", "load"} => ToSet(j.todo) = {},
           l \notin {"readable", "held"}
    PROVE  NewToSend(l, j)
  BY DEF NewToSend

\* Where it goes with the batch and the results it has.
LEMMA SameToSend ==
    ASSUME Typed, Control, NEW c \in Pushers, NEW l \in Places, NEW r \in Jobs, NewToSend(pc[c], job[c]),
           r.batch = job[c].batch, r.view = job[c].view,
           l \notin {"list", "load", "readable", "held", "upload"},
           r.results = job[c].results \/ (job[c].results # <<>> /\ r.results = Tail(job[c].results))
    PROVE  NewToSend(l, r)
<1> DEFINE j == job[c]
<1>1. \A m, n \in DOMAIN r.batch : m # n => r.batch[m].hash # r.batch[n].hash
  BY DEF NewToSend
<1>2. CASE r.results = j.results
  BY <1>1, <1>2 DEF NewToSend
<1>3. CASE j.results # <<>> /\ r.results = Tail(j.results)
  <2>1. j.results \in Seq(Answers)
    BY JobTyped
  <2>2. \A n \in DOMAIN r.results : /\ n + 1 \in DOMAIN j.results /\ r.results[n] = j.results[n + 1]
                                    /\ n \in Nat
    <3>1. Tail(j.results) \in Seq(Answers)
      BY <1>3, <2>1, HeadAndTail
    <3>2. \A n \in DOMAIN r.results : n \in Nat
      BY <1>3, <3>1
    <3>3. QED
      BY <1>3, <2>1, <3>2, HeadAndTail
  <2>3. \A n \in DOMAIN r.results : New(r.view, r.results[n].path)
    BY <2>2 DEF NewToSend
  <2>4. ASSUME NEW m \in DOMAIN r.results, NEW n \in DOMAIN r.results, m # n
        PROVE  Load(r.results[m].path) # Load(r.results[n].path)
    <3>1. m + 1 # n + 1
      BY <2>2, <2>4
    <3>2. QED
      BY <2>2, <3>1 DEF NewToSend
  <2>5. QED
    BY <1>1, <2>3, <2>4 DEF NewToSend
<1>4. QED
  BY <1>2, <1>3

\* A path that is loaded joins the batch unless a file of the batch is the same.
LEMMA LoadedIsNew ==
    ASSUME Typed, Control, NEW c \in Pushers, LoadPath(c), NewToSend(pc[c], job[c]), Recalls(c)
    PROVE  NewToSend(pc'[c], job'[c])
<1> DEFINE j == job[c]
           r == job'[c]
           p == Head(j.todo)
           entry == [path |-> p, hash |-> Load(p)]
<1>1. /\ Quiet(j, r) /\ pc[c] = "load" /\ j.results = <<>> /\ j.batch \in Seq(Entries)
      /\ r.results = <<>> /\ r.view = j.view
  <2>1. Quiet(j, r) /\ pc[c] = "load"
    BY LoadPathMoves
  <2>2. j.results = <<>>
    BY <2>1 DEF Control, Placed, Associating
  <2>3. QED
    BY <2>1, <2>2, JobTyped DEF Quiet, Seeks, Kept
<1>2. CASE pc'[c] \in {"upload", "encode", "done"} /\ r.batch = j.batch
  BY <1>1, <1>2 DEF NewToSend
<1>3. CASE /\ pc'[c] = "load" /\ p \in Paths /\ ToSet(j.todo) = {p} \cup ToSet(r.todo)
           /\ Load(p) \in Hashes
           /\ \/ Seen(j.batch, p, Load(p)) /\ r.batch = j.batch
              \/ ~ Seen(j.batch, p, Load(p)) /\ r.batch = Append(j.batch, entry)
  <2>1. New(r.view, p) /\ \A q \in ToSet(r.todo) : New(r.view, q)
    BY <1>1, <1>3 DEF NewToSend
  <2>2. CASE r.batch = j.batch
    BY <1>1, <1>3, <2>1, <2>2 DEF NewToSend
  <2>3. CASE ~ Seen(j.batch, p, Load(p)) /\ r.batch = Append(j.batch, entry)
    <3>1. entry \in Entries /\ entry.path = p /\ entry.hash = Load(p)
      BY <1>3 DEF Entries
    <3> HIDE DEF entry
    <3>2. ASSUME NEW n \in DOMAIN r.batch
          PROVE  \/ n \in DOMAIN j.batch /\ r.batch[n] = j.batch[n]
                 \/ n = Len(j.batch) + 1 /\ n \notin DOMAIN j.batch /\ r.batch[n] = entry
      BY <1>1, <2>3, <3>1, <3>2, AppendLists
    <3>3. \A n \in DOMAIN r.batch : New(r.view, r.batch[n].path)
      BY <1>1, <2>1, <3>1, <3>2 DEF NewToSend
    <3>4. \A n \in DOMAIN j.batch : j.batch[n].hash # entry.hash
      BY <2>3, <3>1 DEF Seen
    <3>5. \A m, n \in DOMAIN j.batch : m # n => j.batch[m].hash # j.batch[n].hash
      BY DEF NewToSend
    <3>6. ASSUME NEW m \in DOMAIN r.batch, NEW n \in DOMAIN r.batch, m # n
          PROVE  r.batch[m].hash # r.batch[n].hash
      BY <3>2, <3>4, <3>5, <3>6
    <3>7. QED
      BY <1>1, <1>3, <2>1, <3>3, <3>6 DEF NewToSend
  <2>4. QED
    BY <1>3, <2>2, <2>3
<1>4. QED
  BY <1>2, <1>3, LoadPathMoves

\* The product is handed new files only, and no file twice.
LEMMA UploadedIsNew ==
    ASSUME Typed, Control, NEW c \in Pushers, Upload(c), NewToSend(pc[c], job[c]), Recalls(c)
    PROVE  NewToSend(pc'[c], job'[c])
<1> DEFINE j == job[c]
           r == job'[c]
<1>1. /\ pc[c] = "upload" /\ pc'[c] = "route" /\ r.view = j.view /\ r.batch = j.batch
  BY UploadMoves DEF Kept
<1>2. PICK taken : Answer(j, r, taken)
  BY UploadMoves
<1>3. \A i \in DOMAIN r.results : New(r.view, r.results[i].path)
  BY <1>1, <1>2 DEF Answer, NewToSend
<1>4. ASSUME NEW m \in DOMAIN r.results, NEW n \in DOMAIN r.results, m # n
      PROVE  Load(r.results[m].path) # Load(r.results[n].path)
  <2>1. /\ taken[m] \in DOMAIN j.batch /\ taken[n] \in DOMAIN j.batch /\ taken[m] # taken[n]
        /\ r.results[m].path = j.batch[taken[m]].path /\ r.results[n].path = j.batch[taken[n]].path
    BY <1>2, <1>4 DEF Answer
  <2>2. j.batch[taken[m]].hash # j.batch[taken[n]].hash
    BY <2>1 DEF NewToSend
  <2>3. QED
    BY <2>1, <2>2 DEF Recalls
<1>5. \A m, n \in DOMAIN r.batch : m # n => r.batch[m].hash # r.batch[n].hash
  BY <1>1 DEF NewToSend
<1>6. QED
  BY <1>1, <1>3, <1>4, <1>5 DEF NewToSend

\* What is on its way to the uploader is new, and stays so while its pusher moves.
LEMMA NewToSendMoves ==
    ASSUME Typed, Control, Finds, NEW c \in Pushers, Push(c) \/ Call(c), NewToSend(pc[c], job[c]), Recalls(c),
           job[c].since = edits, SeparateLayers
    PROVE  NewToSend(pc'[c], job'[c])
<1> DEFINE j == job[c]
           l == pc'[c]
           r == job'[c]
<1>1. CASE Push(c)
  <2>1. r.batch = <<>> /\ r.results = <<>> /\ ToSet(r.todo) = {} /\ l \notin {"readable", "held"}
    BY <1>1, PushMoves DEF ToSet
  <2>2. QED
    BY <2>1, NothingToSend
<1>2. CASE ListLayer(c)
  <2>1. /\ pc[c] = "list" /\ r.batch = <<>> /\ r.results = <<>> /\ r.view = j.view /\ j.at \in Layers
        /\ j.view \in Scopes
        /\ l \in {"list", "load", "encode", "done"}
        /\ l \in {"list", "load"} => ToSet(r.todo) = ToSet(j.todo) \cup Unsent(j.at, j.view)
    <3>1. /\ pc[c] = "list" /\ r.batch = <<>> /\ Quiet(j, r) /\ j.at \in Layers
          /\ l \in {"list", "load", "encode", "done"}
          /\ l \in {"list", "load"} => ToSet(r.todo) = ToSet(j.todo) \cup Unsent(j.at, j.view)
      BY <1>2, ListLayerMoves
    <3>2. j.results = <<>>
      BY <3>1 DEF Control, Placed, Associating
    <3>3. QED
      BY <3>1, <3>2, JobTyped DEF Quiet, Seeks, Kept
  <2>2. \A p \in Unsent(j.at, j.view) : New(j.view, p)
    BY <2>1, UnsentIsNew DEF Typed
  <2>3. QED
    BY <2>1, <2>2 DEF NewToSend
<1>3. CASE RunHook(c)
  <2>1. /\ r.batch = <<>> /\ r.results = <<>> /\ l \in {"encode", "hook", "done", "readable"}
        /\ l = "readable" => ToSet(r.paths) = {}
    BY <1>3, RunHookMoves DEF Quiet, Seeks, Control, Placed, Associating, ToSet
  <2>2. QED
    BY <2>1 DEF NewToSend
<1>4. CASE CheckReadable(c)
  <2>1. /\ pc[c] = "readable" /\ r.batch = <<>> /\ r.results = <<>> /\ r.view = j.view
        /\ l \in {"readable", "held", "load", "hook"}
        /\ l \in {"readable", "held"} => r.paths = j.paths
        /\ l = "load" => r.todo = j.paths
    BY <1>4, CheckReadableMoves DEF Seeks, Kept, Control, Placed, Associating
  <2>2. QED
    BY <2>1 DEF NewToSend
<1>5. CASE CheckHeld(c)
  <2> DEFINE p == Head(j.todo)
  <2>1. /\ pc[c] = "held" /\ r.batch = <<>> /\ r.results = <<>> /\ r.view = j.view
        /\ l = "readable" /\ p \in Paths /\ j.view \in Scopes
        /\ ToSet(r.paths) = ToSet(j.paths) \cup (IF Lookup(j.view, p) = 0 THEN {p} ELSE {})
    <3>1. /\ pc[c] = "held" /\ r.batch = <<>> /\ Quiet(j, r) /\ l = "readable" /\ p \in Paths
          /\ ToSet(r.paths) = ToSet(j.paths) \cup (IF Lookup(j.view, p) = 0 THEN {p} ELSE {})
      BY <1>5, CheckHeldMoves
    <3>2. j.results = <<>>
      BY <3>1 DEF Control, Placed, Associating
    <3>3. QED
      BY <3>1, <3>2, JobTyped DEF Quiet, Seeks, Kept
  <2>2. Lookup(j.view, p) = 0 => New(j.view, p)
    <3>1. Firm(p)
      BY <2>1, HandledHas DEF Finds
    <3>2. Load(p) # NoFile
      BY <3>1, FirmReads, PushAssumption DEF Typed
    <3>3. QED
      BY <2>1, <3>2, UnknownIsNew DEF Typed
  <2>3. \A q \in ToSet(j.paths) : New(j.view, q)
    BY <2>1 DEF NewToSend
  <2> HIDE DEF p
  <2>4. \A q \in ToSet(r.paths) : New(r.view, q)
    BY <2>1, <2>2, <2>3
  <2>5. QED
    BY <2>1, <2>4 DEF NewToSend
<1>6. CASE LoadPath(c)
  BY <1>6, LoadedIsNew
<1>7. CASE Upload(c)
  BY <1>7, UploadedIsNew
<1>8. CASE RouteAssociate(c)
  <2>1. CASE r.batch = <<>> /\ r.results = <<>> /\ l \in {"encode", "done", "hook"}
    BY <2>1, NothingToSend
  <2>2. CASE /\ Moves(c) /\ r.batch = j.batch /\ r.view = j.view /\ l \in {"route", "read"}
             /\ r.results = j.results \/ (j.results # <<>> /\ r.results = Tail(j.results))
    BY <2>2, SameToSend DEF Moves
  <2>3. QED
    BY <1>8, <2>1, <2>2, RouteAssociateMoves DEF Quiet, Seeks, Kept, Skips
<1>9. CASE ReadAssociate(c)
  <2>1. /\ Moves(c) /\ r.batch = j.batch /\ r.view = j.view /\ l \in {"route", "add"}
        /\ r.results = j.results \/ (j.results # <<>> /\ r.results = Tail(j.results))
    BY <1>9, ReadAssociateMoves DEF Quiet, Seeks, Kept, Skips
  <2>2. QED
    BY <2>1, SameToSend DEF Moves
<1>10. CASE AddAssociate(c)
  <2>1. /\ Moves(c) /\ r.batch = j.batch /\ r.view = j.view /\ l = "route"
        /\ j.results # <<>> /\ r.results = Tail(j.results)
    BY <1>10, AddAssociateMoves DEF Kept, Skips
  <2>2. QED
    BY <2>1, SameToSend DEF Moves
<1>11. CASE Encode(c)
  <2>1. /\ Moves(c) /\ r.batch = j.batch /\ r.view = j.view /\ l \in {"encode", "done"}
        /\ r.results = j.results
    BY <1>11, EncodeMoves DEF Quiet, Seeks, Kept
  <2>2. QED
    BY <2>1, SameToSend DEF Moves
<1>12. QED
  BY <1>1, <1>2, <1>3, <1>4, <1>5, <1>6, <1>7, <1>8, <1>9, <1>10, <1>11 DEF Call

\* No content has two ids that one scope sees.
LEMMA NothingTwiceKept ==
    ASSUME Typed, Control, Provenance, NothingUploadedTwice, Faithful, SendsNew, [Next]_vars
    PROVE  NothingUploadedTwice'
<1>1. ASSUME NEW k1 \in Ids, NEW k2 \in Ids, NEW i \in IndexIds, NEW h \in Hashes,
             k1 # k2, ids'[i][h][k1] = ids'[i][h][k2], edits' = 0, ids'[i][h][k1] # NoScope
      PROVE  FALSE
  <2>1. edits = 0
    BY <1>1, EditsCount, PushAssumption DEF Typed
  <2>2. ids[i][h][k1] # ids[i][h][k2] \/ ids[i][h][k1] = NoScope
    BY <1>1, <2>1 DEF NothingUploadedTwice
  <2>3. PICK c \in Pushers : AddAssociate(c)
    <3>1. ids' # ids
      BY <1>1, <2>2
    <3>2. \/ \E c \in Pushers : Push(c) \/ Call(c)
          \/ UserWrites \/ UserRemoves \/ UNCHANGED vars
      BY DEF Next
    <3>3. ~ (UserWrites \/ UserRemoves \/ UNCHANGED vars)
      BY <3>1 DEF UserWrites, UserRemoves, vars
    <3>4. QED
      BY <3>1, <3>2, <3>3, OnlyAddRecords
  <2> DEFINE j == job[c]
             k0 == Head(j.results).id
             q == j.results[1].path
  <2>4. /\ j.results # <<>> /\ j.at \in Layers /\ j.read \in Hashes /\ pc[c] = "add"
        /\ Head(j.results) \in Answers /\ ids' \in {ids, Adds(j)}
    BY <2>3, AddAssociateMoves
  <2>5. \A x \in IndexIds, g \in Hashes, k \in Ids :
          \/ ids'[x][g][k] = ids[x][g][k]
          \/ x = IndexOf[j.at] /\ g = j.read /\ k = k0 /\ ids'[x][g][k] = j.view
    BY <2>4, AddsWrites
  <2>6. j.at = Loads(q) /\ j.read = Load(q) /\ 1 \in DOMAIN j.results
    BY <2>1, <2>4, HeadIsMinted DEF Faithful, Recalls
  <2>7. ~ Visible(ids[IndexOf[Loads(q)]][Load(q)], j.view)
    BY <2>1, <2>6 DEF SendsNew, NewToSend, New
  <2>8. \A k \in Ids : ids[IndexOf[j.at]][j.read][k] # j.view
    <3>1. j.view # NoScope
      BY JobTyped, PushAssumption
    <3>2. ASSUME NEW k \in Ids, ids[IndexOf[j.at]][j.read][k] = j.view
          PROVE  FALSE
      <4>1. Visible(ids[IndexOf[j.at]][j.read], j.view)
        <5> DEFINE sc == ids[IndexOf[j.at]][j.read]
        <5>1. sc[k] = j.view
          BY <3>2
        <5> HIDE DEF sc
        <5>2. Visible(sc, j.view)
          BY <3>1, <5>1 DEF Visible
        <5>3. QED
          BY <5>2 DEF sc
      <4>2. QED
        BY <2>6, <2>7, <4>1
    <3>3. QED
      BY <3>2
  <2> HIDE DEF k0, q
  <2>9. ids'[i][h][k1] # ids[i][h][k1] \/ ids'[i][h][k2] # ids[i][h][k2]
    BY <1>1, <2>2
  <2>10. CASE ids'[i][h][k1] # ids[i][h][k1]
    <3>1. i = IndexOf[j.at] /\ h = j.read /\ k1 = k0 /\ ids'[i][h][k1] = j.view
      BY <2>5, <2>10
    <3>2. ids'[i][h][k2] = ids[i][h][k2]
      BY <1>1, <2>5, <3>1
    <3>3. ids[i][h][k2] # j.view
      BY <2>8, <3>1
    <3>4. QED
      BY <1>1, <3>1, <3>2, <3>3
  <2>11. CASE ids'[i][h][k2] # ids[i][h][k2]
    <3>1. i = IndexOf[j.at] /\ h = j.read /\ k2 = k0 /\ ids'[i][h][k2] = j.view
      BY <2>5, <2>11
    <3>2. ids'[i][h][k1] = ids[i][h][k1]
      BY <1>1, <2>5, <3>1
    <3>3. ids[i][h][k1] # j.view
      BY <2>8, <3>1
    <3>4. QED
      BY <1>1, <3>1, <3>2, <3>3
  <2>12. QED
    BY <2>9, <2>10, <2>11
<1>2. QED
  BY <1>1 DEF NothingUploadedTwice

\* What is new stays new while nothing is recorded.
LEMMA NewStays ==
    ASSUME Typed, Control, Finds, SeparateLayers, [Next]_vars, edits' = edits,
           NEW c \in Pushers, job'[c].since = edits,
           NewToSend(pc'[c], job'[c]), ids' = ids
    PROVE  NewToSend(pc[c], job[c])'
<1> DEFINE l == pc'[c]
           r == job'[c]
<1>1. \A p \in Handled(l, r) : Load(p)' = Load(p) /\ Loads(p)' = Loads(p)
  BY HandledSteady
<1>2. \A s, p : p \in Handled(l, r) => (New(s, p)' <=> New(s, p))
  BY <1>1 DEF New, Visible
<1>3. /\ l \in {"list", "load"} => \A p \in ToSet(job'[c].todo) : New(job[c].view, p)'
      /\ l \in {"readable", "held"} => \A p \in ToSet(job'[c].paths) : New(job[c].view, p)'
  <2>1. /\ l \in {"list", "load"} => \A p \in ToSet(job'[c].todo) : p \in Handled(l, r)
        /\ l \in {"readable", "held"} => \A p \in ToSet(job'[c].paths) : p \in Handled(l, r)
    BY HandledHas
  <2>2. QED
    BY <1>2, <2>1 DEF NewToSend
<1>4. \A n \in DOMAIN job'[c].batch : r.batch[n].path \in Handled(l, r)
  BY HandledHas
<1>5. \A n \in DOMAIN job'[c].results : r.results[n].path \in Handled(l, r)
  BY HandledHas
<1>6. l \in {"load", "upload"} => \A n \in DOMAIN job'[c].batch : New(job[c].view, job[c].batch[n].path)'
  BY <1>2, <1>4 DEF NewToSend
<1>7. \A n \in DOMAIN job'[c].results : New(job[c].view, job[c].results[n].path)'
  BY <1>2, <1>5 DEF NewToSend
<1>8. \A n \in DOMAIN job'[c].results : Load(job[c].results[n].path)' = Load(r.results[n].path)
  BY <1>1, <1>5
<1>9. \A m, n \in DOMAIN job'[c].results : m # n => Load(r.results[m].path) # Load(r.results[n].path)
  BY DEF NewToSend
<1>10. \A m, n \in DOMAIN job'[c].batch : m # n => r.batch[m].hash # r.batch[n].hash
  BY DEF NewToSend
<1>11. ToSet(job[c].todo)' = ToSet(job'[c].todo) /\ ToSet(job[c].paths)' = ToSet(job'[c].paths)
  BY DEF ToSet
<1>12. QED
  BY <1>3, <1>6, <1>7, <1>8, <1>9, <1>10, <1>11 DEF NewToSend

\* Every step keeps what is on its way to the uploader new.
LEMMA SendsNewKept ==
    ASSUME Typed, Control, Finds, Provenance, Faithful, SendsNew, [Next]_vars,
           OnePusher, SeparateLayers
    PROVE  SendsNew'
<1>1. ASSUME edits' = 0, NEW c \in Pushers
      PROVE  NewToSend(pc[c], job[c])'
  <2>1. edits = 0 /\ edits' = edits
    BY <1>1, EditsCount, PushAssumption DEF Typed
  <2>2. NewToSend(pc[c], job[c]) /\ Recalls(c) /\ job[c].since = edits
    BY <2>1, SinceNone DEF SendsNew, Faithful
  <2>3. job'[c].since = edits
    <3>1. Typed' /\ Finds' /\ edits' = 0
      BY <1>1, StepTyped, FindsKept
    <3>2. job'[c].since \in Nat /\ job'[c].since <= edits'
      BY <3>1 DEF Typed, Finds, Jobs
    <3>3. QED
      BY <2>1, <3>1, <3>2
  <2>4. NewToSend(pc'[c], job'[c])
    <3>1. CASE \E d \in Pushers : Push(d) \/ Call(d)
      BY <2>2, <3>1, NewToSendMoves DEF OnePusher
    <3>2. CASE UserWrites \/ UserRemoves \/ UNCHANGED vars
      <4>1. job' = job /\ pc' = pc
        BY <3>2 DEF UserWrites, UserRemoves, vars
      <4>2. QED
        BY <2>2, <4>1
    <3>3. QED
      BY <3>1, <3>2 DEF Next
  <2>5. CASE ids' = ids
    BY <2>1, <2>3, <2>4, <2>5, NewStays
  <2>6. CASE AddAssociate(c)
    <3> DEFINE j == job[c]
               r == job'[c]
    <3>1. /\ pc[c] = "add" /\ pc'[c] = "route" /\ r.view = j.view /\ r.view \in Scopes
          /\ j.results # <<>> /\ r.results = Tail(j.results) /\ r.results \in Seq(Answers)
          /\ j.at \in Layers /\ j.read \in Hashes
          /\ Head(j.results) \in Answers /\ ids' \in {ids, Adds(j)}
      BY <2>6, AddAssociateMoves, JobTyped DEF Skips, Kept, Moves, Jobs
    <3>2. \A x \in IndexIds, g \in Hashes, k \in Ids : g # j.read => ids'[x][g][k] = ids[x][g][k]
      BY <3>1, AddsWrites
    <3>3. j.read = Load(j.results[1].path)
      BY <2>2, <3>1 DEF Recalls
    <3>4. \A p \in Handled(pc'[c], r) : Load(p)' = Load(p) /\ Loads(p)' = Loads(p)
      BY <2>1, <2>3, HandledSteady
    <3>5. \A n \in DOMAIN r.results :
            /\ Load(job[c].results[n].path)' = Load(r.results[n].path)
            /\ Loads(job[c].results[n].path)' = Loads(r.results[n].path)
      <4>1. \A n \in DOMAIN r.results : r.results[n].path \in Handled(pc'[c], r)
        BY HandledHas
      <4>2. QED
        BY <3>4, <4>1
    <3>6. ASSUME NEW n \in DOMAIN r.results
          PROVE  /\ Load(r.results[n].path) # NoFile
                 /\ ~ Visible(ids'[IndexOf[Loads(r.results[n].path)]][Load(r.results[n].path)], r.view)
      <4>1. j.results \in Seq(Answers)
        BY JobTyped
      <4>2. n + 1 \in DOMAIN j.results /\ n + 1 # 1 /\ 1 \in DOMAIN j.results /\ r.results[n] = j.results[n + 1]
        BY <3>1, <4>1, HeadAndTail
      <4>3. Load(r.results[n].path) # j.read
        BY <2>2, <3>3, <4>2 DEF NewToSend
      <4>4. New(r.view, r.results[n].path)
        BY <2>4 DEF NewToSend
      <4>5. r.results[n] \in Answers
        BY <3>1
      <4>6. r.results[n].path \in Paths
        BY <4>5 DEF Answers
      <4>7. Load(r.results[n].path) \in Hashes
        BY <4>4, <4>6, LoadFinds DEF New, Typed
      <4> DEFINE p == r.results[n].path
                 s == r.view
      <4>8. \A x \in IndexIds, k \in Ids : ids'[x][Load(p)][k] = ids[x][Load(p)][k]
        BY <3>2, <4>3, <4>7
      <4>9. ~ Visible(ids'[IndexOf[Loads(p)]][Load(p)], s)
        <5>1. Loads(p) \in Layers
          BY <4>6, <4>7, LoadFinds, PushAssumption DEF Typed
        <5>2. IndexOf[Loads(p)] \in IndexIds
          BY <5>1 DEF IndexIds
        <5>3. ~ Visible(ids[IndexOf[Loads(p)]][Load(p)], s)
          BY <4>4 DEF New
        <5> HIDE DEF p, s
        <5>4. QED
          BY <4>8, <5>2, <5>3 DEF Visible
      <4>10. QED
        BY <4>7, <4>9, PushAssumption
    <3>7. \A n \in DOMAIN job'[c].results : New(job[c].view, job[c].results[n].path)'
      BY <3>5, <3>6 DEF New
    <3>8. \A m, n \in DOMAIN job'[c].results : m # n => Load(r.results[m].path) # Load(r.results[n].path)
      BY <2>4 DEF NewToSend
    <3>9. \A m, n \in DOMAIN job'[c].batch : m # n => r.batch[m].hash # r.batch[n].hash
      BY <2>4 DEF NewToSend
    <3>10. QED
      BY <3>1, <3>5, <3>7, <3>8, <3>9 DEF NewToSend
  <2>7. QED
    <3>1. CASE \E d \in Pushers : Push(d) \/ Call(d)
      BY <2>5, <2>6, <3>1, OnlyAddRecords DEF OnePusher
    <3>2. CASE UserWrites \/ UserRemoves \/ UNCHANGED vars
      BY <2>5, <3>2 DEF UserWrites, UserRemoves, vars
    <3>3. QED
      BY <3>1, <3>2 DEF Next
<1>2. QED
  BY <1>1 DEF SendsNew

\* One pusher mints no second id for content whose id it can see: neither duplicates in a
\* batch nor pictures an earlier push has sent.  Of several pushers two can send the same
\* file.  No file is in reach of two layers: each store keeps to its own folder (refToFull).
THEOREM SentOnce ==
    ASSUME OnePusher, SeparateLayers
    PROVE  Spec => []NothingUploadedTwice
<1> DEFINE Once == Faithful /\ SendsNew /\ NothingUploadedTwice
<1>1. Init => Once
  <2> SUFFICES ASSUME Init
               PROVE  Once
    OBVIOUS
  <2>1. \A c \in Pushers : pc[c] = "idle" /\ job[c] = Blank
    BY DEF Init
  <2>2. Faithful
    BY <2>1, BlankEmpty DEF Init, Faithful, Truthful, Recalls
  <2>3. SendsNew
    BY <2>1, BlankEmpty DEF SendsNew, NewToSend
  <2>4. NothingUploadedTwice
    BY DEF Init, NothingUploadedTwice
  <2>5. QED
    BY <2>2, <2>3, <2>4
<1>2. Inv /\ Once /\ [Next]_vars => Once'
  BY FaithfulKept, SendsNewKept, NothingTwiceKept DEF Inv
<1>3. QED
  BY <1>1, <1>2, Invariance, PTL DEF Spec

-----------------------------------------------------------------------------
(* Every picture that can be read gets its id. *)

\* Two files that are the same stay the same.
LEMMA DoubledStays ==
    ASSUME Lasting, NEW p \in Paths, Doubled(p)
    PROVE  Doubled(p)'
<1>1. PICK l, m \in Layers, x \in Paths :
        IndexOf[l] # IndexOf[m] /\ file[l][p] # NoFile /\ file[m][x] = file[l][p]
  BY DEF Doubled
<1>2. file'[l][p] = file[l][p] /\ file'[m][x] = file[m][x]
  BY <1>1 DEF Lasting
<1>3. QED
  BY <1>1, <1>2 DEF Doubled

\* A path that has its answer keeps it while nobody edits a file.
LEMMA AnsweredStays ==
    ASSUME Typed, Control, Provenance, SeparateLayers, [Next]_vars, edits' = edits,
           NEW s \in Scopes, NEW p \in Paths, SameReads \/ Firm(p), Answered(s, p)
    PROVE  Answered(s, p)'
<1>1. \A l \in Layers : Read(l, p)' = Read(l, p)
  BY FirmSteady DEF SameReads
<1>2. CASE Doubled(p)
  BY <1>2, StepLasts, DoubledStays DEF Answered
<1>3. CASE Lookup(s, p) # 0
  <2>1. PICK l \in Layers : Read(l, p) # NoFile /\ Visible(ids[IndexOf[l]][Read(l, p)], s)
    BY <1>3, LookupKnows DEF Typed
  <2> DEFINE i == IndexOf[l]
             h == Read(l, p)
  <2>2. i \in IndexIds /\ h \in Hashes
    BY <2>1, ReadTyped DEF Typed, IndexIds
  <2>3. PICK k \in Ids : ids[i][h][k] # NoScope /\ (s = Unscoped \/ ids[i][h][k] \in {s, Unscoped})
    BY <2>1 DEF Visible
  <2>4. ids'[i][h][k] = ids[i][h][k]
    BY <2>2, <2>3, RecordedStays
  <2>5. Visible(ids'[i][h], s)
    BY <2>3, <2>4 DEF Visible
  <2>6. Lookup(s, p)' # 0
    BY <1>1, <2>1, <2>5, StepTyped, LookupKnowsNext DEF Typed
  <2>7. QED
    BY <2>6 DEF Answered
<1>4. QED
  BY <1>2, <1>3 DEF Answered

\* One id for a content answers for every path of the index that has it; of the others
\* there is a duplicate in a layer with another index.
LEMMA AddAnswers ==
    ASSUME Typed, Control, SeparateLayers, NEW c \in Pushers, AddAssociate(c), [Next]_vars,
           edits' = edits, ids' = Adds(job[c]),
           NEW p, Firm(p), Load(p) = job[c].read,
           NEW q, Firm(q), Load(q) = job[c].read, Loads(q) = job[c].at
    PROVE  \A s \in Scopes : s = job[c].view => Answered(s, p)'
<1> DEFINE j == job[c]
           k0 == Head(j.results).id
<1>1. /\ j.at \in Layers /\ j.read \in Hashes /\ Head(j.results) \in Answers /\ j.view \in Scopes
  BY AddAssociateMoves, JobTyped
<1>2. ids'[IndexOf[j.at]][j.read][k0] = j.view /\ k0 \in Ids
  BY <1>1, AddsWrites
<1>3. j.read # NoFile /\ j.view # NoScope
  BY <1>1, PushAssumption
<1>4. /\ Stored /\ Stored' /\ p \in Paths /\ q \in Paths
  BY StepTyped DEF Typed, Firm
<1>5. file[j.at][q] = j.read
  BY <1>4, FirmReads
<1>6. PICK l \in Layers : Read(l, p) = j.read /\ file[l][p] = j.read /\ Read(l, p)' = j.read
  BY <1>4, FirmReads, FirmSteady
<1>7. CASE IndexOf[l] = IndexOf[j.at]
  <2> DEFINE sc == ids'[IndexOf[l]][j.read]
  <2>1. sc[k0] = j.view
    BY <1>2, <1>7
  <2> HIDE DEF k0, sc
  <2>2. Visible(sc, j.view)
    BY <1>2, <1>3, <2>1 DEF Visible
  <2>3. ASSUME NEW s \in Scopes, s = j.view
        PROVE  Lookup(s, p)' # 0
    <3>1. Read(l, p)' # NoFile /\ Visible(ids'[IndexOf[l]][Read(l, p)'], s)
      BY <1>3, <1>6, <2>2, <2>3 DEF sc
    <3>2. QED
      BY <1>4, <3>1, LookupKnowsNext
  <2>4. QED
    BY <2>3 DEF Answered
<1>8. CASE IndexOf[l] # IndexOf[j.at]
  <2>1. Doubled(p)
    BY <1>1, <1>3, <1>4, <1>5, <1>6, <1>8 DEF Doubled
  <2>2. Doubled(p)'
    BY <1>4, <2>1, StepLasts, DoubledStays
  <2>3. QED
    BY <2>2 DEF Answered
<1>9. QED
  BY <1>7, <1>8

\* What a push is to cover are paths.
LEMMA WantedTyped ==
    ASSUME NEW j \in Jobs
    PROVE  Wanted(j) \in SUBSET Paths
<1>1. CASE j.kind = "sync"
  <2>1. \A l \in Layers : Lists[l] \subseteq Paths
    BY PushAssumption
  <2>2. QED
    BY <1>1, <2>1 DEF Wanted
<1>2. CASE j.kind # "sync"
  BY <1>2, ScanCoversEncoder DEF Wanted, Jobs
<1>3. QED
  BY <1>1, <1>2

\* What a push is to cover does not change as it goes.
LEMMA WantedKept ==
    ASSUME NEW j, NEW r, Kept(j, r)
    PROVE  Wanted(r) = Wanted(j)
  BY DEF Kept, Wanted

\* What a layer has and does not list as pending has its id.
LEMMA ListedOrAnswered ==
    ASSUME Stored, SeparateLayers, NEW l \in Layers, NEW s \in Scopes, NEW p \in Lists[l],
           p \notin Unsent(l, s), Firm(p)
    PROVE  Lookup(s, p) # 0
<1>1. p \in Paths /\ p \in Reaches[l]
  BY PushAssumption
<1>2. Loads(p) = l /\ file[l][p] = Load(p) /\ Read(l, p) = Load(p) /\ Load(p) \in Hashes
  BY <1>1, FirmReads
<1>3. Held(l, s, Load(p)) # 0
  BY <1>1, <1>2, PushAssumption DEF Unsent
<1>4. Visible(ids[IndexOf[l]][Load(p)], s)
  BY <1>2, <1>3, HeldGives
<1>5. QED
  BY <1>1, <1>2, <1>4, LookupGives, PushAssumption

\* A call that ends its upload with every answer it wants.
LEMMA AnsweredOnTheWay ==
    ASSUME NEW l \in {"hook", "encode", "done"}, NEW j, j.batch = <<>>, j.encoded = <<>>,
           \A p \in Wanted(j) \cap j.there : Answered(j.view, p)
    PROVE  OnTheWay(l, j)
  BY DEF OnTheWay, EncodedWell, Associating

\* Listing a layer: what it does not list has its id.
LEMMA ListLayerOnTheWay ==
    ASSUME Typed, Control, SeparateLayers, NEW c \in Pushers, ListLayer(c), OnTheWay(pc[c], job[c]),
           ~ job'[c].err, \A p \in job[c].there : Firm(p)
    PROVE  OnTheWay(pc'[c], job'[c])
<1> DEFINE j == job[c]
           l == pc'[c]
           r == job'[c]
           all == ToSet(j.todo) \cup Unsent(j.at, j.view)
<1>1. /\ pc[c] = "list" /\ r.batch = <<>> /\ r.encoded = <<>> /\ Quiet(j, r) /\ j.at \in Layers
      /\ \/ l = "list" /\ r.at = j.at + 1 /\ ToSet(r.todo) = all
         \/ l = "load" /\ j.at = NLayers /\ ToSet(r.todo) = all
         \/ l = "encode" /\ j.at = NLayers /\ all = {}
  BY ListLayerMoves
<1>2. j.kind = "sync" /\ j.view \in Scopes
  BY <1>1, JobTyped DEF Control, Placed
<1>3. ASSUME NEW m \in Layers, m <= j.at, NEW p \in Lists[m] \cap j.there
      PROVE  Answered(j.view, p) \/ p \in all
  <2>1. CASE m = j.at
    BY <1>1, <1>2, <1>3, <2>1, ListedOrAnswered DEF Typed, Answered
  <2>2. CASE m # j.at
    <3>1. m < j.at
      BY <1>1, <1>3, <2>2, PushAssumption DEF Layers
    <3>2. QED
      BY <1>1, <1>3, <3>1 DEF OnTheWay
  <2>3. QED
    BY <2>1, <2>2
<1>4. ASSUME j.at = NLayers, NEW p \in Wanted(j) \cap j.there
      PROVE  Answered(j.view, p) \/ p \in all
  <2>1. PICK m \in Layers : p \in Lists[m]
    BY <1>2 DEF Wanted
  <2>2. m <= j.at
    BY <1>4, PushAssumption DEF Layers
  <2>3. QED
    BY <1>3, <2>1, <2>2
<1> HIDE DEF all
<1>5. Wanted(r) = Wanted(j) /\ r.view = j.view /\ r.there = j.there
  BY <1>1, WantedKept DEF Quiet, Seeks, Kept
<1>6. CASE l = "list" /\ r.at = j.at + 1 /\ ToSet(r.todo) = all
  <2>1. \A m \in Layers : m < r.at => m <= j.at
    BY <1>1, <1>6, PushAssumption DEF Layers
  <2>2. QED
    BY <1>1, <1>3, <1>5, <1>6, <2>1 DEF OnTheWay, EncodedWell, Associating
<1>7. CASE l = "load" /\ j.at = NLayers /\ ToSet(r.todo) = all
  BY <1>1, <1>4, <1>5, <1>7 DEF OnTheWay, EncodedWell, Associating
<1>8. CASE l = "encode" /\ j.at = NLayers /\ all = {}
  BY <1>1, <1>4, <1>5, <1>8, AnsweredOnTheWay
<1>9. QED
  BY <1>1, <1>6, <1>7, <1>8

\* Starting a hook: an upload hook takes up every local picture of the documents.
LEMMA RunHookOnTheWay ==
    ASSUME Typed, Control, NEW c \in Pushers, RunHook(c), OnTheWay(pc[c], job[c]), ~ job'[c].err,
           Kinds \ {"sync"} # {} => \E i \in DOMAIN Hooks : Hooks[i] = "upload"
    PROVE  OnTheWay(pc'[c], job'[c])
<1> DEFINE j == job[c]
           l == pc'[c]
           r == job'[c]
<1>1. /\ pc[c] = "hook" /\ r.batch = <<>> /\ r.encoded = <<>> /\ Quiet(j, r)
      /\ \/ l = "encode" /\ j.hook > Len(Hooks)
         \/ l = "hook" /\ r.hook = j.hook + 1 /\ (Hooks[j.hook] = "other" \/ LocalImages(ToSet(j.docs) \ {<<>>}) = {})
         \/ l = "readable" /\ ToSet(r.todo) = LocalImages(ToSet(j.docs) \ {<<>>})
  BY RunHookMoves
<1>2. /\ j.kind # "sync" /\ j.kind \in Kinds /\ j.hook \in Nat
      /\ Wanted(j) = LocalImages(ToSet(j.docs) \ {<<>>})
  BY <1>1, JobTyped DEF Control, Placed, Wanted
<1>3. Wanted(r) = Wanted(j) /\ r.view = j.view /\ r.there = j.there
  BY <1>1, WantedKept DEF Quiet, Seeks, Kept
<1>4. CASE l = "encode" /\ j.hook > Len(Hooks)
  <2>1. UploadsBefore(j.hook)
    <3>1. PICK i \in DOMAIN Hooks : Hooks[i] = "upload"
      BY <1>2
    <3>2. i < j.hook
      BY <1>2, <1>4, PushAssumption
    <3>3. QED
      BY <3>1, <3>2 DEF UploadsBefore
  <2>2. QED
    BY <1>1, <1>3, <1>4, <2>1, AnsweredOnTheWay DEF OnTheWay
<1>5. CASE l = "hook" /\ r.hook = j.hook + 1 /\ Hooks[j.hook] = "other"
  <2>1. UploadsBefore(r.hook) => UploadsBefore(j.hook)
    <3>1. ASSUME NEW i \in DOMAIN Hooks, i < r.hook, Hooks[i] = "upload"
          PROVE  i < j.hook
      BY <1>2, <1>5, <3>1, PushAssumption
    <3>2. QED
      BY <3>1 DEF UploadsBefore
  <2>2. QED
    BY <1>1, <1>3, <1>5, <2>1 DEF OnTheWay, EncodedWell, Associating
<1>6. CASE l = "hook" /\ LocalImages(ToSet(j.docs) \ {<<>>}) = {}
  BY <1>1, <1>2, <1>3, <1>6, AnsweredOnTheWay
<1>7. CASE l = "readable" /\ ToSet(r.todo) = LocalImages(ToSet(j.docs) \ {<<>>})
  BY <1>1, <1>2, <1>3, <1>7 DEF OnTheWay, EncodedWell, Associating
<1>8. QED
  BY <1>1, <1>4, <1>5, <1>6, <1>7

\* The two checks drop no path that is there, unless it has its id.
LEMMA CheckOnTheWay ==
    ASSUME Typed, Control, Finds, SeparateLayers, NEW c \in Pushers, CheckReadable(c) \/ CheckHeld(c),
           OnTheWay(pc[c], job[c]), ~ job'[c].err, \A p \in job[c].there : Firm(p)
    PROVE  OnTheWay(pc'[c], job'[c])
<1> DEFINE j == job[c]
           l == pc'[c]
           r == job'[c]
           p == Head(j.todo)
<1>1. Seeks(j, r) /\ r.batch = <<>> /\ r.encoded = <<>> /\ pc[c] \in {"readable", "held"}
  BY CheckReadableMoves, CheckHeldMoves DEF Quiet
<1>2. Wanted(r) = Wanted(j) /\ r.view = j.view
  BY <1>1, WantedKept DEF Seeks, Kept
<1>3. \A q \in Wanted(j) \cap j.there : Answered(j.view, q) \/ q \in ToSet(j.todo) \/ q \in ToSet(j.paths)
  BY <1>1 DEF OnTheWay
<1>4. CASE CheckHeld(c)
  <2>1. /\ l = "readable" /\ ToSet(j.todo) = {p} \cup ToSet(r.todo) /\ r.there = j.there
        /\ ToSet(r.paths) = ToSet(j.paths) \cup (IF Lookup(j.view, p) = 0 THEN {p} ELSE {})
    BY <1>4, CheckHeldMoves DEF Quiet
  <2> HIDE DEF p
  <2>2. \A q \in Wanted(j) \cap j.there : Answered(j.view, q) \/ q \in ToSet(r.todo) \/ q \in ToSet(r.paths)
    BY <1>3, <2>1 DEF Answered
  <2>3. QED
    BY <1>1, <1>2, <2>1, <2>2 DEF OnTheWay, EncodedWell, Associating
<1>5. CASE CheckReadable(c)
  <2>1. \/ /\ l = "readable" /\ Load(p) = NoFile /\ r.there = j.there
           /\ r.paths = j.paths /\ ToSet(j.todo) = {p} \cup ToSet(r.todo)
        \/ /\ l = "held" /\ r.paths = j.paths /\ r.todo = j.todo
           /\ r.there = j.there \cup {p} /\ p \in ToSet(j.todo)
        \/ l = "load" /\ j.todo = <<>> /\ r.todo = j.paths /\ r.there = j.there
        \/ l = "hook" /\ j.todo = <<>> /\ j.paths = <<>> /\ r.there = j.there
    BY <1>5, CheckReadableMoves
  <2> HIDE DEF p
  <2>2. ToSet(<<>>) = {}
    BY DEF ToSet
  <2>3. CASE l = "hook" /\ j.todo = <<>> /\ j.paths = <<>> /\ r.there = j.there
    BY <1>1, <1>2, <1>3, <2>2, <2>3, AnsweredOnTheWay
  <2>4. CASE l = "load" /\ j.todo = <<>> /\ r.todo = j.paths /\ r.there = j.there
    BY <1>1, <1>2, <1>3, <2>2, <2>4 DEF OnTheWay, EncodedWell, Associating
  <2>5. CASE /\ l = "held" /\ r.paths = j.paths /\ r.todo = j.todo
             /\ r.there = j.there \cup {p} /\ p \in ToSet(j.todo)
    <3>1. \A q \in Wanted(j) \cap r.there : Answered(j.view, q) \/ q \in ToSet(r.todo) \/ q \in ToSet(r.paths)
      BY <1>3, <2>5
    <3>2. QED
      BY <1>1, <1>2, <2>5, <3>1 DEF OnTheWay, EncodedWell, Associating
  <2>6. CASE /\ l = "readable" /\ Load(p) = NoFile /\ r.there = j.there
             /\ r.paths = j.paths /\ ToSet(j.todo) = {p} \cup ToSet(r.todo)
    <3>1. p \notin j.there
      <4>1. ASSUME Firm(p)
            PROVE  FALSE
        BY <2>6, <4>1, FirmReads, PushAssumption DEF Typed
      <4>2. QED
        BY <4>1
    <3>2. \A q \in Wanted(j) \cap j.there : Answered(j.view, q) \/ q \in ToSet(r.todo) \/ q \in ToSet(r.paths)
      BY <1>3, <2>6, <3>1
    <3>3. QED
      BY <1>1, <1>2, <2>6, <3>2 DEF OnTheWay, EncodedWell, Associating
  <2>7. QED
    BY <2>1, <2>3, <2>4, <2>5, <2>6
<1>6. QED
  BY <1>4, <1>5

\* Loading a path puts it into the batch, or ends the push.
LEMMA LoadPathOnTheWay ==
    ASSUME Typed, Control, NEW c \in Pushers, LoadPath(c), OnTheWay(pc[c], job[c]), ~ job'[c].err
    PROVE  OnTheWay(pc'[c], job'[c])
<1> DEFINE j == job[c]
           l == pc'[c]
           r == job'[c]
           p == Head(j.todo)
           entry == [path |-> p, hash |-> Load(p)]
<1>1. /\ Quiet(j, r) /\ pc[c] = "load" /\ r.encoded = <<>> /\ j.batch \in Seq(Entries)
      /\ \/ l = "upload" /\ j.todo = <<>> /\ r.batch = j.batch
         \/ /\ l = "load" /\ p \in Paths /\ ToSet(j.todo) = {p} \cup ToSet(r.todo)
            /\ Load(p) \in Hashes
            /\ \/ Seen(j.batch, p, Load(p)) /\ r.batch = j.batch
               \/ r.batch = Append(j.batch, entry)
  BY LoadPathMoves, JobTyped
<1>2. Wanted(r) = Wanted(j) /\ r.view = j.view /\ r.there = j.there
  BY <1>1, WantedKept DEF Quiet, Seeks, Kept
<1>3. \A q \in Wanted(j) \cap j.there :
        Answered(j.view, q) \/ q \in ToSet(j.todo) \/ \E n \in DOMAIN j.batch : j.batch[n].hash = Load(q)
  BY <1>1 DEF OnTheWay
<1>4. \A n \in DOMAIN r.batch : Load(r.batch[n].path) = r.batch[n].hash
  BY BatchFaithful DEF OnTheWay, Call
<1>5. CASE l = "upload" /\ j.todo = <<>> /\ r.batch = j.batch
  <2>1. ToSet(j.todo) = {}
    BY <1>5 DEF ToSet
  <2>2. QED
    BY <1>1, <1>2, <1>3, <1>4, <1>5, <2>1 DEF OnTheWay, EncodedWell, Associating
<1>6. CASE /\ l = "load" /\ p \in Paths /\ ToSet(j.todo) = {p} \cup ToSet(r.todo)
           /\ Load(p) \in Hashes
           /\ \/ Seen(j.batch, p, Load(p)) /\ r.batch = j.batch
              \/ r.batch = Append(j.batch, entry)
  <2>1. entry \in Entries /\ entry.path = p /\ entry.hash = Load(p)
    BY <1>6 DEF Entries
  <2> HIDE DEF entry
  <2>2. \A n \in DOMAIN j.batch : n \in DOMAIN r.batch /\ r.batch[n] = j.batch[n]
    BY <1>1, <1>6, <2>1, AppendLists
  <2>3. \E n \in DOMAIN r.batch : r.batch[n].hash = Load(p)
    <3>1. CASE Seen(j.batch, p, Load(p)) /\ r.batch = j.batch
      BY <3>1 DEF Seen
    <3>2. CASE r.batch = Append(j.batch, entry)
      <4>1. Len(j.batch) + 1 \in DOMAIN r.batch /\ r.batch[Len(j.batch) + 1] = entry
        BY <1>1, <2>1, <3>2, AppendLists
      <4>2. QED
        BY <2>1, <4>1
    <3>3. QED
      BY <1>6, <3>1, <3>2
  <2> HIDE DEF p
  <2>4. \A q \in Wanted(r) \cap r.there :
          Answered(r.view, q) \/ q \in ToSet(r.todo) \/ \E n \in DOMAIN r.batch : r.batch[n].hash = Load(q)
    BY <1>2, <1>3, <1>6, <2>2, <2>3
  <2>5. QED
    BY <1>1, <1>4, <1>6, <2>4 DEF OnTheWay, EncodedWell, Associating
<1>7. QED
  BY <1>1, <1>5, <1>6

\* An upload that answers for its whole batch.
LEMMA UploadOnTheWay ==
    ASSUME Typed, Control, NEW c \in Pushers, Upload(c), OnTheWay(pc[c], job[c]), job'[c].full
    PROVE  OnTheWay(pc'[c], job'[c])
<1> DEFINE j == job[c]
           l == pc'[c]
           r == job'[c]
<1>1. /\ Kept(j, r) /\ r.there = j.there /\ pc[c] = "upload" /\ l = "route" /\ r.encoded = <<>> /\ r.batch = j.batch
  BY UploadMoves
<1>2. Wanted(r) = Wanted(j) /\ r.view = j.view /\ r.there = j.there
  BY <1>1, WantedKept DEF Kept
<1>3. PICK taken : Answer(j, r, taken)
  BY UploadMoves
<1>4. ASSUME NEW q \in Wanted(j) \cap j.there
      PROVE  Answered(j.view, q) \/ \E n \in DOMAIN r.results : Load(r.results[n].path) = Load(q)
  <2>1. CASE Answered(j.view, q)
    BY <2>1
  <2>2. CASE \E n \in DOMAIN j.batch : j.batch[n].hash = Load(q)
    <3>1. PICK n \in DOMAIN j.batch : j.batch[n].hash = Load(q)
      BY <2>2
    <3>2. PICK i \in DOMAIN r.results : taken[i] = n
      BY <1>3 DEF Answer
    <3>3. r.results[i].path = j.batch[n].path
      BY <1>3, <3>2 DEF Answer
    <3>4. Load(j.batch[n].path) = j.batch[n].hash
      BY DEF OnTheWay
    <3>5. QED
      BY <3>1, <3>2, <3>3, <3>4
  <2>3. QED
    BY <1>1, <2>1, <2>2 DEF OnTheWay
<1>5. \A n \in DOMAIN r.batch : Load(r.batch[n].path) = r.batch[n].hash
  BY <1>1 DEF OnTheWay
<1>6. QED
  BY <1>1, <1>2, <1>4, <1>5 DEF OnTheWay, EncodedWell, Associating

\* The way of a result into the index.
LEMMA AssociateOnTheWay ==
    ASSUME Typed, Control, NEW c \in Pushers, RouteAssociate(c) \/ ReadAssociate(c),
           OnTheWay(pc[c], job[c]), job'[c].full
    PROVE  OnTheWay(pc'[c], job'[c])
<1> DEFINE j == job[c]
           l == pc'[c]
           r == job'[c]
<1>1. /\ Kept(j, r) /\ r.there = j.there /\ r.encoded = <<>> /\ pc[c] \in {"route", "read"}
      /\ \/ l \in {"encode", "done", "hook"} /\ r.batch = <<>> /\ j.results = <<>>
         \/ l \in {"read", "add"} /\ r.batch = j.batch /\ r.results = j.results
  BY RouteAssociateMoves, ReadAssociateMoves DEF Skips, Quiet, Seeks
<1>2. Wanted(r) = Wanted(j) /\ r.view = j.view /\ r.there = j.there
  BY <1>1, WantedKept DEF Kept
<1>3. \A q \in Wanted(j) \cap j.there :
        Answered(j.view, q) \/ \E n \in DOMAIN j.results : Load(j.results[n].path) = Load(q)
  BY <1>1 DEF OnTheWay, Associating
<1>4. CASE l \in {"encode", "done", "hook"} /\ r.batch = <<>> /\ j.results = <<>>
  BY <1>1, <1>2, <1>3, <1>4, AnsweredOnTheWay
<1>5. CASE l \in {"read", "add"} /\ r.batch = j.batch /\ r.results = j.results
  <2>1. /\ l \in {"read", "add"} => r.at = Loads(r.results[1].path)
        /\ l = "add" => r.read = Load(r.results[1].path)
    BY AssociationReads DEF OnTheWay, Call
  <2>2. \A n \in DOMAIN r.batch : Load(r.batch[n].path) = r.batch[n].hash
    BY <1>5 DEF OnTheWay
  <2>3. QED
    BY <1>1, <1>2, <1>3, <1>5, <2>1, <2>2 DEF OnTheWay, EncodedWell, Associating
<1>6. QED
  BY <1>1, <1>4, <1>5

\* Each document is encoded with the ids of the pictures it names.
LEMMA EncodeOnTheWay ==
    ASSUME Typed, Control, NEW c \in Pushers, Encode(c), OnTheWay(pc[c], job[c])
    PROVE  OnTheWay(pc'[c], job'[c])
<1> DEFINE j == job[c]
           l == pc'[c]
           r == job'[c]
           m == Len(j.encoded) + 1
           encoding == [p \in LookupKeys(j.docs[m]) |-> Lookup(j.view, p)]
<1>1. /\ Quiet(j, r) /\ pc[c] = "encode" /\ r.batch = j.batch /\ l \in {"encode", "done"}
      /\ j.encoded \in Seq(Encodings)
      /\ r.encoded = j.encoded \/ (r.encoded = Append(j.encoded, encoding) /\ encoding \in Encodings)
  BY EncodeMoves, JobTyped
<1>2. Wanted(r) = Wanted(j) /\ r.view = j.view /\ r.docs = j.docs /\ r.there = j.there
  BY <1>1, WantedKept DEF Quiet, Seeks, Kept
<1>3. \A q \in Wanted(j) \cap j.there : Answered(j.view, q)
  BY <1>1 DEF OnTheWay
<1>4. EncodedWell(j)
  BY DEF OnTheWay
<1>5. ASSUME NEW i \in DOMAIN r.encoded
      PROVE  /\ DOMAIN r.encoded[i] = LookupKeys(j.docs[i])
             /\ \A p \in DOMAIN r.encoded[i] \cap j.there : p \in Wanted(j) => Doubled(p) \/ r.encoded[i][p] # 0
  <2>1. CASE i \in DOMAIN j.encoded
    <3>1. r.encoded[i] = j.encoded[i]
      BY <1>1, <2>1, AppendLists
    <3>2. QED
      BY <1>4, <2>1, <3>1 DEF EncodedWell
  <2>2. CASE i \notin DOMAIN j.encoded
    <3>1. i = m /\ r.encoded[i] = encoding
      <4> HIDE DEF encoding
      <4>1. QED
        BY <1>1, <1>5, <2>2, AppendLists
    <3>2. DOMAIN encoding = LookupKeys(j.docs[m]) /\ \A p \in DOMAIN encoding : encoding[p] = Lookup(j.view, p)
      OBVIOUS
    <3> HIDE DEF encoding, m
    <3>3. QED
      BY <1>3, <3>1, <3>2 DEF Answered
  <2>3. QED
    BY <2>1, <2>2
<1>6. EncodedWell(r)
  BY <1>2, <1>5 DEF EncodedWell
<1>7. \A n \in DOMAIN r.batch : Load(r.batch[n].path) = r.batch[n].hash
  BY <1>1 DEF OnTheWay
<1>8. QED
  BY <1>1, <1>2, <1>3, <1>6, <1>7 DEF OnTheWay, Associating

\* A push begins with everything still to be listed.
LEMMA PushOnTheWay ==
    ASSUME Typed, NEW c \in Pushers, Push(c)
    PROVE  OnTheWay(pc'[c], job'[c])
<1> DEFINE l == pc'[c]
           r == job'[c]
<1>1. /\ r.batch = <<>> /\ r.encoded = <<>>
      /\ (l = "list" /\ r.at = 1) \/ (l = "hook" /\ r.hook = 1)
  BY PushMoves
<1>2. \A m \in Layers : ~ m < 1
  BY PushAssumption DEF Layers
<1>3. ~ UploadsBefore(1)
  BY PushAssumption DEF UploadsBefore
<1>4. QED
  BY <1>1, <1>2, <1>3 DEF OnTheWay, EncodedWell, Associating

\* Every step of a push but the last association keeps its pictures covered.
LEMMA CallOnTheWay ==
    ASSUME Typed, Control, Finds, SeparateLayers, NEW c \in Pushers, Call(c), ~ AddAssociate(c),
           OnTheWay(pc[c], job[c]), ~ job'[c].err, job'[c].full, \A p \in job[c].there : Firm(p),
           Kinds \ {"sync"} # {} => \E i \in DOMAIN Hooks : Hooks[i] = "upload"
    PROVE  OnTheWay(pc'[c], job'[c])
<1>1. CASE ListLayer(c)
  BY <1>1, ListLayerOnTheWay
<1>2. CASE RunHook(c)
  BY <1>2, RunHookOnTheWay
<1>3. CASE CheckReadable(c) \/ CheckHeld(c)
  BY <1>3, CheckOnTheWay
<1>4. CASE LoadPath(c)
  BY <1>4, LoadPathOnTheWay
<1>5. CASE Upload(c)
  BY <1>5, UploadOnTheWay
<1>6. CASE RouteAssociate(c) \/ ReadAssociate(c)
  BY <1>6, AssociateOnTheWay
<1>7. CASE Encode(c)
  BY <1>7, EncodeOnTheWay
<1>8. QED
  BY <1>1, <1>2, <1>3, <1>4, <1>5, <1>6, <1>7 DEF Call

\* What is on its way stays so while others record ids.
LEMMA OnTheWayStays ==
    ASSUME Typed, Control, Finds, Provenance, SeparateLayers, [Next]_vars, edits' = edits,
           NEW c \in Pushers, job'[c].since = edits, OnTheWay(pc'[c], job'[c])
    PROVE  OnTheWay(pc[c], job[c])'
<1> DEFINE l == pc'[c]
           r == job'[c]
<1>1. r.view \in Scopes /\ r.there \in SUBSET Paths /\ r.results \in Seq(Answers)
  BY StepTyped DEF Typed, Jobs
<1>2. \A p \in Handled(l, r) : Load(p)' = Load(p) /\ Loads(p)' = Loads(p)
  BY HandledSteady
<1>3. \A p \in r.there : Load(p)' = Load(p)
  BY <1>2, HandledHas
<1>4. \A n \in DOMAIN r.batch : Load(job[c].batch[n].path)' = Load(r.batch[n].path)
  <2>1. \A n \in DOMAIN r.batch : r.batch[n].path \in Handled(l, r)
    BY HandledHas
  <2>2. QED
    BY <1>2, <2>1
<1>5. \A n \in DOMAIN r.results :
        /\ Load(job[c].results[n].path)' = Load(r.results[n].path)
        /\ Loads(job[c].results[n].path)' = Loads(r.results[n].path)
  <2>1. \A n \in DOMAIN r.results : r.results[n].path \in Handled(l, r)
    BY HandledHas
  <2>2. QED
    BY <1>2, <2>1
<1>6. \A p \in r.there : Doubled(p) => Doubled(p)'
  BY <1>1, StepLasts, DoubledStays
<1>7. \A p \in r.there : Answered(r.view, p) => Answered(job[c].view, p)'
  <2>1. ASSUME NEW p \in r.there, NEW s \in Scopes, Answered(s, p)
        PROVE  Answered(s, p)'
    BY <1>1, <2>1, HandledFirm, HandledHas, AnsweredStays
  <2>2. QED
    BY <1>1, <2>1
<1>8. l \in {"read", "add"} => 1 \in DOMAIN r.results
  <2>1. l \in {"read", "add"} => r.results # <<>>
    BY StepTyped DEF Control, Placed
  <2>2. QED
    BY <1>1, <2>1, HeadAndTail
<1>9. Wanted(job[c])' = Wanted(r)
  BY DEF Wanted
<1>10. EncodedWell(job[c])'
  <2>1. EncodedWell(r)
    BY DEF OnTheWay
  <2>2. ASSUME NEW i \in DOMAIN r.encoded
        PROVE  /\ DOMAIN r.encoded[i] = LookupKeys(r.docs[i])
               /\ \A p \in DOMAIN r.encoded[i] \cap r.there :
                    p \in Wanted(job[c])' => Doubled(p)' \/ r.encoded[i][p] # 0
    BY <1>6, <1>9, <2>1 DEF EncodedWell
  <2>3. QED
    BY <2>2 DEF EncodedWell
<1>11. QED
  BY <1>3, <1>4, <1>5, <1>7, <1>8, <1>9, <1>10 DEF OnTheWay

\* An association gives its path, and all that have the same content, their id.
LEMMA AddOnTheWay ==
    ASSUME Typed, Control, Finds, Provenance, SeparateLayers, NEW c \in Pushers, AddAssociate(c),
           [Next]_vars, edits' = edits, job[c].since = edits, OnTheWay(pc[c], job[c]), job'[c].full
    PROVE  OnTheWay(pc[c], job[c])'
<1> DEFINE j == job[c]
           r == job'[c]
<1>1. /\ Kept(j, r) /\ r.there = j.there /\ r.encoded = <<>> /\ pc[c] = "add" /\ pc'[c] = "route"
      /\ r.batch = j.batch /\ j.results # <<>> /\ r.results = Tail(j.results) /\ ids' = Adds(j)
  BY AddAssociateMoves DEF Skips
<1>2. Wanted(r) = Wanted(j) /\ r.view = j.view /\ r.since = edits
  BY <1>1, WantedKept DEF Kept
<1>3. /\ j.results \in Seq(Answers) /\ j.view \in Scopes
      /\ 1 \in DOMAIN j.results
  BY <1>1, JobTyped, HeadAndTail
<1>4. j.read = Load(j.results[1].path) /\ j.at = Loads(j.results[1].path)
  BY <1>1 DEF OnTheWay
<1>5. /\ \A q \in j.there : Firm(q)
      /\ Firm(j.results[1].path)
  BY <1>3, HandledHas DEF Finds
<1>6. \A p \in Handled(pc'[c], r) : Load(p)' = Load(p)
  BY <1>2, HandledSteady
<1>7. ASSUME NEW q \in Wanted(j) \cap j.there
      PROVE  \/ Answered(job[c].view, q)'
             \/ \E n \in DOMAIN r.results : Load(r.results[n].path) = Load(q)
  <2>1. Firm(q) /\ q \in Paths
    BY <1>5 DEF Firm
  <2>2. CASE Answered(j.view, q)
    <3>1. \A s \in Scopes : Answered(s, q) => Answered(s, q)'
      BY <2>1, AnsweredStays
    <3>2. QED
      BY <1>2, <1>3, <2>2, <3>1
  <2>3. CASE Load(q) = j.read
    <3>1. \A s \in Scopes : s = job[c].view => Answered(s, q)'
      BY <1>1, <1>4, <1>5, <2>1, <2>3, AddAnswers
    <3>2. QED
      BY <1>2, <1>3, <3>1
  <2>4. CASE \E n \in DOMAIN j.results : n # 1 /\ Load(j.results[n].path) = Load(q)
    <3>1. PICK n \in DOMAIN j.results : n # 1 /\ Load(j.results[n].path) = Load(q)
      BY <2>4
    <3>2. n - 1 \in DOMAIN r.results /\ r.results[n - 1] = j.results[n]
      BY <1>1, <1>3, <3>1, HeadAndTail
    <3>3. QED
      BY <3>1, <3>2
  <2>5. QED
    BY <1>1, <1>4, <2>2, <2>3, <2>4 DEF OnTheWay, Associating
<1>8. \A n \in DOMAIN r.results : Load(job[c].results[n].path)' = Load(r.results[n].path)
  <2>1. \A n \in DOMAIN r.results : r.results[n].path \in Handled(pc'[c], r)
    BY HandledHas
  <2>2. QED
    BY <1>6, <2>1
<1>9. \A n \in DOMAIN r.batch : Load(job[c].batch[n].path)' = r.batch[n].hash
  <2>1. \A n \in DOMAIN r.batch : r.batch[n].path \in Handled(pc'[c], r)
    BY HandledHas
  <2>2. \A n \in DOMAIN r.batch : Load(r.batch[n].path) = r.batch[n].hash
    BY <1>1 DEF OnTheWay
  <2>3. QED
    BY <1>6, <2>1, <2>2
<1>10. \A q \in r.there : Load(q)' = Load(q)
  BY <1>6, HandledHas
<1>11. Wanted(job[c])' = Wanted(r)
  BY DEF Wanted
<1>12. \A q \in Wanted(job[c])' \cap r.there :
         \/ Answered(job[c].view, q)'
         \/ \E n \in DOMAIN r.results : Load(job[c].results[n].path)' = Load(q)'
  BY <1>1, <1>2, <1>7, <1>8, <1>10, <1>11
<1>13. QED
  BY <1>1, <1>9, <1>12 DEF OnTheWay, EncodedWell, Associating

\* Nothing that went wrong in a call is forgotten.
LEMMA CleanBefore ==
    ASSUME Typed, Control, NEW c \in Pushers, Call(c), Clean(pc'[c], job'[c])
    PROVE  Clean(pc[c], job[c])
<1>1. pc[c] # "idle"
  BY ListLayerMoves, RunHookMoves, CheckReadableMoves, CheckHeldMoves, LoadPathMoves, UploadMoves,
     RouteAssociateMoves, ReadAssociateMoves, AddAssociateMoves, EncodeMoves DEF Call
<1>2. ~ job'[c].err /\ job'[c].full /\ job'[c].since = job[c].since
  BY CallKinds DEF Clean, Kept
<1>3. ~ job[c].err /\ job[c].full
  BY <1>2, CallKinds, UploadMoves, AddAssociateMoves DEF Silent, Seeks, Failing, Skips
<1>4. QED
  BY <1>1, <1>2, <1>3 DEF Clean

\* Every step keeps covered what the pushes under way are to cover.
LEMMA CoveredKept ==
    ASSUME Typed, Control, Finds, Provenance, Covered, [Next]_vars, SeparateLayers,
           Kinds \ {"sync"} # {} => \E i \in DOMAIN Hooks : Hooks[i] = "upload"
    PROVE  Covered'
<1>1. edits \in Nat /\ \A d \in Pushers : job[d].since \in Nat /\ job[d].since <= edits
  BY JobTyped, PushAssumption DEF Typed, Finds
<1>2. CASE edits' = edits + 1 /\ pc' = pc /\ job' = job
  <2>1. ASSUME NEW d \in Pushers
        PROVE  job'[d].since # edits'
    BY <1>1, <1>2
  <2>2. QED
    BY <2>1 DEF Covered, Clean
<1>3. ASSUME NEW c \in Pushers, Push(c) \/ Call(c), edits' = edits, NEW d \in Pushers,
             Clean(pc[d], job[d])'
      PROVE  OnTheWay(pc[d], job[d])'
  <2>1. Clean(pc'[d], job'[d]) /\ job'[d].since = edits
    BY <1>3 DEF Clean
  <2>2. CASE d # c
    <3>1. Moves(c)
      BY <1>3, PushMoves, CallKinds
    <3>2. job'[d] = job[d] /\ pc'[d] = pc[d]
      BY <2>2, <3>1, MovesFrame
    <3>3. OnTheWay(pc'[d], job'[d])
      BY <2>1, <3>2 DEF Covered
    <3>4. QED
      BY <1>3, <2>1, <3>3, OnTheWayStays DEF Next
  <2>3. CASE d = c /\ Push(c)
    <3>1. OnTheWay(pc'[c], job'[c])
      BY <2>3, PushOnTheWay
    <3>2. QED
      BY <1>3, <2>1, <2>3, <3>1, OnTheWayStays DEF Next
  <2>4. CASE d = c /\ Call(c)
    <3>1. OnTheWay(pc[c], job[c]) /\ job[c].since = edits
      BY <2>1, <2>4, CleanBefore DEF Covered, Clean
    <3>2. \A p \in job[c].there : Firm(p)
      BY <3>1, HandledHas DEF Finds
    <3>3. CASE AddAssociate(c)
      BY <1>3, <2>1, <2>4, <3>1, <3>3, AddOnTheWay DEF Clean, Next
    <3>4. CASE ~ AddAssociate(c)
      <4>1. OnTheWay(pc'[c], job'[c])
        BY <2>1, <2>4, <3>1, <3>2, <3>4, CallOnTheWay DEF Clean
      <4>2. QED
        BY <1>3, <2>1, <2>4, <4>1, OnTheWayStays DEF Next
    <3>5. QED
      BY <3>3, <3>4
  <2>5. QED
    BY <1>3, <2>2, <2>3, <2>4
<1>4. CASE \E c \in Pushers : Push(c) \/ Call(c)
  <2>1. edits' = edits
    BY <1>4, PushFrame, CallKinds
  <2>2. QED
    BY <1>3, <1>4, <2>1 DEF Covered
<1>5. CASE UserWrites \/ UserRemoves
  BY <1>2, <1>5 DEF UserWrites, UserRemoves
<1>6. CASE UNCHANGED vars
  <2>1. pc' = pc /\ job' = job /\ edits' = edits
    BY <1>6 DEF vars
  <2>2. ASSUME NEW d \in Pushers, Clean(pc[d], job[d])'
        PROVE  OnTheWay(pc[d], job[d])'
    <3>1. Clean(pc[d], job[d]) /\ job'[d].since = edits
      BY <2>1, <2>2 DEF Clean
    <3>2. OnTheWay(pc'[d], job'[d])
      BY <2>1, <3>1 DEF Covered
    <3>3. QED
      BY <2>1, <3>1, <3>2, OnTheWayStays
  <2>3. QED
    BY <2>2 DEF Covered
<1>7. QED
  BY <1>4, <1>5, <1>6 DEF Next

\* A push whose uploader answers for its whole batch, and whose files nobody touches, leaves
\* no picture of its documents without an id that was there when it began or that its scan
\* found, though the index had to put it back: the scan for uploads covers what the encoder
\* asks for, and no path is lost between the worklists, the batch and the results.  Of a
\* picture without an id there is a duplicate in a layer with another index.  No file is in
\* reach of two layers (refToFull), and the pipeline has an upload hook unless it only syncs.
THEOREM PicturesCovered ==
    ASSUME SeparateLayers,
           Kinds \ {"sync"} # {} => \E i \in DOMAIN Hooks : Hooks[i] = "upload"
    PROVE  Spec => []EveryPictureGetsItsId
<1>1. Init => Covered
  <2> SUFFICES ASSUME Init
               PROVE  Covered
    OBVIOUS
  <2>1. \A c \in Pushers : pc[c] = "idle"
    BY DEF Init
  <2>2. QED
    BY <2>1 DEF Covered, Clean
<1>2. Inv /\ Covered /\ [Next]_vars => Covered'
  BY CoveredKept DEF Inv
<1>3. ASSUME Inv, Covered
      PROVE  EveryPictureGetsItsId
  <2>1. SUFFICES ASSUME NEW c \in Pushers, Complete(c), NEW i \in DOMAIN job[c].encoded,
                        NEW p \in DOMAIN job[c].encoded[i] \cap job[c].there
                 PROVE  Doubled(p) \/ job[c].encoded[i][p] # 0
    BY DEF EveryPictureGetsItsId
  <2> DEFINE j == job[c]
  <2>2. pc[c] = "done" /\ ~ j.err /\ j.full /\ j.since = edits /\ j.kind # "none"
    BY <2>1 DEF Complete
  <2>3. EncodedWell(j)
    BY <1>3, <2>2 DEF Covered, Clean, OnTheWay
  <2>4. p \in Wanted(j)
    <3>1. CASE j.kind = "sync"
      BY <1>3, <3>1 DEF Wanted, Inv, Finds
    <3>2. CASE j.kind # "sync"
      <4>1. Len(j.encoded) = Len(j.docs) /\ j.encoded \in Seq(Encodings) /\ j.docs \in Seq(Seq(DocNodes))
        BY <1>3, <2>2, JobTyped DEF Inv, Control, Placed, Ended
      <4>2. i \in DOMAIN j.docs
        BY <4>1
      <4>3. p \in LookupKeys(j.docs[i])
        BY <2>3 DEF EncodedWell
      <4>4. p \in LocalImages(ToSet(j.docs) \ {<<>>})
        BY <4>1, <4>2, <4>3, ScanCoversEncoder
      <4>5. QED
        BY <3>2, <4>4 DEF Wanted
    <3>3. QED
      BY <3>1, <3>2
  <2>5. QED
    BY <2>3, <2>4 DEF EncodedWell
<1>4. QED
  BY <1>1, <1>2, <1>3, Invariance, PTL DEF Spec

-----------------------------------------------------------------------------
(* The two worklists. *)

\* What a folder's worklist has a document's has too, in every scope and after any pushes,
\* failures and edits of the files.  The converse fails for a file alone that is gone and
\* that the index can put back, and only until some call has asked for it: what a call has
\* found is in both or in neither.  No file is in reach of two layers (refToFull).
THEOREM WorklistsOneTruth ==
    ASSUME SeparateLayers
    PROVE  Spec => []WorklistsAgree
<1>1. ASSUME Stored, Finds
      PROVE  WorklistsAgree
  <2> SUFFICES ASSUME NEW s \in Scopes, NEW l \in Layers, NEW p \in Lists[l]
               PROVE  /\ FolderOffers(s, p) => DocumentOffers(s, p)
                      /\ DocumentOffers(s, p) /\ ~FolderOffers(s, p) =>
                           file[l][p] = NoFile /\ Backup(l, p) # NoFile /\ ~FoundSinceEdits(p)
    BY DEF WorklistsAgree
  <2>1. p \in Paths /\ p \in Reaches[l]
    BY PushAssumption
  <2>2. FolderOffers(s, p) <=> \E m \in Layers : p \in Unsent(m, s)
    BY PendingLists DEF FolderOffers
  <2>3. ASSUME NEW m \in Layers, p \in Unsent(m, s)
        PROVE  DocumentOffers(s, p)
    <3>1. New(s, p) /\ file[m][p] # NoFile
      BY <1>1, <2>3, UnsentIsNew DEF Unsent
    <3>2. /\ Loads(p) \in Layers /\ Read(Loads(p), p) = Load(p)
          /\ \A i \in Layers : i # Loads(p) => p \notin Reaches[i]
      BY <1>1, <2>1, <3>1, FirmReads DEF Firm
    <3>3. \A i \in Layers : Read(i, p) # NoFile => i = Loads(p)
      BY <3>2 DEF Read
    <3>4. Lookup(s, p) = 0
      BY <1>1, <2>1, <3>1, <3>2, <3>3, LookupGives DEF New
    <3>5. QED
      BY <3>1, <3>4 DEF New, DocumentOffers
  <2>4. ASSUME DocumentOffers(s, p), ~ FolderOffers(s, p)
        PROVE  file[l][p] = NoFile /\ Backup(l, p) # NoFile /\ ~FoundSinceEdits(p)
    <3>1. ~ Firm(p)
      BY <1>1, <2>2, <2>4, ListedOrAnswered DEF DocumentOffers
    <3>2. file[l][p] = NoFile
      BY <2>1, <3>1 DEF Firm
    <3>3. Backup(l, p) # NoFile
      <4>1. PICK m \in Layers : Read(m, p) # NoFile
        BY <1>1, <2>1, <2>4, LoadFinds DEF DocumentOffers
      <4>2. p \in Reaches[m]
        BY <1>1, <2>1, <4>1, ReadTyped
      <4>3. m = l
        BY <2>1, <4>2 DEF SeparateLayers
      <4>4. QED
        BY <3>2, <4>1, <4>3 DEF Read
    <3>4. ~ FoundSinceEdits(p)
      <4>1. ASSUME NEW c \in Pushers, job[c].since = edits, p \in job[c].there
            PROVE  FALSE
        BY <1>1, <3>1, <4>1, HandledHas DEF Finds
      <4>2. QED
        BY <4>1 DEF FoundSinceEdits
    <3>5. QED
      BY <3>2, <3>3, <3>4
  <2>5. QED
    BY <2>2, <2>3, <2>4
<1>2. Inv => Stored /\ Finds
  BY DEF Inv, Typed
<1>3. QED
  BY <1>1, <1>2, Invariance, PTL

===============================================================================
