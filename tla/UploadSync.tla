------------------------------ MODULE UploadSync ------------------------------
(***************************************************************************)
(* Pushing documents: a pipeline that uploads the pictures its documents   *)
(* name before it encodes them (sync.go, pendingrefs.go, frommarkdown.go,  *)
(* pipeline.go), over a stack of stores (layered.go) seen through one      *)
(* visibility scope (scope.go).                                            *)
(*                                                                         *)
(* A store of the stack is its files, and the ids and names its index      *)
(* records; a call of a layer is one step here, FSStore.tla has what       *)
(* happens inside. A read that misses a file puts it back when the index   *)
(* knows its name (repairFriendly); a listing does not (Pending).          *)
(* A content and its hash are one value.  A path is a number in the order  *)
(* slices.Sort uses; spellings of one path (NormalizeRef) are one value.   *)
(***************************************************************************)
EXTENDS Integers, FiniteSets, Sequences, SequencesExt

CONSTANTS
    Pushers,     \* goroutines that push documents
    Views,       \* the scopes a view may be bound to, Unscoped for none
    NLayers,     \* layers of the stack, the first one in front
    IndexOf,     \* the index each layer keeps its ids in
    Reaches,     \* the paths each layer can load
    Lists,       \* those of them in the folder its Pending walks, the others lie below
    NameOf,      \* the base name of each path
    Paths, Hashes, Ids,
    Scopes, Unscoped, NoScope, NoFile,
    Batches,     \* what a pusher may be handed: sequences of documents
    Kinds,       \* ways to push, of "sync", "one" and "all"
    Hooks,       \* the pipeline's BeforeEncode hooks: "upload" and "other"
    Faults,      \* what may fail: "list", "upload", "save", "hook"
    Edits,       \* what people may do to files: "write", "remove"
    MaxPushes, MaxEdits   \* bounds

Layers == 1 .. NLayers
IndexIds == {IndexOf[l] : l \in Layers}

\* What a record has for a name before it has one, and where a suffix was needed.
Unnamed == 0
Suffixed == 1

ASSUME PushAssumption ==
    /\ NLayers \in Nat \ {0}
    /\ Paths \subseteq Nat \ {0} /\ IsFiniteSet(Paths)
    /\ Ids \subseteq Nat \ {0} /\ IsFiniteSet(Ids)
    /\ Unscoped \in Scopes /\ NoScope \notin Scopes
    /\ NoFile \notin Hashes
    /\ Views \subseteq Scopes
    /\ \A l \in Layers : Lists[l] \subseteq Reaches[l] /\ Reaches[l] \subseteq Paths
    /\ NameOf \in [Paths -> Nat \ {Unnamed, Suffixed}]
    /\ \A l \in Layers : \A p, q \in Lists[l] : NameOf[p] = NameOf[q] => p = q
    /\ Kinds \subseteq {"sync", "one", "all"}
    /\ Hooks \in Seq({"upload", "other"})
    /\ MaxPushes \in Nat /\ MaxEdits \in Nat

VARIABLES
    file,      \* per layer and path: the content on disk
    ids,       \* per index and content: the scope each id is recorded under
    name,      \* per index and content: the name of its record, in memory
    saved,     \* the same on disk
    uploaded,  \* the content each id was minted for, NoFile before that
    edits,     \* how often people changed a file
    pushes,    \* how often documents were pushed
    pc,        \* per pusher: where it stands
    job        \* per pusher: the variables of its call

vars == <<file, ids, name, saved, uploaded, edits, pushes, pc, job>>

-----------------------------------------------------------------------------
(* Documents.  A document is the sequence of its nodes that name a file,    *)
(* in document order; dest is a path, or Remote for a URL or nothing.       *)

Remote == 0

DocNodes == [kind : {"image", "media", "imageRef", "definition"}, dest : Paths \cup {Remote},
             label : Nat, pinned : BOOLEAN, external : BOOLEAN]

ASSUME BatchAssumption == Batches \subseteq Seq(Seq(DocNodes))

\* dialect.MediaLookupPath: external media and an explicit id spend no path.
SpendsPath(n) == n.kind = "media" /\ ~n.external /\ ~n.pinned

\* Variant: the scan that knew the image node alone.
NamesImageOnly(n) == n.kind = "image"

NamesFile(n) == n.kind = "image" \/ SpendsPath(n)

\* The definition a label resolves to: its first one.
FirstDefinition(doc, label) ==
    SelectInSeq(doc, LAMBDA n : n.kind = "definition" /\ n.label = label)

\* The definitions some reference-style image of the document resolves to.
ImageDefinitions(doc) ==
    {FirstDefinition(doc, doc[i].label) : i \in {j \in DOMAIN doc : doc[j].kind = "imageRef"}} \ {0}

\* Variant: a URL counts as a file.
AllImages(docs) ==
    UNION {{doc[i].dest : i \in {j \in DOMAIN doc : NamesFile(doc[j])}} : doc \in docs}

\* collectLocalImages over all documents of a set.
LocalImages(docs) ==
    (UNION {{doc[i].dest : i \in {j \in DOMAIN doc : NamesFile(doc[j])} \cup ImageDefinitions(doc)}
              : doc \in docs}) \ {Remote}

\* The paths the encoder asks the store about.
LookupKeys(doc) ==
    {doc[i].dest : i \in {j \in DOMAIN doc :
        \/ doc[j].kind = "image" \/ SpendsPath(doc[j])
        \/ /\ doc[j].kind = "definition"
           /\ \E k \in DOMAIN doc : doc[k].kind = "imageRef" /\ doc[k].label = doc[j].label
           /\ FirstDefinition(doc, doc[j].label) = j}} \ {Remote}

\* slices.Sort.
Sorted(S) ==
    LET places == 1 .. Cardinality(S)
    IN CHOOSE s \in [places -> S] : \A i, j \in places : i < j => s[i] < s[j]

-----------------------------------------------------------------------------
(* One layer. *)

\* blobForName: the one content recorded under the name of a path of the folder.
Backup(l, p) ==
    LET Named(h) == saved[IndexOf[l]][h] = NameOf[p]
    IN IF p \in Lists[l] /\ \E h \in Hashes : \A g \in Hashes : Named(g) <=> g = h
       THEN CHOOSE h \in Hashes : Named(h) ELSE NoFile

\* resolveReadable: the file, or what a file that is gone is put back from.
Read(l, p) ==
    IF p \notin Reaches[l] THEN NoFile ELSE IF file[l][p] # NoFile THEN file[l][p] ELSE Backup(l, p)

\* Variant: a read answers from the blob and leaves the folder alone.
LeftAsFound(asked) == file

\* The folders after reads of some <<layer, path>>.
Restored(asked) ==
    [l \in Layers |-> [p \in Paths |->
        IF <<l, p>> \in asked /\ file[l][p] = NoFile THEN Read(l, p) ELSE file[l][p]]]

\* Variant: ids of every container match.
ScopeForAny(sc, s) ==
    LET held == {k \in Ids : sc[k] # NoScope}
    IN IF held = {} THEN 0 ELSE CHOOSE k \in held : \A j \in held : k <= j

\* scopeFor: "" takes the first id, a scope its own first one, else the last unscoped.
ScopeFor(sc, s) ==
    LET exact  == {k \in Ids : sc[k] # NoScope /\ s \in {Unscoped, sc[k]}}
        legacy == {k \in Ids : sc[k] = Unscoped}
    IN IF exact # {} THEN CHOOSE k \in exact : \A j \in exact : k <= j
       ELSE IF legacy # {} THEN CHOOSE k \in legacy : \A j \in legacy : k >= j
       ELSE 0

Held(l, s, h) == ScopeFor(ids[IndexOf[l]][h], s)

LayerLookup(l, s, p) == IF Read(l, p) = NoFile THEN 0 ELSE Held(l, s, Read(l, p))

\* Pending goes through the files the folder has.
Unsent(l, s) == {p \in Lists[l] : file[l][p] # NoFile /\ Held(l, s, file[l][p]) = 0}

LayerPending(l, s) == Sorted(Unsent(l, s))

-----------------------------------------------------------------------------
(* The stack: the first layer that can answer does. *)

FirstLayer(able) == IF able = {} THEN 0 ELSE CHOOSE l \in able : \A m \in able : l <= m

Loads(p) == FirstLayer({l \in Layers : Read(l, p) # NoFile})

Load(p) == IF Loads(p) = 0 THEN NoFile ELSE Read(Loads(p), p)

Knows(s, p) == FirstLayer({l \in Layers : LayerLookup(l, s, p) # 0})

Lookup(s, p) == IF Knows(s, p) = 0 THEN 0 ELSE LayerLookup(Knows(s, p), s, p)

\* The layers are asked in order, up to the one that answers.
Loaded(p) == Restored({<<Loads(p), p>>})
LookedUp(s, S) == Restored({a \in Layers \X S : Knows(s, a[2]) = 0 \/ a[1] <= Knows(s, a[2])})

\* Pending's union, each path once, in the order of the layers.
MergedInto(acc, l, s) == acc \o Sorted(Unsent(l, s) \ ToSet(acc))

-----------------------------------------------------------------------------
(* A pusher's call. *)

\* Variant: the view hands the caller's scope on, which the plumbing leaves empty.
ScopeAsked(c) == Unscoped

\* The view overrides the scope argument of every call.
Scope(c) == job[c].view

Blank == [kind |-> "none", view |-> Unscoped, docs |-> <<>>, hook |-> 0, todo |-> <<>>, paths |-> <<>>,
          batch |-> <<>>, results |-> <<>>, at |-> 0, read |-> NoFile, err |-> FALSE,
          encoded |-> <<>>, full |-> TRUE, since |-> 0, there |-> {},
          minted |-> {}, failed |-> {}]

Init ==
    /\ file \in [Layers -> [Paths -> Hashes \cup {NoFile}]]
    /\ \A l \in Layers : \A p \in Paths \ Reaches[l] : file[l][p] = NoFile
    /\ ids = [i \in IndexIds |-> [h \in Hashes |-> [k \in Ids |-> NoScope]]]
    /\ name = [i \in IndexIds |-> [h \in Hashes |-> Unnamed]] /\ saved = name
    /\ uploaded = [k \in Ids |-> NoFile]
    /\ edits = 0 /\ pushes = 0
    /\ pc = [c \in Pushers |-> "idle"]
    /\ job = [c \in Pushers |-> Blank]

\* Step c to label l with the fields of r changed.
Goto(c, l, r) == pc' = [pc EXCEPT ![c] = l] /\ job' = [job EXCEPT ![c] = r]

Books == <<ids, name, saved, uploaded, edits>>
World == <<file, Books>>

\* Variant: the batch call carries on as the single one does.
AfterErrorEncodes(c, j) == "encode"

\* What a failed hook does to the call: MarkdownToADF reports it, the others return.
AfterError(c, j) == IF j.kind = "one" THEN "encode" ELSE "done"

\* Variant: an upload that failed is tried again.
RetryUpload(c, j) ==
    IF j.err THEN Goto(c, IF j.kind = "sync" THEN "list" ELSE "hook",
                       [j EXCEPT !.err = FALSE, !.todo = <<>>, !.at = 1])
    ELSE Goto(c, IF j.kind = "sync" THEN "encode" ELSE "hook", [j EXCEPT !.hook = @ + 1])

\* Where uploadPaths returns to: Sync hands over to the encoder, a hook to the next.
ReturnUpload(c, j) ==
    IF j.err THEN Goto(c, AfterError(c, j), j)
    ELSE Goto(c, IF j.kind = "sync" THEN "encode" ELSE "hook", [j EXCEPT !.hook = @ + 1])

\* The files a push finds: those its worklist starts from, or any.
Present(k) == {p \in Paths : \E l \in Layers : file[l][p] # NoFile /\ (k = "sync" => p \in Lists[l])}

\* EnsureUploaded, MarkdownToADF or MarkdownToADFAll.
Push(c) ==
    /\ pc[c] \in {"idle", "done"} /\ pushes < MaxPushes
    /\ pushes' = pushes + 1
    /\ \E k \in Kinds, v \in Views, docs \in Batches :
         /\ k = "one" => Len(docs) = 1
         /\ Goto(c, IF k = "sync" THEN "list" ELSE "hook",
                 [Blank EXCEPT !.kind = k, !.view = v, !.docs = docs, !.hook = IF k = "sync" THEN 0 ELSE 1,
                               !.at = 1, !.since = edits, !.there = Present(k)])
    /\ UNCHANGED World

\* Sync lists one layer after the other; one that fails fails the call.
ListLayer(c) ==
    /\ pc[c] = "list"
    /\ LET j == job[c]
           all == MergedInto(j.todo, j.at, Scope(c))
       IN \/ j.at < NLayers /\ Goto(c, "list", [j EXCEPT !.todo = all, !.at = @ + 1])
          \/ j.at = NLayers /\ all # <<>> /\ Goto(c, "load", [j EXCEPT !.todo = all])
          \/ j.at = NLayers /\ all = <<>> /\ ReturnUpload(c, [j EXCEPT !.todo = all])
          \/ "list" \in Faults /\ Goto(c, "done", [j EXCEPT !.err = TRUE])
    /\ UNCHANGED <<World, pushes>>

\* fireHooks: the hooks in order, over the documents that are not empty.
RunHook(c) ==
    /\ pc[c] = "hook"
    /\ LET j == job[c]
           refs == LocalImages(ToSet(j.docs) \ {<<>>})
       IN \/ j.hook > Len(Hooks) /\ Goto(c, "encode", j)
          \/ /\ j.hook <= Len(Hooks) /\ Hooks[j.hook] = "other"
             /\ \/ Goto(c, "hook", [j EXCEPT !.hook = @ + 1])
                \/ "hook" \in Faults /\ Goto(c, AfterError(c, j), [j EXCEPT !.err = TRUE])
          \/ /\ j.hook <= Len(Hooks) /\ Hooks[j.hook] = "upload"
             /\ IF refs = {} THEN Goto(c, "hook", [j EXCEPT !.hook = @ + 1])
                ELSE Goto(c, "readable", [j EXCEPT !.todo = Sorted(refs), !.paths = <<>>])
    /\ UNCHANGED <<World, pushes>>

\* PendingRefs asks of each reference whether the store can read it ...
CheckReadable(c) ==
    /\ pc[c] = "readable"
    /\ LET j == job[c]
           p == Head(j.todo)
       IN \/ j.todo # <<>> /\ Load(p) = NoFile /\ UNCHANGED file /\ Goto(c, "readable", [j EXCEPT !.todo = Tail(@)])
          \/ /\ j.todo # <<>> /\ Load(p) # NoFile
             /\ file' = Loaded(p) /\ Goto(c, "held", [j EXCEPT !.there = @ \cup {p}])
          \/ j.todo = <<>> /\ j.paths # <<>> /\ UNCHANGED file /\ Goto(c, "load", [j EXCEPT !.todo = j.paths])
          \/ j.todo = <<>> /\ j.paths = <<>> /\ UNCHANGED file /\ ReturnUpload(c, j)
    /\ UNCHANGED <<Books, pushes>>

\* ... and then whether it knows an id for it.
CheckHeld(c) ==
    /\ pc[c] = "held"
    /\ LET j == job[c]
           p == Head(j.todo)
           new == Lookup(Scope(c), p) = 0
       IN /\ file' = LookedUp(Scope(c), {p})
          /\ Goto(c, "readable", [j EXCEPT !.todo = Tail(@), !.paths = IF new THEN Append(@, p) ELSE @])
    /\ UNCHANGED <<Books, pushes>>

\* Variant: files are told apart by their path.
SeenPath(batch, p, h) == \E i \in DOMAIN batch : batch[i].path = p

\* Identical files upload once.
Seen(batch, p, h) == \E i \in DOMAIN batch : batch[i].hash = h

\* uploadPaths loads one path after the other; one that fails ends the call.
LoadPath(c) ==
    /\ pc[c] = "load"
    /\ LET j == job[c]
           p == Head(j.todo)
           h == Load(p)
       IN \/ j.todo = <<>> /\ UNCHANGED file /\ Goto(c, "upload", j)
          \/ j.todo # <<>> /\ h = NoFile /\ UNCHANGED file /\ ReturnUpload(c, [j EXCEPT !.err = TRUE])
          \/ /\ j.todo # <<>> /\ h # NoFile
             /\ file' = Loaded(p)
             /\ Goto(c, "load", [j EXCEPT !.todo = Tail(@),
                    !.batch = IF Seen(@, p, h) THEN @ ELSE Append(@, [path |-> p, hash |-> h])])
    /\ UNCHANGED <<Books, pushes>>

\* The product takes the batch: fresh ids for some of it, perhaps an error as well.
Upload(c) ==
    /\ pc[c] = "upload"
    /\ \E some \in SUBSET DOMAIN job[c].batch, err \in {"upload" \in Faults, FALSE} :
         LET j == job[c]
             fresh == {k \in Ids : uploaded[k] = NoFile}
             taken == Sorted(some)
             minted == Sorted(fresh)
         IN /\ some = DOMAIN j.batch \/ "upload" \in Faults
            /\ Len(taken) <= Len(minted)
            /\ uploaded' = [k \in Ids |->
                   IF \E i \in DOMAIN taken : minted[i] = k
                   THEN j.batch[taken[CHOOSE i \in DOMAIN taken : minted[i] = k]].hash
                   ELSE uploaded[k]]
            /\ Goto(c, "route", [j EXCEPT !.err = err, !.at = 0,
                   !.full = @ /\ some = DOMAIN j.batch /\ ~err,
                   !.minted = @ \cup {minted[i] : i \in DOMAIN taken},
                   !.results = [i \in DOMAIN taken |-> [path |-> j.batch[taken[i]].path,
                                                        id |-> minted[i], n |-> i]]])
    /\ UNCHANGED <<file, ids, name, saved, edits, pushes>>

\* Variant: answers are matched with the batch by their position.
PathByPosition(j, r) == j.batch[r.n].path

\* The path an answer is for.
PathOf(j, r) == r.path

\* Variant: the first association that fails is the last one tried.
FailedResults(j) == [j EXCEPT !.results = <<>>, !.err = TRUE, !.full = FALSE,
                              !.failed = @ \cup {Head(j.results).id}]

\* A result whose association fails: the error is kept, the next one is tried.
FailedResult(j) == [j EXCEPT !.results = Tail(@), !.err = TRUE, !.full = FALSE,
                             !.failed = @ \cup {Head(j.results).id}]

\* The stack looks for the layer that can load the path ...
RouteAssociate(c) ==
    /\ pc[c] = "route"
    /\ LET j == job[c]
           p == PathOf(j, Head(j.results))
       IN \/ j.results = <<>> /\ UNCHANGED file /\ ReturnUpload(c, [j EXCEPT !.batch = <<>>])
          \/ j.results # <<>> /\ Loads(p) = 0 /\ UNCHANGED file /\ Goto(c, "route", FailedResult(j))
          \/ /\ j.results # <<>> /\ Loads(p) # 0
             /\ file' = Loaded(p) /\ Goto(c, "read", [j EXCEPT !.at = Loads(p)])
    /\ UNCHANGED <<Books, pushes>>

\* ... which reads the content once more ...
ReadAssociate(c) ==
    /\ pc[c] = "read"
    /\ LET j == job[c]
           p == PathOf(j, Head(j.results))
           h == Read(j.at, p)
       IN /\ file' = Restored({<<j.at, p>>})
          /\ IF h = NoFile THEN Goto(c, "route", FailedResult(j))
             ELSE Goto(c, "add", [j EXCEPT !.read = h])
    /\ UNCHANGED <<Books, pushes>>

\* store: the name of the record stays while it leads to the content, else the
\* base name of the path is taken if it is free or leads there, or a suffixed one.
NamesFor(l, p, h) ==
    LET old == name[IndexOf[l]][h]
        taken == \E q \in Lists[l] : NameOf[q] = NameOf[p] /\ file[l][q] \notin {NoFile, h}
    IN {IF taken THEN Suffixed ELSE NameOf[p]} \cup
       {n \in {old} : n = Suffixed \/ \E q \in Lists[l] : NameOf[q] = n /\ file[l][q] = h}

\* A file of that name is made where there is none.
Made(l, n, h) ==
    [file EXCEPT ![l] = [q \in Paths |-> IF q \in Lists[l] /\ NameOf[q] = n /\ @[q] = NoFile THEN h ELSE @[q]]]

\* The index an association lands in.
OwnerIndex(l) == IndexOf[l]

\* ... and records the id for it. A failed save may leave the id in memory, and
\* the next one that succeeds takes it along.
AddAssociate(c) ==
    /\ pc[c] = "add"
    /\ LET j == job[c]
           i == OwnerIndex(j.at)
           recorded == [ids EXCEPT ![i][j.read][Head(j.results).id] = Scope(c)]
       IN \E n \in NamesFor(j.at, PathOf(j, Head(j.results)), j.read) :
          LET named == [name EXCEPT ![i][j.read] = n]
              made == Made(j.at, n, j.read)
          IN \/ /\ file' = made /\ ids' = recorded /\ name' = named /\ saved' = [saved EXCEPT ![i] = named[i]]
                /\ Goto(c, "route", [j EXCEPT !.results = Tail(@)])
             \/ /\ "save" \in Faults /\ Goto(c, "route", FailedResult(j)) /\ UNCHANGED saved
                /\ \/ file' \in {file, made} /\ UNCHANGED <<ids, name>>
                   \/ file' = made /\ ids' = recorded /\ name' = named
    /\ UNCHANGED <<uploaded, edits, pushes>>

\* ToADF on the next document: each reference gets the id the store knows for it.
Encode(c) ==
    /\ pc[c] = "encode"
    /\ LET j == job[c]
           n == Len(j.encoded) + 1
       IN \/ n > Len(j.docs) /\ UNCHANGED file /\ Goto(c, "done", j)
          \/ /\ n <= Len(j.docs)
             /\ file' = LookedUp(Scope(c), LookupKeys(j.docs[n]))
             /\ Goto(c, "encode", [j EXCEPT !.encoded = Append(@,
                    [p \in LookupKeys(j.docs[n]) |-> Lookup(Scope(c), p)])])
    /\ UNCHANGED <<Books, pushes>>

\* A person saves a file of a layer's folder.
UserWrites ==
    /\ "write" \in Edits /\ edits < MaxEdits
    /\ \E l \in Layers, h \in Hashes : \E p \in Reaches[l] :
         file[l][p] # h /\ file' = [file EXCEPT ![l][p] = h]
    /\ edits' = edits + 1
    /\ UNCHANGED <<ids, name, saved, uploaded, pushes, pc, job>>

\* A person removes one.
UserRemoves ==
    /\ "remove" \in Edits /\ edits < MaxEdits
    /\ \E l \in Layers : \E p \in Reaches[l] :
         file[l][p] # NoFile /\ file' = [file EXCEPT ![l][p] = NoFile]
    /\ edits' = edits + 1
    /\ UNCHANGED <<ids, name, saved, uploaded, pushes, pc, job>>

Call(c) ==
    \/ ListLayer(c) \/ RunHook(c) \/ CheckReadable(c) \/ CheckHeld(c) \/ LoadPath(c)
    \/ Upload(c) \/ RouteAssociate(c) \/ ReadAssociate(c) \/ AddAssociate(c) \/ Encode(c)

Next == (\E c \in Pushers : Push(c) \/ Call(c)) \/ UserWrites \/ UserRemoves

Spec == Init /\ [][Next]_vars

\* A goroutine that can take its next step does so; the product answers uploads.
FairSpec == Spec /\ \A c \in Pushers : WF_vars(Call(c))

-----------------------------------------------------------------------------
(* Properties. *)

TypeOK ==
    /\ file \in [Layers -> [Paths -> Hashes \cup {NoFile}]]
    /\ ids \in [IndexIds -> [Hashes -> [Ids -> Scopes \cup {NoScope}]]]
    /\ name \in [IndexIds -> [Hashes -> Nat]] /\ saved \in [IndexIds -> [Hashes -> Nat]]
    /\ uploaded \in [Ids -> Hashes \cup {NoFile}]
    /\ edits \in 0 .. MaxEdits /\ pushes \in 0 .. MaxPushes
    /\ \A c \in Pushers :
         /\ pc[c] \in {"idle", "hook", "list", "readable", "held", "load", "upload", "route",
                       "read", "add", "encode", "done"}
         /\ job[c].todo \in Seq(Paths) /\ job[c].paths \in Seq(Paths) /\ job[c].there \subseteq Paths
         /\ pc[c] = "held" => job[c].todo # <<>>
         /\ pc[c] \in {"read", "add"} => job[c].results # <<>> /\ job[c].at \in Layers

IdsOf(c) == (UNION {{job[c].encoded[i][p] : p \in DOMAIN job[c].encoded[i]}
                      : i \in DOMAIN job[c].encoded}) \ {0}

\* What a bound view uploads is recorded for its container, and no document is
\* sent with an id of another one: whatever other pushers record in the same
\* indexes meanwhile, Lookup gives out exactly scoped or unscoped ids only.
EncodesOwnContainer ==
    \A c \in Pushers : job[c].view # Unscoped =>
        /\ \A k \in IdsOf(c) : \E i \in IndexIds, h \in Hashes :
               ids[i][h][k] \in {job[c].view, Unscoped}
        /\ \A k \in job[c].minted : \A i \in IndexIds, h \in Hashes :
               ids[i][h][k] \in {job[c].view, NoScope}

\* Unless people edit files meanwhile, an id stands in the index for the
\* very content it was minted for, whichever layer the association went to.
IdsNameTheirUpload ==
    edits = 0 => \A i \in IndexIds, h \in Hashes, k \in Ids :
                     ids[i][h][k] # NoScope => uploaded[k] = h

\* A push whose uploader answers for its whole batch, and during which nobody
\* touches the files, sends no picture without an id that was there when it
\* began or that its upload scan found: what the scan looks at covers what the
\* encoder will ask for, in any spelling of a picture, and also pictures whose
\* file had to be put back. Left out is a picture whose content lies in a layer
\* with another index as well: one of the two is uploaded, and recorded there,
\* though uploadPaths says that every duplicate resolves to the id (sync.go:64-66).
Doubled(p) ==
    \E l, m \in Layers, x \in Paths :
        IndexOf[l] # IndexOf[m] /\ file[l][p] # NoFile /\ file[m][x] = file[l][p]
Complete(c) ==
    LET j == job[c] IN pc[c] = "done" /\ ~j.err /\ j.full /\ j.since = edits /\ j.kind # "none"
EveryPictureGetsItsId ==
    \A c \in Pushers : Complete(c) =>
        \A i \in DOMAIN job[c].encoded : \A p \in DOMAIN job[c].encoded[i] \cap job[c].there :
            Doubled(p) \/ job[c].encoded[i][p] # 0

\* MarkdownToADFAll encodes all documents or none, MarkdownToADF always its
\* one, and a call that reports success has encoded everything.
BatchIsAllOrNothing ==
    \A c \in Pushers : pc[c] = "done" =>
        IF job[c].err /\ job[c].kind # "one" THEN job[c].encoded = <<>>
        ELSE Len(job[c].encoded) = Len(job[c].docs)

\* When a push ends, each id it was given is recorded, or the association of
\* that very id has failed and the caller is told of an error: one bad
\* result does not end the recording of the others.
NoUploadForgotten ==
    \A c \in Pushers : pc[c] = "done" => \A k \in job[c].minted :
        \/ \E i \in IndexIds, h \in Hashes : ids[i][h][k] # NoScope
        \/ k \in job[c].failed /\ job[c].err

\* One pusher mints no second id for content whose id is visible to it:
\* neither duplicates in a batch nor pictures an earlier push has sent.
NothingUploadedTwice ==
    \A k1, k2 \in Ids : \A i \in IndexIds, h \in Hashes :
        (k1 # k2 /\ ids[i][h][k1] = ids[i][h][k2] /\ edits = 0) => ids[i][h][k1] = NoScope

FolderOffers(s, p) == \E l \in Layers : p \in ToSet(LayerPending(l, s))
DocumentOffers(s, p) == Load(p) # NoFile /\ Lookup(s, p) = 0

\* A call has found the file, and nobody has edited one since.
FoundSinceEdits(p) == \E c \in Pushers : job[c].kind # "none" /\ job[c].since = edits /\ p \in job[c].there

\* What a folder's worklist has, a document's has too, in every scope and after
\* any pushes and edits. The converse fails for a file that is gone, which a
\* document's worklist puts back and a folder's does not see (assets.go:871-876,
\* against pendingrefs.go:11-12), but only until a call has asked for it.
WorklistsAgree ==
    \A s \in Scopes : \A l \in Layers : \A p \in Lists[l] :
        /\ FolderOffers(s, p) => DocumentOffers(s, p)
        /\ DocumentOffers(s, p) /\ ~FolderOffers(s, p) =>
               file[l][p] = NoFile /\ Backup(l, p) # NoFile /\ ~FoundSinceEdits(p)

\* Every push ends, whatever fails on its way: no error is retried, and no
\* worklist is walked twice.
PushesEnd == \A c \in Pushers : pc[c] \notin {"idle", "done"} ~> pc[c] = "done"

=============================================================================
