# adfast: specifications and proofs

TLA+ modules of [adfast](../src/README.md), a Go library that converts Markdown to the Atlassian
Document Format and back and keeps the media of the documents in a content-addressed store.
TLC checks small instances; TLAPS proves the theorems for every value of the constants.

    tlc -workers 2 -config store_index.cfg MCFSStore.tla
    tlc -workers 2 -config push.cfg MCUploadSync.tla
    tlc -workers 2 -config trees.cfg MCConversion.tla
    tlapm FSStoreProofs.tla        # then ContentProofs.tla
    tlapm Numbers.tla              # then PushSteps.tla, UploadSyncProofs.tla
    tlapm WireProofs.tla
    tlapm TableAlignProofs.tla
    tlapm SpanProofs.tla

## 1. The system

Three things happen in the library. The asset store keeps files, which goroutines, instances and
processes share through a directory. A push uploads the pictures of documents through a stack of
such stores and records the ids the product gave them. And everything else converts one tree into
another, over and over, as a page goes to the product and comes back.

| Component | State it keeps | Operations | What makes it correct | Here |
|---|---|---|---|---|
| Filesystem store (`assets/assets.go`, `record.go`, `prune.go`, `meta.go`, `catalog.go`) | `index.json`, the blob directory, the friendly files, the records each instance holds in memory, a lock per index and process, a count of Report scopes | Add, Put, SetMeta, Forget, Associate, Resolve, Assets, Load, Lookup, Pending, Report, read-only queries | no association lost, no file of a person overwritten, a path answered only if its content lies there, reports change nothing, every call returns | `FSStore` |
| Upload sync (`sync.go`, `pendingrefs.go`, `frommarkdown.go`) | none of its own: a batch between Pending and Associate | Sync, uploadPaths, PendingRefs | each content uploaded once, progress kept when a part fails, the worklist sees what the encoder asks for | `UploadSync` |
| Layered and scoped stores (`layered.go`, `scope.go`) | none: a list of stores, a scope | the Store operations, forwarded | the first layer that can answer does, writes go to one layer, no id of a foreign scope | `UploadSync`, in part |
| Pipeline (`pipeline.go` and the facade files) | options and hooks | MarkdownToADF, MarkdownToADFAll, ADFToMarkdown | hooks run once, on all documents, before encoding; what an error stops | `UploadSync`, `Products` |
| Conversion (`convert/`) | none | ToADF, FromADF, Normalize, NormalizeFormat | nothing lost without a report, round trips settle, a canonical form encodes alike | `AstToAdf`, `AdfToAst`, `SpanRuns`, `Spanning`, `Normalize` |
| Directives (`dialect/`) | none | promotion, encoding and decoding of each kind | what one half writes the other reads | `DialectEncode`, `DialectDecode` |
| ADF (`adf/`) | node trees | JSON codec, table alignment, text clean-up, wire safety | a document read is written as it was | `Nodes`, `Documents`, `TableAlign`, `Wire` |
| AST (`ast/`) | node trees | definitions, references, footnotes | - | `Nodes`, `Readings` |
| Confluence (`confluence/`) | none | anchors lowered and lifted, macros, block tasks, legacy content expanded, a read-back page repaired | lifting undoes lowering; the nesting limit; a page nobody edited shows no edit | `Macros`, `Confluence` |
| Jira (`jira/`) | none | issue keys become cards | - | `Jira` |
| Markdown (`markdown/`), extension, frontmatter | none | parsing and rendering of text | - | only the promotion of directives |
| wasm, debug, skill, internal | none | bindings, printing, generators | - | no |

`PROJECT.json` lists the same components with their files, and under `hazards` what is hard to
test in them, each at its line.

**Interaction.** A converter asks the store by media id (`Resolve`, `Assets`) when it renders and by
path (`Lookup`, `Load`) when it encodes. Sync reads `Pending`, uploads, and calls `Associate`, which
reads a file and then calls `Add`. All instances over one index in a process share a `sync.Mutex`
(`indexLocks`); different processes share only the files. A mutation takes the lock, merges the
index file into its memory (`reloadIndex`), changes files, and replaces the index file by all of its
memory (`saveIndex`). A read takes the lock for the index alone and touches the folder after it
let go. A conversion runs the passes of the product around the converter; the converter hands each
directive to the dialect, which calls back for the children.

**Hard behaviours.** Of the store: instances with memories of their own, reads that repair the folder
while mutations run, people editing it, writes that fail half way, a process that dies between two
writes, overlapping Report scopes, a dimension probe that reads the store while its own call holds the
lock. Of a push: each of its calls may fail, and another push runs meanwhile. Of the conversions:
every kind of node meets every other one, and two halves of the code written apart from each other
must agree - encoder and decoder, encoder and normalizer, reader and writer of attributes.

## 2. The modules

| Module | Models | Lines of |
|---|---|---|
| `AssetRecord` | the index as data: a record per content, `withID`, `mergeFrom`, `validRecord`, `reloadIndex` | `assets/record.go` |
| `AssetIndex` | the abstract index: one map, every change one operation on one record | |
| `FSStore` | the store: clients run the operations step by step over disk, memories, blobs, folders and locks | `assets/assets.go`, `prune.go`, `meta.go`, `catalog.go` |
| `UploadSync` | pushes: hooks, worklists, uploads, associations, encodes, over layers seen through a scope | `sync.go`, `pendingrefs.go`, `layered.go`, `scope.go`, `pipeline.go` |
| `Nodes` | the two trees and what a conversion answers | `ast/ast.go`, `adf/nodes.go` |
| `DialectEncode`, `DialectDecode` | the directives of the dialect: to ADF, and from ADF or a parsed page | `dialect/` |
| `AstToAdf` | ToADF | `convert/ast_to_adf.go`, `footnote.go`, `linkref.go` |
| `SpanRuns`, `Spanning` | flat marks: what code shed is inferred, how far each reaches; nodes nested by them | `convert/spanning.go` |
| `AdfToAst` | FromADF | `convert/adf_to_ast.go`, `table_carry.go` |
| `Normalize` | Normalize and NormalizeFormat | `convert/normalize.go` |
| `TableAlign` | one table: where its cells stand, its columns' alignments as marks of blocks and back | `adf/tablealign.go` |
| `Documents` | passes over a finished document: blanks, the tables in it, wire safety | `adf/transforms.go`, `tablealign.go`, `wire.go` |
| `WireAttrs` | the attributes of one node or mark in the JSON codec: the fields of each kind, what they hold, what is kept beside them, what is written | `adf/decode.go`, `encode.go`, `node_attrs.go`, `mark_attrs.go`, `wire.go` |
| `Wire` | the codec over whole documents, and the strip: a document that is read, stripped and written again | `adf/decode.go`, `encode.go`, `slots.go`, `wire.go` |
| `Macros`, `Confluence` | macro directives; anchors, tasks, legacy content, the repair of a read-back, and the product's own rendition | `confluence/` |
| `Jira`, `Products` | issue keys; the passes around a conversion for each product | `jira/`, facade |
| `Readings` | what a reader finds in either tree, read without the converters; the properties are stated with it | |
| `Conversion` | a page going back and forth: the modules above composed | |
| `MCFSStore`, `MCUploadSync`, `MCConversion` | the instances for TLC | |
| `Numbers` | lemmas that stand in for induction over numbers | |
| `FSStoreProofs`, `ContentProofs` | the theorems about `FSStore`: types, locks and associations; the index, what is forgotten, stored and answered | |
| `PushSteps`, `UploadSyncProofs` | what the operators of `UploadSync` return, its types and where each step leads; the theorems | |
| `WireProofs` | the theorems about `WireAttrs` and `Wire` | |
| `TableAlignProofs` | the theorems about `TableAlign` | |
| `SpanProofs` | the theorems about `SpanRuns` | |

`UploadSync` stands on `FSStore` by its promises: a layer there is its files, and the ids and names its index
records. A call of a layer is one step, since inside it holds the lock, or reads and makes a file where
there is none.

### FSStore

| Variable | Code |
|---|---|
| `disk` | `index.json`; a missing file is the empty index |
| `mem[i]` | `FSStore.records` of instance `i` |
| `blob[<<h, e>>]` | the file `<hash>.<ext>` of the blob directory: absent, half written, whole |
| `friendly[f][n]` | the file `n` of folder `f`: a link to a blob, a plain file, nothing |
| `lock[p]` | the mutex `indexLocks` holds for the index in process `p` |
| `reports[i]` | `FSStore.reports`; a counter in the code, here the set of its increments |
| `depth[c]` | how many scopes goroutine `c` is inside |
| `pc[c]`, `call[c]`, `todo[c]` | where `c` is, the arguments and locals of its call, the ids or entries it has left to visit |

A content and its hash are one value. A media id is its case-folded key, and an id belongs to a
record with a scope. `Torn` is what a half-written file reads as.

### Steps

One action is a stretch of code that no other caller can see inside: taking the lock with the
reload, each change of one file, the probe of one file, the release.

| Operation | Actions |
|---|---|
| Add, Put | `BeginAdd`, `CreateBlob`, `FillBlob`, `ChooseFriendly`, `LinkFriendly`, `Save`, then the dimension probe under the lock: `ReadPath`, `RestorePath`, `RereadPath` |
| SetMeta | `BeginSetMeta`, `Save` |
| Forget | `BeginForget`, then for each name `CheckFriendly` and `UnlinkFriendly`, `RemoveBlob`, `EraseRecord` |
| Resolve, Assets | `BeginResolve` or `BeginAssets`, then for each file `ProbeAsset`, `CreateAsset`, and the dimension probe |
| Load (also Dims, HashOf) | `ReadPath`, `RestorePath`, `RereadPath` |
| Lookup | the same, then `Inspect` |
| Associate | the same, then Add of what was read |
| Pending | `BeginPending`, `ListFolder`, `ReadPath` for each entry |
| Meta, MetaHashes, NameOf, Records | `Inspect` |
| Report | `EnterReport`, `ExitReport` around any calls |
| a file operation that fails | the `...Fails` actions, enabled by `IOFailures` |
| death of a process, a new instance | `Crash`, `Reopen`, enabled by `Crashes` |
| people | `UserAdds`, `UserRemoves`, each enabled by `UserEdits` |

### Abstractions

- Stat and create of a blob are one step, as are Lstat and the read of a file, and the checks of
  `blobForName` with those of `materialize`. The lock covers the first within one process; in the
  gaps of the others nothing is overwritten or removed.
- The record of an Add is put into memory at `Save`; the code does it a few lines earlier under the
  same lock. A failed save (`SaveFails`) leaves it there, as the code does.
- Names come as `sanitizeName` leaves them. `ValidNames` are those `validRecord` accepts.
- `Makes` says what creating a friendly file can leave: a link, a plain copy, or, with both, either.
- The names `createFriendly` tries are a finite list, `Candidates`.
- `blobFiles` keeps the last file that `ReadDir` lists for a hash; extensions are numbered in that order.
- Left out: the size cap, references into subdirectories, links planted from outside, failures of
  `MkdirAll`, the temporary file of `saveIndex` (its rename is the write), image decoding.

### UploadSync

| Variable | Code |
|---|---|
| `file[l][p]` | the file layer `l` has at path `p`, if any |
| `ids[i][h][k]` | the scope under which index `i` records id `k` for content `h` |
| `name[i][h]`, `saved[i][h]` | the name in the record of `h`, in memory and in the index file |
| `uploaded[k]` | the content the product minted id `k` for |
| `pc[c]`, `job[c]` | where a push stands, and the locals of its calls |
| `edits`, `pushes` | counters for the bounds |

A document is the sequence of its nodes that name a file. `Push` is EnsureUploaded, MarkdownToADF or
MarkdownToADFAll; `RunHook` is fireHooks; `ListLayer` is `LayeredStore.Pending` layer by layer;
`CheckReadable` and `CheckHeld` are PendingRefs; `LoadPath`, `Upload`, `RouteAssociate`, `ReadAssociate`,
`AddAssociate` are uploadPaths, with a step at each place where another caller or a person can come in
between; `Encode` is ToADF, of which only the lookups matter here. The uploader may take any part of
its batch and fail as well.

A person may remove any file. What reads by path (`Load`, `Lookup`) puts a file back when exactly one record
of the index carries its name (`Backup`, `Restored`), as `repairFriendly` does; what lists the folder
(`Unsent`) sees only the files it has. The name a record gets is the base name of the path or the one it
has already (`NamesFor`); a name with a suffix is one value, `Suffixed`, which is no path of the instance. A
failed save leaves `saved` as it was, and then nothing is put back.

### Conversion

| Variable | Code |
|---|---|
| `options` | what the caller configured: ids and files of assets, link rules, the product and its switches |
| `page` | the Markdown tree |
| `doc` | the content of the ADF document |
| `log` | what the last conversion reported |
| `saved` | what Confluence holds of a saved page: its rendition, and the links of its storage form |
| `json`, `typed`, `stage`, `reported` | those of `Wire`: a document as JSON, the nodes it was decoded to, what was done last with it, what the decoder reported |
| `at`, `parts`, `rounds` | what happened last; counters for the bounds |

A page is written passage by passage (`Write`, `Enclose`) or a document received block by block
(`Receive`), so that any two shapes of content meet. `Push` and `Pull` are the conversions with all
passes of the product, as `MarkdownToADF` and `ADFToMarkdown` run them once the text is parsed; `Save` and
`Fetch` stand for Confluence and the repair of what it answers; `Canonicalize` is either leg of the
normalizer. The conversions themselves are pure: they are operators that answer a result and a log.

The codec is a specification of its own, `Wire`, which `Conversion` takes in as what happens while no
page is written: `Arrive`, `ReadWire`, `StripWire`, `WriteWire`. There a document is a function from
places to nodes, a place being the way to a node from the top; the content of a node is what stands
directly below it. In this form neither reading nor writing recurses, and both can be proved about.

What is abstracted: a text is a sequence of words (a blank and a line break are words of their own); an
address, an id, a colour is one value; attributes that are copied from one side to the other and
influence nothing are left out (local ids, collection names, sizes of pictures that are not
configured); of diagnostics the code and what they are about are kept. In `Wire` a value is its JSON
type and one text; empty arrays of children, marks and attributes stand for none; what a node holds
besides type, text, attributes, marks and content is left out, as are entries that are no objects.
Where the code sorts the names it reports, the model takes any order.

## 3. The runs

The `store_` runs are instances of `MCFSStore`, the `push` runs of `MCUploadSync`, the `trees` runs of
`MCConversion`.

| Run | Instance | Shows |
|---|---|---|
| `store_index` | 2 goroutines on 2 instances over 1 folder in 1 process; 1 content, 1 name, 2 ids, 1 namespace; Add, Forget, SetMeta, Load; links and copies; failures and crashes; people put files into the folder and take none away | `TypeOK`, `LockHeldByACall`, `WriterKnowsTheDisk`, `NoAssociationLost`, `FriendlyFilesKept` |
| `store_folder` | 2 goroutines on 1 instance; 2 contents, 2 names; Add, Forget, Load; Report scopes; people edit | `ReportIsReadOnly`, `RefinesIndex`, `SavedContentIsWhole`, `ForgetLeavesNoContent` |
| `store_answers` | 3 goroutines on 1 instance, alike (symmetry); the same contents and names; Add, Forget, Resolve; links | `AnswersItsContent` |
| `store_calls` | all 11 operations, 1 content, 1 name, 2 goroutines on 1 instance, links and copies, fairness | `CallsReturn` |
| `store_stale` | 2 instances; Add, SetMeta, queries | `DeletedStaysDeleted` violated |
| `store_swap` | 1 goroutine; people take a link away and put a file there | `PlainFilesKept` violated |
| `store_dotted` | names the vetting refuses | `NoAssociationLost` violated |
| `store_retry` | failing writes and retries | `SavedContentIsWhole` violated |
| `push` | 1 pusher, 2 layers with an index each, 3 paths (one below a folder, with the name of another), 2 contents, 3 ids, 2 containers and none; a single document or a batch, an upload hook and another one; uploads, saves and hooks fail; a person writes or removes a file once; contents and containers are alike (symmetry) | `IdsNameTheirUpload`, `EveryPictureGetsItsId`, `BatchIsAllOrNothing`, `NoUploadForgotten`, `NothingUploadedTwice`, `WorklistsAgree` |
| `push_pair` | 2 pushers of 2 containers sync the same folder, over 2 layers of one index; listing and saving fail; fairness | `EncodesOwnContainer`, `PushesEnd` |
| `trees_repair` | the same pages | `BothRepairsKept` violated |
| `trees` | 3 products; up to 2 of the passages, containers, blocks or arriving documents of `MCConversion`; 5 conversions | the properties of `Conversion`, below |

**Bounds.** Two goroutines give every race between a pair of calls, and each may call without end.
`store_answers` has a third: a reader with an old copy of the index, a Forget and a second reader
make a race that no two of them have (below, under what the properties leave out). Assets takes
the same steps as Resolve and is in `store_calls`; the theorem `AnswersAreRight` covers both, and
copies as well as links.
Two ids on one content are what a merge can lose. Two names over two contents give a suffixed name,
an adopted file and an occupied path. `SuffixBound` cuts off states in which both names are taken
by other contents, where the code would count on to a third; in a mutation that has come this far
nothing differs but the name. The run with failures has one content because a failure acts on the
content of its own call only. `store_calls` needs no failures: a failed step returns at once
(`LockHeldByACall` is checked with them).

**Deadlock** is checked in every run of the store, which as a whole never stops. Pushes and conversions end:
`MaxPushes` and `MaxRounds` are their bounds.

**Fairness** (`store_calls`). `WF(Proceed(c))`: a goroutine inside a call is scheduled. `SF(Acquire(c))`:
a waiter for a `sync.Mutex` gets it although others take it in between, since after a millisecond the
mutex is handed to the longest waiter. Callers are never forced to call.
(`push_pair`) `WF(Call(c))`: a goroutine inside a push is scheduled, and the product answers an upload, with
ids or with an error. A push waits for nothing else: the calls of the store return, which `CallsReturn` says.

### The properties of Conversion

| Property | Says | Hazard |
|---|---|---|
| `EveryDestinationKeptOrReported` | a link or picture arrives as mark, card or file, or is reported | which of three fallbacks takes a link along |
| `FootnotesAgree` | a reference's number is the place of its definition | definitions nested, given twice, referred to by other notes |
| `EveryWordKept`, `MarksSurvive`, `NoMergeableText` | no word lost, none loses a mark, what was one text is one | flattening, fallbacks and regrouping of marks |
| `WidthsFollowColumns`, `TableRowsFull` | columns of a table past cells that span | one column off moves all after it |
| `Settles` | from the third conversion on nothing changes | two halves that are not each other's inverse |
| `NormalizeChangesNoDocument`, `CanonicalFormSettles`, `FormatKeepsWhatWasWritten`, `DirectivesReadBack` | a canonical form encodes alike, is its own, loses nothing, reads back | the normalizer repeats the encoder's decisions in code of its own |
| `WireSafe`, `AnchorsSurvive`, `AlignmentReturns` | a product gets nothing it refuses, and still gives back what that stood for | lowering and lifting, at every depth |
| `TaskWordsStayApart`, `ReadBackIsNoEdit`, `WrappersOpen` | saving joins no words; a saved page shows no edit, if texts tell pages apart; wrapped content is read | the product rewrites what it saves |
| `WireKeepsEverything` | a document decoded is encoded as it was, less what is cut and reported; stripped, less what no product takes | reader and writer of attributes are two lists |

**Bounds of `trees`.** Two parts suffice for what neighbours and containers do to each other; each passage and
block is there for a branch of the converters, and the list of a product holds the ones its passes look
at. `MaxRounds` 5 is one more than the four conversions after which every page must have settled.
`MaxDecodeDepth` 3 stands for 1024: the code compares a depth with it and does nothing else. Of legacy
wrappers a block has nine, one more than the code opens. `EncodesOwnContainer` is checked where two
containers meet, in `push_pair`.

**What the properties leave out, and why.** Where the code does something else on purpose or unawares,
the property says so and names the shape; the list is what a reader of the code should know of.

- While a Forget is between the unlinking of a file and the erasing of its record, Resolve may
  answer that record with another content's file: a reader that looked at the index before an
  earlier Forget makes its own link at the name that has become free.
- A path that two layers reach would be listed by one of them and read from the other; then content might be
  sent twice. No instance has one: a store refuses each path outside its own folder (`refToFull`,
  `assets.go`, lines 284-297), so it takes two stores over one folder.
- A picture whose content lies in a layer with another index as well may be sent without an id;
  `EveryPictureGetsItsId` names the case (`Doubled`). It is about pictures whose file was
  there at the start, or was put back while the push looked for what to upload.
- The worklist of a folder lacks a recorded file that is gone, which that of a document has.
  `WorklistsAgree` says that this is the one difference, and that it ends when any call reads the path.
- A page and its canonical form encode differently (against the comment of `normalize.go`, lines 35-38)
  for an emoji that is a character, a card whose label has several parts, a multi-bodied extension with
  content between its frames, a picture alone under marks, an expand with a blank label, a task whose
  blocks all vanish, definitions inside a dropped container.
- The format leg loses the destination of a link around a mention or status alone, an attribute when two
  neighbouring underline directives are joined, an extension without a key, a caption's code blocks.
- Two footnote references side by side become one superscript, `12`.
- A wrapper chain of more than eight levels opens by eight with each pull.
- Jira's expansion of issue keys takes the marks of the text around a key along.
- Links and titles of a read-back page are paired by text alone. A link to a page that Confluence does not know
  may get the slug of another one, and `ReadBackIsNoEdit` is about pages where no two meet like that.
- Confluence turns a block task whose blocks are paragraphs into a line; an anchor it names twice comes
  back with its second name.
- A file that a person edits between the upload and its recording is recorded with an id of its old
  content.
- The strip looks at typed fields: an attribute of the library's own that has another type than its field
  stays on the wire.

### The violations

They are disagreements between a comment and the code, quoted under
`findings` in `PROJECT.json`:

- *Deletions.* `mergeFrom` fills gaps and removes nothing: what instance A deleted, instance B still
  holds in memory and writes back. The comment argues from one instance.
- *Dotted names.* `a..b.png` passes `sanitizeName` and is refused by `validRecord`: another
  instance cannot see the record and its next save drops it.
- *Swapped files.* Forget looks whether a name is its link and removes it a call later. A person who takes
  the link away and puts a file there in between loses the file, which the comment on `forgetFriendly`
  says it keeps. While people only add files, none is lost: they cannot write where a link lies.
- *Two repairs.* `restorePageSlugs` writes the marks it read over those `restoreCodeMarks` has just set: a link
  that gets a slug loses its code mark again.
- *Torn blobs.* A write that fails half way leaves a file that the retry takes for the content.

Four more comments say what the code does not do. The models contain it; the properties below, or the constants
of their runs, leave the case out:

- *Two extensions* (`assets.go`, lines 687-689: one blob per content). The blob's name holds the extension of the
  suggested name, so equal content under `a.png` and `a.jpg` is stored twice, and `Forget` removes one of the
  blobs. With names of two extensions in `store_folder`, `ForgetLeavesNoContent` fails.
- *Split layout* (`assets.go`, lines 227-229: every view renders an asset). `assetOf` takes any readable file at the
  recorded name. With two instances over two folders in `store_answers`, `AnswersItsContent` fails: a folder
  that keeps other content under that name gets it as the answer.
- *Duplicates in a stack* (`sync.go`, lines 64-66: every duplicate path gets the id). uploadPaths sends equal contents
  once and records the id where the first of the paths is read. Where the other lies in a layer with an index
  of its own, no lookup finds it: the push reports success and the picture has no id. `EveryPictureGetsItsId`
  fails in `push` without `Doubled`.
- *Gone files* (`pendingrefs.go`, lines 11-12: the worklists agree in a listed folder). Of a recorded picture whose
  file was removed, PendingRefs says that another container needs it and Pending says nothing, as the
  comment of Pending has it. `WorklistsAgree` fails in `push` if it says that the two are equal.

`AnswersItsContent` and `SavedContentIsWhole` hold in runs without the split layout and without
failures, and say there what the code does achieve: races of Add, Forget and reads on one instance
never mix contents up.

## 4. The proofs

The theorems hold for any finite or infinite sets of goroutines, instances, processes, folders,
contents and names, for any pushers, layers, documents and hooks, and for any switches that their
assumptions leave open. Of the module's own assumptions only `PushAssumption` bounds something: paths
and ids of a push are finite sets. All safety properties of `FSStore` and `UploadSync` that a run
passes are among them.

### FSStore

| Theorem | Assumption beyond those of the module | States |
|---|---|---|
| `TypeCorrect` | - | `TypeOK` |
| `NoLockLeftBehind` | - | `LockHeldByACall` |
| `FolderFilesSurvive` | one process; nobody takes files out of the folder | `FriendlyFilesKept` |
| `ReportsOnlyRead` | - | `ReportIsReadOnly` |
| `MutationsKnowTheDisk`, `AssociationsLast` | one process; names the vetting accepts | `WriterKnowsTheDisk`, `NoAssociationLost` |
| `ForgottenWithItsContent` | the same | `ForgetLeavesNoContent`, as long as no content has two blobs |
| `ForgottenWithOneExtension` | the same; one extension | `ForgetLeavesNoContent` |
| `IndexIsAMap` | one instance; writes succeed; names accepted, if a process may die | `RefinesIndex` |
| `DeletedForGood` | the same | `DeletedStaysDeleted` |
| `RecordedWhole` | one process, that does not die; writes succeed | `SavedContentIsWhole` |
| `AnswersAreRight` | one instance, that does not die; writes succeed; nobody edits the folder | `AnswersItsContent` |

Each assumption is there because the property fails without it:

- *One process.* The comment on FSStore leaves several processes to the last write.
- *Accepted names.* `store_dotted`: a record whose name is refused drops out of the index.
- *One instance.* `store_stale` for deletions; the split layout for answers, where two instances have two folders.
- *One blob per content.* With two extensions, Forget removes one of two blobs and then the record.
- *Writes succeed, no process dies.* `store_retry`: half a blob is taken for the content. A failed save
  leaves memory ahead of the disk, so a later save of another record changes two; a Forget that dies or
  fails after it unlinked a file leaves a record without one, and the free name is for others to take.
- *Nobody takes files away.* `store_swap`: what replaces a link that Forget has looked at is removed.
- *No hand in the folder.* Who puts another file at a recorded name gets it answered.

**Types and locks.** `IInv` has three parts. `Control` types the places, calls and locks, says that a
lock is held only from inside a mutation or its probe, and that each client stands at a place its
operation has (`Placed`): in a mutation it holds its lock. `Data` types the rest. `RecordBehindSetMeta`
says that the record a SetMeta is about to change is still in memory; without it the update would be of
no record, and typing would fail at `Save`. It is inductive only with the lock: another client of the
same instance could otherwise erase the record. The frame lemmas (`OthersStay`, `MemoryFrame`,
`MutationFrame`, `DiskFrame`, `FolderFrame`, `ScopeFrame`, `BlobFrame`) say once which actions touch
which variable; `Arrivals` and `Departures` say by which steps a mutation gets to a place and leaves it.

**Associations.** `MutationsKnowTheDisk` adds `MemoryCoversDisk` (every id on disk is in the memory of
each client that is inside a mutation). It starts to hold with the reload, since a merge keeps the ids of
both sides, and it stays because nobody without the lock writes the index. `AssociationsLast` follows:
a save writes a memory that covers the disk. `ReportsOnlyRead` adds `ScopesCounted`: a client of depth
`d` has its `d` increments in the set, so its instance is reporting whenever it is inside a
scope, and the creating steps are disabled.

**The index as a map.** `IndexInMemory` says that the instance holds what is on disk, between any two
steps. A reload then merges a map with itself, and a save or an erasure writes the map with
one record changed: `StepIsOneOperation` reads the operation of `AssetIndex` off each step, and all other
steps stutter. `DeletedForGood` follows from the same invariant.

**The folder.** `DropsItsLink` says that what a Forget has found to be its link still is when it removes it. Another
call cannot have taken it away, for only a Forget removes files and it would hold the same lock
(`OneMutator`), and a name that is taken is not written to by anyone.

**Forgetting.** `ForgetsAll(c)`: a mutation knows every record on disk, a Forget the one blob of its content,
and at its last step that blob is gone. It rests on the one blob per content, since the code removes the one it
finds, and on the lock, under which nobody puts one back.

**Storing and answering.** `Stores` follows an Add: the names tried share the extension of the suggested one, so
the friendly name that is settled on leads to the blob that was written (`ChosenLeadsHome`), and a blob is
torn only while its writer is between creating and filling it. `Showing` says that a record of the index has
its file in the folder, unless a Forget has begun to take both away, and that an Add about to record has made
the file. Removing one content's file cannot take another's, because Forget unlinks only the link to its own
blob; and a reader creates a file only where there is none. The record an answer is for therefore has
its file when the answer is given, however long ago the reader looked at the index.

### UploadSync

| Theorem | Assumption | States |
|---|---|---|
| `PushTypeCorrect` | - | `TypeOK` |
| `AllOrNothing` | - | `BatchIsAllOrNothing` |
| `UploadsRemembered` | - | `NoUploadForgotten` |
| `OwnContainer` | - | `EncodesOwnContainer` |
| `RecordedForGood` | - | no push takes an association back or moves it to another container |
| `IdsFaithful` | no path in reach of two layers (the property is about states before the first edit) | `IdsNameTheirUpload` |
| `SentOnce` | one pusher; no path in reach of two layers | `NothingUploadedTwice` |
| `PicturesCovered` | no path in reach of two layers; an upload hook, unless all pushes sync first | `EveryPictureGetsItsId` |
| `WorklistsOneTruth` | no path in reach of two layers | `WorklistsAgree` |

Two pushers of one container do upload the same picture twice: nothing is locked between the listing
and the recording. That no path is in reach of two layers is what `refToFull` gives any two stores with
folders of their own. Layers may share an index or have one each, and people may remove what they like.

**Steps.** `PushSteps` first says what the operators answer: the layer a path is read from, the id a lookup finds
(one exactly if some id of the content is visible to the scope), the worklists of the folder and of documents,
grouping a listing by content. `Placed(l, j)` says what the locals of a call are at each
place; for each action a lemma says to which places it leads and what it keeps (`Moves`, `Quiet`), so the later
proofs never open an action that does not concern them. `Typed /\ Control` is inductive and gives
`AllOrNothing` at once.

**Files that come back.** A read may put a file back, so a step that writes nothing still moves files. `Firm(p)` says
that some layer has the file; of such a path a read is the file and changes nothing (`FirmReads`), and it stays
firm and the same until people edit (`FirmSteady`). `Finds` is the invariant that makes this usable: unless
somebody has edited since a call began, every path it has found, listed, loaded or uploaded is firm
(`Handled`). What a push sees is then one folder from its first read on, though files returned meanwhile.

**Ids.** `Provenance`: an id stands in an index only under the scope of the push it was minted for, no two
pushes were given the same, and one not yet minted stands nowhere. `Remembered`: an id a push was given is
recorded, still among its results, or has failed with the error set. `SentToOwn`: an id that was encoded is
recorded for the container or for all. They are one induction, `Inv`, since that an id is recorded at
most once needs all of its history; `RecordedStays` is its lemma. `Faithful` adds, while nobody edits, that what a
call has read of a file is what it holds.

**Pictures.** `SendsNew` follows the listing through to the upload: each path in the worklists is new to the scope,
and no two entries of a batch have the same content. Associations one by one must not make the rest old, which
is where the different contents come in. `Covered` is the converse: `OnTheWay` says for each place that every
path the call undertook to upload has its answer or is still ahead (unlisted, in the batch, among the results).
An answer (`Answered`) is an id or a duplicate in a layer with another index; it stays one through every read
and every record (`AnsweredStays`), and `AddAnswers` says that recording the one upload of a content answers
for all paths that have it.

**Worklists.** `WorklistsOneTruth` needs no history but `Finds`: a listed file is read as itself, since no other layer
reaches its path; a path that only the documents offer is read from `Backup`, so it is not firm, and then no
call can have found it since the last edit.

### The JSON codec

The theorems hold for any documents (of any shape, depth and number of nodes), with any attributes of any
values, for any depth limit, and for any reading of the numbers that are no integers (`IntPart`). The first
three are about the attributes of one node or mark, the others about the codec of `Wire`.

| Theorem | States |
|---|---|
| `NodeAttrsKept` | a node of any kind, known or not, is encoded with exactly the attributes it was decoded from |
| `MarkAttrsKept` | the same of a mark |
| `StripTakesItsOwn` | stripped in between, it lacks the one attribute of its kind that no product takes, unless the field of that attribute could not hold it |
| `DocumentsKept` | `WireKeepsEverything`: a document is encoded as it was decoded, cut at the depth that is read; that something was cut is reported just when it was; stripped in between, it lacks its hints and synthetic attributes and nothing else |
| `StrippedIsSafe` | no hint, no synthetic attribute and no orphaned node is left after a strip, as the comment of `StripSynthetic` promises |

Two facts carry the first three. `NodesCovered` and `MarksCovered`: the encoder's list of each kind has every field the
decoder has, kind by kind, for in the code these are functions written apart. `ReadSplits`: each attribute
is exactly in its field or kept beside it, so that what is kept may win over the fields (`WrittenAsRead`). A field
that a zero keeps off the wire never held that zero exactly.

Of a document, `IInv` says that it is one at every stage (every node has its parent) and that what is typed
is what its JSON decodes to, stripped or not; it is needed since an encoding is compared with the JSON
of an earlier step. The proof that nodes arrive where they were is that of `AboveHasContent` and
`SlotForContent`: a node above another has content, and a node that has content is decoded to one that can
hold it, raw if its kind cannot, so no place is cut off on the way back (`Reached`). The strip drops whole
subtrees, which leaves a document again (`SendableIsDocument`).

### The alignment of table columns

A product aligns blocks, not columns. `LowerTable` gives the mark of a column to the blocks in its cells before a
page is sent; `LiftTable` lets the blocks of a column vote when it comes back. The theorems hold for tables
of any number of rows, cells and blocks, with any marks and any spans; that a span is a number (`IsGrid`) is
needed where columns are counted.

| Theorem | Assumption | States |
|---|---|---|
| `AlignmentComesBack` | the author aligned the column to the center or the right; a block in it can say so, and none of them has a mark of its own | its alignment is read again, and its blocks come back as they were |
| `NoAlignmentLost` | a table of a product; a block with an alignment mark | read and sent again, the block says what it said, whatever the others say |
| `SameColumnsAgain` | a table of a product | read, sent and read again, the same columns have the same alignments |
| `TableSettles` | the same; no alignment mark is empty | what was read and sent once is read and sent again as it is |
| `CellsSideBySide` | - | a cell begins where the one before it in its row ended, or further on |
| `CellsBelowASpan` | no cell of the rows in between lies on the column | no cell begins on a column that a cell above still spans |
| `CellsKeepApart` | all cells one column wide | no two cells stand on one place |

`AlignmentComesBack` is the table part of `AlignmentReturns`, which `trees` checks on whole pages.

- *Center or right.* The left is where text stands without a mark, and is never read back.
- *Once more.* A block without a mark in a column that won an alignment gets one when the page is sent, and so does
  a wide cell whose columns agree. So a table of a product may be sent differently than it was received, once;
  `TableSettles` says that it is no more than once.
- *No empty mark.* `blockAlignMark` takes the first mark that says something, and `markCellBlocks` appends one
  where it finds none. An empty mark in front of an appended one is then read over but taken away with it.
- *One column wide.* A wide cell may reach onto a column that a cell above it holds, since the code looks for a free
  column only where the cell begins. It then takes the column over, and a later row may begin a cell there.

`Lowered` and `Lifted` say block by block what the two passes do; that they move no cell is `SameColumns`. The heart is
`WinnerStays`: when some voters change over to the winner, the winner stays the same, also where a tie was
decided by who stood first. `ColumnWon` and `ColumnsSettle` bring it to the columns, `RoundTrip` to the blocks.

Where a cell stands is defined row by row and cell by cell. `StepByStep` gives such a definition its values, once for
all, and `AllSteps` carries a fact along it; the induction underneath is that a set of numbers has a least
element (`Least`; all in `Numbers`). `Put` says what one cell does to the columns it lies on, `HeldInRow` and `LeftInRow` what a
row does, `HeldAfter` what is left of a cell's rows after any number of them.

### The runs of flat marks

ADF's code mark excludes the others, so code inside emphasis arrives without it. `InferAcrossCode` gives it back from
the items around it, first from the ones that follow, then from the ones that precede; `GroupSpans` then nests
nodes by the marks. The theorems hold for any number of items with any of the three nesting marks, where no item is
both code and a break (`IsItems`; both converters build them so).

| Theorem | Assumption | States |
|---|---|---|
| `MarksComeFromNeighbours` | - | an item keeps its marks or, having had none, takes exactly those of one item that is no code; between the two there is only unmarked code - or, forward and if the inference is lax, unmarked text; nothing but marks changes |
| `InferenceSettles` | - | inferring again, lax or not, changes nothing |
| `WidestIsOpened` | the open marks are some but not all of the first item's | the mark that is opened was not open; all items under it carry it and the open ones, the next one does not; no other mark reaches further |

A break, a marked item and the end of the run stop an inference, so no marks leave the construct they were read from,
and those of two sources are never mixed on one item. `WidestIsOpened` is also why `GroupSpans` ends: a call inside has
one mark less to open and only items that carry the open ones, and the loop moves on by at least one item.

Each pass hands marks on while it goes along the items, so it reads what it has written. `Inferred` says after every
step where each item's marks come from in the run as it was; the first pass must leave items that are no code alone
(`WhoseMarks`), or marks could be handed back twice and cross an item. `SettledBehind` and `SettledAhead` say
that a step leaves nothing to infer up to where the pass has come, and that the second pass gives the first no new
work: of the items that gain marks in a step only the first follows one that gains none, and that one is the item
the marks come from, no bare code.

**Only model-checked.**

- `CallsReturn` and `PushesEnd`: liveness under fairness is out of the prover's reach, and so is the
  `ENABLED` in `SuffixBound`.
- The properties of `Conversion` but for `WireKeepsEverything` and, for one table, `AlignmentReturns`. The converters
  recurse over trees, whose nodes they replace by any number of others, so that a place in one tree is none in the
  other and the form of `Wire` does not help. The prover can do neither recursive operators nor
  induction over trees: the induction theorems take an operator, and the least element does only for numbers.

## 5. Not modelled

- Text. Parsing and rendering of Markdown (`markdown/`, `extension/`), of front matter and of attribute
  lists work character by character: wrapping, flanking, escapes, the literal forms of URLs. A model whose
  texts are words has nothing to say about them, and one that spells texts out would be the program
  again. Their tests and fuzzers are the right tool.
- `dialect/emoji_map.go` is a generated table.
- `wasm/`, `debug/`, `skill/`, generators: bindings, printing, documentation.
- Of the store: size caps, subdirectories, planted links, image decoding, the forwarding of metadata and
  catalogue calls through layers, the rewriting of references in text.
- Several processes over one index beyond crash and reopening: the store's comment says the last write
  wins.

## 6. The plan

The cells that `AdfToAst` appends to short rows, as recursive functions, as the columns of cells are: that every row of
a table it returns is as wide as the widest (`TableRowsFull`, for one table). Then `GroupSpans` itself: a call makes
its nodes from those of shorter runs, so its words are the words of the run; this is an induction over the
length of a run, as `AllSteps` is, but of a recursive operator.
