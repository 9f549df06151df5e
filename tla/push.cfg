SPECIFICATION Spec
CONSTANTS
  c1 = c1
  c2 = c2
  sA = sA
  sB = sB
  u = u
  NoScope = NoScope
  NoFile = NoFile
  hA = hA
  hB = hB
  Pushers = {c1}
  Views = {sA, sB, u}
  NLayers = 2
  IndexOf <- OwnIndexes
  Reaches <- LocalAndRoot
  Lists <- LocalAndRootListed
  NameOf <- Named
  Paths = {1, 2, 3}
  Hashes = {hA, hB}
  Ids = {1, 2, 3}
  Scopes = {sA, sB, u}
  Unscoped = u
  Batches <- AllBatches
  Kinds = {"one", "all"}
  Hooks <- UploadFirst
  Faults = {"upload", "save", "hook"}
  Edits = {"write", "remove"}
  MaxPushes = 2
  MaxEdits = 1
INVARIANTS TypeOK IdsNameTheirUpload EveryPictureGetsItsId BatchIsAllOrNothing NoUploadForgotten NothingUploadedTwice WorklistsAgree
SYMMETRY Alike
CHECK_DEADLOCK FALSE
