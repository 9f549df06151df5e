SPECIFICATION FairSpec
CONSTANTS
  c1 = c1
  c2 = c2
  sA = sA
  sB = sB
  u = u
  NoScope = NoScope
  NoFile = NoFile
  hA = hA
  hB = hB
  Pushers = {c1, c2}
  Views = {sA, sB}
  NLayers = 2
  IndexOf <- SharedIndex
  Reaches <- FlatLocalAndRoot
  Lists <- LocalAndRootListed
  NameOf <- SameName
  Paths = {1, 2}
  Hashes = {hA}
  Ids = {1, 2}
  Scopes = {sA, sB, u}
  Unscoped = u
  Batches <- TwoSpellings
  Kinds = {"sync"}
  Hooks <- JustUpload
  Faults = {"list", "save"}
  Edits = {}
  MaxPushes = 2
  MaxEdits = 1
INVARIANT EncodesOwnContainer
PROPERTY PushesEnd
CHECK_DEADLOCK FALSE
