\* Two goroutines of one process, each on an instance of its own over one folder; writes fail, processes
\* crash, and people drop files into the folder.
SPECIFICATION Spec
CONSTANTS
    c1 = c1 c2 = c2 c3 = c3 i1 = i1 i2 = i2 p1 = p1 f1 = f1
    n1 = n1 n2 = n2 h1 = h1 h2 = h2 torn = torn
    Scopes = {0}
    NSs = {ns}
    Vals = {v}
    NoRecord = NoRecord NoScope = NoScope NoVal = NoVal
    Nobody = Nobody NoFile = NoFile
    Torn = torn
    Hashes = {h1, torn}
    Names = {n1}
    ValidNames = {n1}
    Ids = {1, 2}
    Insts = {i1, i2}
    Clients = {c1, c2}
    Procs = {p1}
    Folders = {f1}
    InstOf <- TwoInstances
    ProcOf <- OneProcess
    FolderOf <- OneFolder
    Exts = {1}
    ExtOf <- OneExt
    Candidates <- OneName
    Suggested = {n1}
    Ops = {"Add", "Forget", "SetMeta", "Load"}
    MaxDepth = 0
    Makes = {"link", "plain"}
    IOFailures = TRUE
    Crashes = TRUE
    UserEdits = {"adds"}
INVARIANTS TypeOK LockHeldByACall WriterKnowsTheDisk
CONSTRAINT SuffixBound
PROPERTIES NoAssociationLost FriendlyFilesKept
