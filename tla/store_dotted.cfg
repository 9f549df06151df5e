\* A friendly name the vetting refuses, through two instances.
SPECIFICATION Spec
CONSTANTS
    c1 = c1 c2 = c2 c3 = c3 i1 = i1 i2 = i2 p1 = p1 f1 = f1
    n1 = n1 n2 = n2 h1 = h1 h2 = h2 torn = torn
    Scopes = {0}
    NSs = {ns}
    Vals = {v}
    NoRecord = NoRecord NoScope = NoScope NoVal = NoVal
    Nobody = Nobody NoFile = NoFile
    Torn = torn
    Hashes = {h1, h2, torn}
    Names = {n1, n2}
    ValidNames = {}
    Ids = {1}
    Insts = {i1, i2}
    Clients = {c1, c2}
    Procs = {p1}
    Folders = {f1}
    InstOf <- TwoInstances
    ProcOf <- OneProcess
    FolderOf <- OneFolder
    Exts = {1}
    ExtOf <- OneExt
    Candidates <- OneBase
    Suggested = {n1}
    Ops = {"Add"}
    MaxDepth = 0
    Makes = {"link"}
    IOFailures = FALSE
    Crashes = FALSE
    UserEdits = {}
PROPERTY NoAssociationLost
CONSTRAINT SuffixBound
