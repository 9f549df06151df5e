\* Every operation, on one content, under fairness.
SPECIFICATION LiveSpec
CONSTANTS
    c1 = c1 c2 = c2 c3 = c3 i1 = i1 i2 = i2 p1 = p1 f1 = f1
    n1 = n1 n2 = n2 h1 = h1 h2 = h2 torn = torn
    Scopes = {0}
    NSs = {ns}
    Vals = {v}
    NoRecord = NoRecord NoScope = NoScope NoVal = NoVal
    Nobody = Nobody NoFile = NoFile
    Torn = torn
    Hashes = {h1, torn}
    Names = {n1}
    ValidNames = {n1}
    Ids = {1}
    Insts = {i1}
    Clients = {c1, c2}
    Procs = {p1}
    Folders = {f1}
    InstOf <- OneInstance
    ProcOf <- OneProcess
    FolderOf <- OneFolder
    Exts = {1}
    ExtOf <- OneExt
    Candidates <- OneName
    Suggested = {n1}
    Ops = {"Add", "Put", "SetMeta", "Forget", "Associate", "Inspect",
           "Resolve", "Assets", "Load", "Lookup", "Pending"}
    MaxDepth = 0
    Makes = {"link", "plain"}
    IOFailures = FALSE
    Crashes = FALSE
    UserEdits = {}
PROPERTIES CallsReturn

CONSTRAINT SuffixBound
