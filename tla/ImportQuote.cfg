\* Three files under two folders, everything else as small as it gets.
SPECIFICATION DocumentsSpec
CONSTANTS
    NoPage = NoPage
    Page = {p1}
    Request = {r1}
    MaxDepth = 2
    MaxMoves = 0
    MaxFailures = 0
    Column = {"a"}
    Editor = {r1}
    Written = {}
    Filter = {}
    SortColumn = {"a"}
    MaxColumns = 1
    MaxRows = 0
    MaxOps = 0
    Issue = {r1}
    Caller = {}
    MaxAsked = 1
    MaxEntries = 1
    MaxChanges = 0
    MaxMisses = 0
    File = {"f1", "f2", "f3"}
    Folders <- TwoFolders
    FolderOf <- FoldersAbove
    StackLimit = 3
    MaxFaults = 0
    MaxDeletes = 0
    Custom = {r1}
    Builtin = builtin
    User = {r1}
    MaxUses = 0
    MaxMishaps = 0
    Child = {p1}
    childBatch = 2
    MaxPosition = 1
    MaxPages = 2
    MaxUpsets = 0
INVARIANT NoFileAborts
CHECK_DEADLOCK FALSE
