\* Four pages and two requests that move, delete and create; a table of two
\* columns with two updates at a time; a changelog entry of two issues; a zip of
\* three files under two folders; two requests that use two saved templates and
\* the code's own; an export of four children, two a batch;
\* two words, one of them ASCII, in documents of two blocks.
SPECIFICATION MCSpec
CONSTANTS
    NoPage = NoPage
    Page = {p1, p2, p3, p4}
    Request = {r1, r2}
    MaxDepth = 2
    MaxMoves = 2
    MaxFailures = 1
    Column = {"a", "b"}
    Editor = {r1, r2}
    Written <- WrittenValues
    Filter <- SentFilters
    SortColumn = {"a"}
    MaxColumns = 1
    MaxRows = 3
    MaxOps = 4
    Issue = {r1, r2}
    Caller = {c1}
    MaxAsked = 2
    MaxEntries = 1
    MaxChanges = 1
    MaxMisses = 1
    File = {"f1", "f2", "f3"}
    Folders <- TwoFolders
    FolderOf <- FoldersAbove
    StackLimit = 2
    MaxFaults = 1
    MaxDeletes = 1
    Custom = {r1, r2}
    Builtin = builtin
    User = {r1, r2}
    MaxUses = 3
    MaxMishaps = 2
    Child = {p1, p2, p3, p4}
    childBatch = 2
    MaxPosition = 1
    MaxPages = 4
    MaxUpsets = 4
    Word = {"u", "v"}
    Ascii = {"u"}
SYMMETRY Symmetry
INVARIANTS TreeIsAForest DepthsAreTrue TablesKept BadgeMatchesBody MintsAreCounted
    ExportHasEveryChild ConversionsKeepText
CHECK_DEADLOCK FALSE
