\* More workspaces with something waiting than one sweep takes.
SPECIFICATION SpendSpec
CONSTANTS
    Page = {p1}
    Sweeper = {s1}
    Payers = 2
    WorkspaceLimit = 1
    RequestLimit = 2
    MaxCalls = 2
    MaxSaves = 1
    MaxFaults = 1
PROPERTY EventuallyPriced
CHECK_DEADLOCK FALSE
