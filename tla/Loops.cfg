\* Two calls of one page, billed to either of two Lens workspaces, and two
\* processes that sweep, one request of a workspace at a time; a sweep of the
\* rosters and a call of the service route; two pages saved three times and two
\* workers that embed; two processes of any of three builds that boot.
SPECIFICATION Spec
CONSTANTS
    Page = {p1}
    Sweeper = {s1, s2}
    Payers = 2
    WorkspaceLimit = 2
    RequestLimit = 1
    MaxCalls = 2
    MaxSaves = 1
    MaxFaults = 1
    Person = {q1, q2, q3}
    Loop = {l1}
    Nudge = {n1}
    PageLimit = 2
    MaxMoves = 2
    MaxMisses = 1
    Indexed = {p1, p2}
    Worker = {w1, w2}
    MaxTexts = 3
    MaxFailures = 1
    MaxRestarts = 1
    Process = {p1, p2}
    Nobody = Nobody
    Files <- Builds
    InitDB = "first"
    MaxCrashes = 2
INVARIANTS OwnCostOnce PagesAreIndexed SchemaIsServed
PROPERTIES TakenOrStopped EventuallyPriced NoneLostWhileListed RosterConverges
CHECK_DEADLOCK FALSE
