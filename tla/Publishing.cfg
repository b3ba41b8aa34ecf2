SPECIFICATION PublishingSpec
CONSTANTS
    Member = {m1, m2}
    Handler = {h1, h2}
    MaxRequests = 2
    MaxDecisions = 3
    MaxPublishes = 1
    MaxFailures = 1
    Issue = {j1, j2}
    Saver = {r1, r2}
    Syncer = {s1}
    MaxEdits = 2
    MaxSpend = 1
    MaxMisses = 1
    Rows = 3
    MaxScore = 2
    MaxFetchFactor = 2
    MaxFetchRows = 3
    MaxLimit = 2
SYMMETRY Symmetry
INVARIANTS QuorumApproves NothingLeftOpen VerdictStands PageFollowsLatest
    LinksFollowContent WalkShowsEachOnce
PROPERTY NoWriteDown
CHECK_DEADLOCK FALSE
