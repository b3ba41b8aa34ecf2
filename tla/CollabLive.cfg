SPECIFICATION FairSpec
CONSTANTS
    k1 = k1
    k2 = k2
    m1 = m1
    m2 = m2
    c1 = c1
    c2 = c2
    NoMember = NoMember
    NoPage = NoPage
    NoConn = NoConn
    Tick = Tick
    Page = {p1}
    Member = {m1}
    Conn = {k1, k2}
    ClientId = {c1}
    ClientOf <- OneTabClient
    MemberOf <- OneTabMember
    MaxEdits = 2
    MaxFailures = 0
    MaxGateChanges = 1
    MaxRestarts = 0
INVARIANT SafeUnderOneClientId
PROPERTIES EventuallySaved IdleEventuallyReleased
CHECK_DEADLOCK FALSE
