\* Two processes at the outboxes of one endpoint and two members, two events and
\* two tries; four comments by two members in two requests; three connections of two
\* tabs; three changes over a text of three characters, of whose history two are kept;
\* two host names that two workspaces ask for in two requests.
SPECIFICATION Spec
CONSTANTS
    Hook = {h1}
    Msg = {e1, e2}
    Instance = {i1, i2}
    Backoff = 1
    MaxFailures = 1
    Member = {m1, m2}
    Postman = {i1, i2}
    MaxAttempts = 2
    MaxAsks = 1
    MaxTroubles = 1
    Author = {m1, m2}
    Request = {i1, i2}
    MaxComments = 4
    MaxOps = 3
    Sock = {"s1", "s2", "s3"}
    NoSock = "none"
    Tab = {"t1", "t2"}
    TabOf <- TabsOf
    Buffer = 2
    MaxFrames = 2
    Start = 3
    Width = 2
    HistoryCap = 2
    MaxCommits = 3
    Host = {i1, i2}
    Space = {m1, m2}
    Owner <- Apart
    Admin = {i1, i2}
    MaxDomains = 1
    MaxRows = 2
    MaxFlips = 2
SYMMETRY DeliverySymmetry
INVARIANTS EventsArrive MailLeavesOnce ListingAgreesWithStats TabsAreTold DomainsStand
CHECK_DEADLOCK FALSE
