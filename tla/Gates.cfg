SPECIFICATION Spec
CONSTANTS
    Member = {m}
    Stranger = stranger
    Team = {t}
    GrantLevels = {"view", "edit"}
    MaxChanges = 2
    MaxTroubles = 1
    Link = {l1, l2}
    Old = {l1}
    Page = {p1, p2}
    Key = {k1, k2}
    MaxClock = 1
    MaxVisits = 1
    MaxRestarts = 1
    Caller = {c1, c2, c3}
    Tenant = {w1}
    Rate = 1
    Burst = 2
    Idle = 2
    Life = 4
    Skew = 2
    MaxTicks = 5
    MaxRefusals = 1
INVARIANTS DecidedByRule ShownWhileItStands AdmittedWithinRate
PROPERTY OneMintPerLifetime
CHECK_DEADLOCK FALSE
