SPECIFICATION Spec
CONSTANTS
    NoMember = NoMember
    RestoreActor = RestoreActor
    Member = {m1, m2}
    Admin = {m2}
    Request = {r1, r2}
    MaxVersionAttempts = 2
    MaxSaves = 3
    MaxGateOps = 1
    MaxFailures = 1
SYMMETRY RequestSymmetry
INVARIANTS HistoryIsKept RefusedThroughoutNeverWrites
CHECK_DEADLOCK FALSE
