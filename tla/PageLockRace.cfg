SPECIFICATION Spec
CONSTANTS
    NoMember = NoMember
    RestoreActor = RestoreActor
    Member = {m1, m2}
    Admin = {}
    Request = {r1, r2}
    MaxVersionAttempts = 2
    MaxSaves = 0
    MaxGateOps = 2
    MaxFailures = 0
SYMMETRY RequestSymmetry
PROPERTIES LockNotTakenOver
CHECK_DEADLOCK FALSE
