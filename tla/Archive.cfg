SPECIFICATION Spec
CONSTANTS
    u1 = u1
    u2 = u2
    Uploads = {u1, u2}
    Bodies <- MCBodies
    Existing <- MCExisting
    ByteLimit = 2
    MaxMembers = 2
    NameBytes = 5
    Candidates = 5
    Numeral <- MCNumeral
    PatienceSteps = 2
    MaxRuns = 2
INVARIANTS AllOrNothing StoredIsWhole NothingLeft
PROPERTIES NoClobber UploadEnds
CHECK_DEADLOCK FALSE
