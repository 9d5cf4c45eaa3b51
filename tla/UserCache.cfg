SPECIFICATION Spec
CONSTANTS
    r1 = r1
    r2 = r2
    ada = ada
    grader = grader
    oldName = oldName
    newName = newName
    Request = {r1, r2}
    Key = {ada, grader}
    GraderAdmin = grader
    Profile = {oldName, newName}
    GraderProfile = oldName
    TTL = 1
    MaxEntries = 1
    NoEntry = NoEntry
    None = None
INVARIANTS TypeOK SessionNeedsActive StaleNeedsCause
PROPERTY LocalFieldsKept
SYMMETRY Symmetry
