SPECIFICATION Spec
CONSTANTS
    u1 = u1
    u2 = u2
    l1 = l1
    s1 = s1
    ada = ada
    bob = bob
    Upload = {u1, u2}
    Loader = {l1}
    Seeder = {s1}
    Name = {ada, bob}
    File <- Files
    SeedData <- Seed
    ChunkSize = 2
INVARIANTS
    TypeOK
    CountsAddUp
    InsertedIsStored
    HandledStored
    RerunAddsNothing
    LoaderAllOrNothing
    SameAgeGroups
SYMMETRY Symmetry
CHECK_DEADLOCK FALSE
