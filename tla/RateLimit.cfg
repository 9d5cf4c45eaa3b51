SPECIFICATION Spec
CONSTANTS
    home = home
    ada = ada
    Anonymous = Anonymous
    Ip = {home}
    User = {ada}
    AuthLimit = 2
    ApiLimit = 1
    Window = 2
    MaxTime = 6
INVARIANTS TypeOK WindowBounded RefusedOnlyWhenSpent
