SPECIFICATION Spec
CONSTANTS
    t1 = t1
    t2 = t2
    Tab = {t1, t2}
    MaxSession = 2
    MaxFlow = 2
INVARIANTS
    TypeOK
    CookiesOfOneAnswer
    CsrfRefusesOnlyRaces
    DeadTokenNeedsTangle
    LogoutIsFinal
    OvertakenFlowFails
PROPERTIES
    LedgerSpec
SYMMETRY Symmetry

CHECK_DEADLOCK FALSE
