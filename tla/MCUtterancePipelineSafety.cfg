CONSTANTS
    s1 = s1
    s2 = s2
    u1 = u1
    u2 = u2
    Nobody = Nobody
    Sessions <- TwoSessions
    Utterances <- TwoUtterances
    HasRefinement = FALSE
    Capacity = 1
    MaxFaults = 1
    MaxCrashes = 1
    MaxAdminStarts = 1
SPECIFICATION Spec
INVARIANT NoRowLeftBehind
INVARIANT HistoryAgreesWithRoom
SYMMETRY Symmetry
CHECK_DEADLOCK FALSE
