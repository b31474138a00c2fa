CONSTANTS
    s1 = s1
    s2 = s2
    u1 = u1
    u2 = u2
    Nobody = Nobody
    Sessions <- OneSession
    Utterances <- TwoUtterances
    HasRefinement = TRUE
    Capacity = 1
    MaxFaults = 1
    MaxCrashes = 1
    MaxAdminStarts = 0
SPECIFICATION FairSpec
PROPERTY FollowsLifecycle
PROPERTY AnnouncedUtterancesSettle
CHECK_DEADLOCK FALSE
