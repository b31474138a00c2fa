CONSTANTS
    Interval = 1
    Timeout = 1
    TokenLife = 5
    RefreshAfter = 3
    MaxLease = 2
    Lag = 1
    OfflineLeases <- TwoTicks
    GraceEnds <- ShortAndLongGrace
    MaxTime = 7
    MaxEvents = 2
SPECIFICATION Spec
INVARIANT WithdrawalTakesEffect
INVARIANT ExpiredLeaseEnds
INVARIANT GraceIsTheEnd
INVARIANT TokensAreRefreshedInTime
CHECK_DEADLOCK FALSE
