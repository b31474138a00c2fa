CONSTANTS
    owner = owner
    guest = guest
    c1 = c1
    c2 = c2
    h1 = h1
    Users <- OwnerAndGuest
    Owner = owner
    Connections <- TwoConnections
    GrpcConnections <- NoConnections
    UserOf <- OneEach
    ClientKinds <- OnlyStart
    Muters <- NoHandlers
    AudioCapacity = 1
    MaxMixers = 1
    MaxFailures = 1
    MaxChanges = 1
SPECIFICATION FairSpec
PROPERTY ReleasedMixersStop
PROPERTY RevokedConnectionsEnd
PROPERTY AbsentMembersFallSilent
PROPERTY SendsFinish
CHECK_DEADLOCK FALSE
