CONSTANTS
    owner = owner
    guest = guest
    c1 = c1
    c2 = c2
    h1 = h1
    Users <- OwnerAndGuest
    Owner = owner
    Connections <- TwoConnections
    GrpcConnections <- FirstConnection
    UserOf <- BothGuest
    ClientKinds <- OnlyEnd
    Muters <- OneHandler
    AudioCapacity = 1
    MaxMixers = 2
    MaxFailures = 1
    MaxChanges = 2
SPECIFICATION Spec
INVARIANT PresenceIsReal
INVARIANT MixersAreOwned
INVARIANT OnlineRoomsAreMixed
CHECK_DEADLOCK FALSE
