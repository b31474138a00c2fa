CONSTANTS
    owner = owner
    guest = guest
    c1 = c1
    c2 = c2
    h1 = h1
    Users <- OwnerAndGuest
    Owner = owner
    Connections <- TwoConnections
    GrpcConnections <- NoConnections
    UserOf <- BothGuest
    ClientKinds <- OnlyStart
    Muters <- NoHandlers
    AudioCapacity = 1
    MaxMixers = 1
    MaxFailures = 0
    MaxChanges = 2
SPECIFICATION Spec
INVARIANT LiveConnectionsCanPublish
CHECK_DEADLOCK FALSE
