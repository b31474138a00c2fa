CONSTANTS
    ann = ann
    bob = bob
    pw1 = pw1
    pw2 = pw2
    r1 = r1
    r2 = r2
    s1 = s1
    s2 = s2
    t1 = t1
    t2 = t2
    Nobody = Nobody
    People <- TwoPeople
    Passwords <- TwoPasswords
    Requests <- TwoRequests
    SessionIds <- TwoSessions
    TokenIds <- TwoTokens
    ResetLimit = 1
    MaxRequests = 3
    Rooms = {room}
    Users = {u1, u2}
    Admins = {u2}
    Tasks = {h1, h2}
    NoOwner = NoOwner
SPECIFICATION PartsSpec
SYMMETRY Symmetry
INVARIANT ResetLinksAreBounded
INVARIANT SessionsFollowAccounts
INVARIANT OneFounder
PROPERTY AdministratorRemains
PROPERTY RoomsAreForMembers
CHECK_DEADLOCK FALSE
