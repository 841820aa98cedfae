CONSTANTS
    NumberOfCommittees = 6
    Intersections = 1
    Peers <- PairedPeers
    Committees <- CommitteeIds
    IdA <- PeersA
    IdB <- PeersB
    Leavers <- EitherPeer
    AdminHolders <- EitherPeer
    MaxLeaves = 1
    MaxAttempts = 2
    MaxRosters = 1
    MaxCrossed = 0
    Faults = FALSE
    CommandsMayFail = FALSE
    Askers <- ZeroAndOne
    MaxRequests = 1
SPECIFICATION MCSpec
CHECK_DEADLOCK FALSE
INVARIANTS ForwardedOnce NeighbourFound ExecutedOnce FiledTruly MapIsComplete
PROPERTIES RequestsEnd SearchEnds
