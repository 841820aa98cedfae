CONSTANTS
    none = none
    NumberOfCommittees = 2
    Intersections = 5
    Containers <- TenContainers
    None = none
    Peers <- PairedPeers
    Committees <- CommitteeIds
    IdA <- PeersA
    IdB <- PeersB
    Leavers <- FirstPeer
    AdminHolders <- PairedPeers
    MaxLeaves = 3
    MaxAttempts = 2
    MaxRosters = 3
    MaxCrossed = 1
    Faults = TRUE
    CommandsMayFail = TRUE
    MaxCollisions = 1
SPECIFICATION FairHSpec
CHECK_DEADLOCK FALSE
INVARIANTS CommitteesWhole TablesAgree HandOver ServersAreOwned AdminCanReconfigure
PROPERTIES BootstrapEnds LeaveEnds
