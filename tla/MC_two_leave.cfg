CONSTANTS
    a = a  b = b
    p1 = p1  p2 = p2  p3 = p3  p4 = p4  p5 = p5
    Peers <- FivePeers
    Committees <- TwoCommittees
    IdA <- AllA
    IdB <- AllB
    Leavers <- TwoLeavers
    AdminHolders <- TwoLeavers
    MaxLeaves = 2
    MaxAttempts = 2
    MaxRosters = 3
    MaxCrossed = 0
    Faults = FALSE
    CommandsMayFail = TRUE
SPECIFICATION Spec
CHECK_DEADLOCK FALSE
INVARIANTS TypeOK StoppedMeansAskedBoth CommitteesKeepFour
PROPERTIES RostersSpec
