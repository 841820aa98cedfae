CONSTANTS
    a = a  b = b
    p1 = p1  p2 = p2  p3 = p3  p4 = p4  p5 = p5
    Peers <- FourPeers
    Committees <- TwoCommittees
    IdA <- FourInA
    IdB <- FourInB
    Leavers <- OneLeaver
    AdminHolders <- OneLeaver
    MaxLeaves = 1
    MaxAttempts = 2
    MaxRosters = 3
    MaxCrossed = 1
    Faults = FALSE
    CommandsMayFail = FALSE
SPECIFICATION Spec
CHECK_DEADLOCK FALSE
INVARIANTS RefusedLeaveReturns
