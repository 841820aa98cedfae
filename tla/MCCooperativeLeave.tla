-------------------------- MODULE MCCooperativeLeave --------------------------
(***************************************************************************)
(* make_intersecting_committees(2, 5) for TLC: two committees that share   *)
(* all their five peers, so that the first leave is allowed and the next   *)
(* one meets the limit of four in both.                                    *)
(***************************************************************************)
EXTENDS CooperativeLeave

CONSTANTS a, b, p1, p2, p3, p4, p5

FivePeers == {p1, p2, p3, p4, p5}
TwoCommittees == {a, b}
AllA == [p \in FivePeers |-> a]
AllB == [p \in FivePeers |-> b]
FourPeers == {p1, p2, p3, p4}
FourInA == [p \in FourPeers |-> a]
FourInB == [p \in FourPeers |-> b]
TwoLeavers == {p1, p2}
OneLeaver == {p1}
=============================================================================
