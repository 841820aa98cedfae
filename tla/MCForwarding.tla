----------------------------- MODULE MCForwarding -----------------------------
(***************************************************************************)
(* make_intersecting_committees(6, 1): fifteen peers, six committees of    *)
(* five, one peer for every two committees.  The peer of committees 0 and  *)
(* 2 or that of 1 and 3 leaves, and with it their whole intersection, or   *)
(* the one after the other; a client asks the peer of committees 0 and 1,  *)
(* which has lists with both.                                              *)
(***************************************************************************)
EXTENDS MinIntersection, CommitteeTopology

PeersA == [peer \in PairedPeers |-> CommitteeIdA(peer)]
PeersB == [peer \in PairedPeers |-> CommitteeIdB(peer)]
ZeroAndTwo == Shared(0, 2)
OneAndThree == Shared(1, 3)
EitherPeer == ZeroAndTwo \cup OneAndThree
ZeroAndOne == Shared(0, 1)

\* A state that CooperativeLeave reaches: the peer of committees 0 and 2 has left, all
\* its /removes are answered, and its lists are still out.  MaxLeaves counts from here.
OneHasLeft ==
    LET Without(c) == InCommittee(c) \ ZeroAndTwo IN
    /\ roster = [c \in Committees |-> InCommittee(c)]
    /\ past = [c \in Committees |-> {InCommittee(c)}]
    /\ floating = [c \in Committees |-> IF c \in {0, 2} THEN {Without(c)} ELSE {}]
    /\ running = Peers
    /\ api = Peers \ ZeroAndTwo
    /\ table = [p \in Peers |-> [c \in {IdA[p], IdB[p]} |->
                   (IF p \in ZeroAndTwo THEN InCommittee(c) ELSE Without(c)) \ {p}]]
    /\ leave = [p \in Peers |-> Idle(IF p \in ZeroAndTwo THEN "true" ELSE "none")]
    /\ leaves = 0
    /\ met = {} /\ crossed = {}

MCInit == (Init \/ OneHasLeft) /\ request = NoRequest /\ requests = 0 /\ search = NoSearch

MCSpec ==
    /\ MCInit /\ [][MNext]_mvars
    /\ WF_mvars(UNCHANGED <<vars, search>> /\ RequestStep)
    /\ WF_mvars(UNCHANGED vars /\ SearchStep)

ASSUME StaysReachableAssumption == StaysReachable
ASSUME EveryTwoMeetAssumption == EveryTwoMeet
=============================================================================
