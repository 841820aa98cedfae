-------------------------- MODULE CommitteeTopology --------------------------
(***************************************************************************)
(* How the sawtooth instances of several committees are paired into peers  *)
(* (src/util.py: make_intersecting_committees, make_single_intersection).  *)
(* A committee is a list of instances, cut into one section per            *)
(* intersection; in a section, instance column of committee row and        *)
(* instance row of committee column + 1 become the two halves of a peer,   *)
(* for every row <= column.                                                *)
(***************************************************************************)
EXTENDS Integers, FiniteSets

CONSTANTS NumberOfCommittees, Intersections

ASSUME TopologyAssumption ==
    /\ NumberOfCommittees \in Nat /\ NumberOfCommittees >= 2
    /\ Intersections \in Nat /\ Intersections >= 1

SectionSize == NumberOfCommittees - 1
CommitteeSize == SectionSize * Intersections

CommitteeIds == 0..(NumberOfCommittees - 1)
Slots == 0..(CommitteeSize - 1)

\* A peer is the iteration of the three loops that appends it.
PairedPeers ==
    {peer \in [section : 0..(Intersections - 1), row : CommitteeIds, column : 0..(SectionSize - 1)] :
        peer.row <= peer.column}

\* c[start_of_section:end_of_section][index]
SlotOf(section, index) == SectionSize * section + index

CommitteeIdA(peer) == peer.row
SlotA(peer) == SlotOf(peer.section, peer.column)
CommitteeIdB(peer) == peer.column + 1
SlotB(peer) == SlotOf(peer.section, peer.row)
-----------------------------------------------------------------------------
(* What the pairing promises *)

UsesA(peer, c, s) == CommitteeIdA(peer) = c /\ SlotA(peer) = s
UsesB(peer, c, s) == CommitteeIdB(peer) = c /\ SlotB(peer) = s

\* "instance is only in a peer once" (test_util.py:75): no two peers, and no two
\* halves of one peer, hold the same instance.
NoInstanceTwice ==
    \A c \in CommitteeIds, s \in Slots : \A p, q \in PairedPeers :
        /\ UsesA(p, c, s) /\ UsesA(q, c, s) => p = q
        /\ UsesB(p, c, s) /\ UsesB(q, c, s) => p = q
        /\ ~(UsesA(p, c, s) /\ UsesB(q, c, s))

\* No instance of any committee is left without a peer.
NoInstanceIdle ==
    \A c \in CommitteeIds, s \in Slots :
        \E peer \in PairedPeers : UsesA(peer, c, s) \/ UsesB(peer, c, s)

Shared(c, d) ==
    {peer \in PairedPeers : {CommitteeIdA(peer), CommitteeIdB(peer)} = {c, d}}

\* Every two committees meet in as many peers as were asked for, so that a peer
\* of either reaches the other in one forward.
EveryPairMeets ==
    \A c, d \in CommitteeIds : c # d => Cardinality(Shared(c, d)) = Intersections

Pairing == NoInstanceTwice /\ NoInstanceIdle /\ EveryPairMeets
=============================================================================
