---------------------------- MODULE MCHostBootstrap ----------------------------
(***************************************************************************)
(* make_intersecting_committees_on_host(2, 5): two committees of five that *)
(* share their five peers; the first peer opened may leave.                *)
(***************************************************************************)
EXTENDS HostBootstrap

CONSTANT none

TenContainers == CommitteeIds \X Slots
PeersA == [p \in PairedPeers |-> CommitteeIdA(p)]
PeersB == [p \in PairedPeers |-> CommitteeIdB(p)]
FirstPeer == {p \in PairedPeers : p.section = 0}
=============================================================================
