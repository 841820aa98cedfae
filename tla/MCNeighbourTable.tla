--------------------------- MODULE MCNeighbourTable ---------------------------
(***************************************************************************)
(* One peer of quorums a and b with up to four neighbours, each listed     *)
(* once in a list, as get_neighbors builds them.                           *)
(***************************************************************************)
EXTENDS NeighbourTable

CONSTANTS a, b, c, n1, n2, n3, n4, t1, t2

FourNeighbours == {n1, n2, n3, n4}
\* On one host the ports differ.
OwnPorts == [n \in FourNeighbours |->
    CASE n = n1 -> 5000 [] n = n2 -> 5001 [] n = n3 -> 5002 [] n = n4 -> 5003]
PortNumbers == 5000..5003
TwoQuorums == {a, b}
ThreeQuorums == {a, b, c}
AandB == <<a, b>>
NoRestart == {}
SameOrMoved == {<<a, b>>, <<a, c>>}
Lists == {<<n1, n2, n3>>, <<n3, n2>>}
LongLists == {<<n1, n2, n3, n4>>, <<n4, n3>>}
OneThread == {t1}
TwoThreads == {t1, t2}

ASSUME OnePortEachAssumption == OnePortEach
=============================================================================
