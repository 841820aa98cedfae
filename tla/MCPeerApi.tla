------------------------------- MODULE MCPeerApi -------------------------------
(***************************************************************************)
(* Two threads of one API process, a peer that is started in quorums x and *)
(* y and restarted in y and z, and lists that are long or too short for a  *)
(* join.                                                                   *)
(***************************************************************************)
EXTENDS PeerApi, TLC

CONSTANTS none, x, y, z, d1, d2, d3, t1, t2

TheQuorums == {x, y, z}
Moves == {<<x, y>>, <<y, z>>}
LongAndShort == {{d1, d2, d3}, {d1}}
\* From x and y to z, from y and z to x.
TheLabels == d1 :> z @@ d2 :> x @@ d3 :> x
TheThreads == {t1, t2}
\* The threads are alike: no definition tells t1 from t2.
EitherThread == Permutations(TheThreads)
TheContainers == Objects \X {"a", "b"}
=============================================================================
