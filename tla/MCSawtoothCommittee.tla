------------------------- MODULE MCSawtoothCommittee -------------------------
(***************************************************************************)
(* Small committees for TLC: up to six founding members, two of them       *)
(* calling concurrently, and an operator's list that admits a newcomer.    *)
(***************************************************************************)
EXTENDS SawtoothCommittee, TLC

CONSTANTS c1, c2, c3, c4, c5, c6

FiveMembers == {c1, c2, c3, c4, c5}
SixMembers == {c1, c2, c3, c4, c5, c6}
TwoCallers == {c1, c2}
OneCaller == {c1}
\* Below four keys, and with a newcomer.
OperatorLists == {{c1, c3, c6}}
NoList == {}

\* The callers are alike: no definition tells c1 from c2.
EitherCaller == Permutations(TwoCallers)
=============================================================================
