---------------------------- MODULE IntersectionMap ----------------------------
(***************************************************************************)
(* Intersection maps (src/api/api_util.py: create_intersection_map,        *)
(* merge_intersection_maps): for every two of some quorum ids, as row and  *)
(* column in their order, the peers that join them.  A map is its ids and  *)
(* the set of its entries <<row, column, peer>>.                           *)
(***************************************************************************)
EXTENDS Naturals, FiniteSets

\* Each row has the columns after it.
Pairs(ids) == {p \in ids \X ids : p[1] < p[2]}

Blank(ids) == [ids |-> ids, filed |-> {}]

\* The place of an id when the ids are sorted.
Position(c, ids) == Cardinality({i \in ids : i <= c})

\* zip pairs rows, and the columns in them, by position and stops with the
\* shorter one: of either map the columns up to the other's number of ids remain.
KeptMutColumnsBefore(map, other) ==
    {e \in map.filed : Position(e[2], map.ids) < Cardinality(other.ids)}
Kept(map, other) ==
    {e \in map.filed : Position(e[2], map.ids) <= Cardinality(other.ids)}

\* What remains is filed under the ids it had.
MergeMutByPosition(a, b) ==
    [ids |-> a.ids \cup b.ids,
     filed |-> Kept(a, b) \cup
        {<<x[1][1], x[1][2], x[2][3]>> : x \in
            {y \in Pairs(a.ids) \X Kept(b, a) :
                /\ Position(y[1][1], a.ids) = Position(y[2][1], b.ids)
                /\ Position(y[1][2], a.ids) = Position(y[2][2], b.ids)}}]
Merge(a, b) ==
    [ids |-> a.ids \cup b.ids, filed |-> Kept(a, b) \cup Kept(b, a)]
=============================================================================
