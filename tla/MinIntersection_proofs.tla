------------------------ MODULE MinIntersection_proofs -------------------------
(***************************************************************************)
(* Proofs about MinIntersection, for every network of peers with numbers   *)
(* as committee ids: however maps over different ids are zipped, no peer   *)
(* is filed under two quorums it is not in; and the requests of Forwarding *)
(* keep their promises beside the search.                                  *)
(***************************************************************************)
EXTENDS MinIntersection, Forwarding_proofs, CommitteeTopology_proofs

Map == [ids : SUBSET Committees, filed : SUBSET (Committees \X Committees \X Peers)]
Asking == [at : Peers, todo : SUBSET (Committees \X Peers), map : Map]

SearchOK ==
    search \in [pc : {"none", "asking", "waiting", "answered", "raised"},
                depth0 : Asking, depth1 : Asking,
                answer : {search.answer}, since : SUBSET Peers]

True(map) == \A e \in map.filed : {e[1], e[2]} = {IdA[e[3]], IdB[e[3]]}

\* Zipping drops entries and files none anew.
LEMMA MergeTypes ==
    ASSUME NEW a \in Map, NEW b \in Map
    PROVE  Merge(a, b) \in Map
<1>1. Kept(a, b) \subseteq a.filed /\ Kept(b, a) \subseteq b.filed
  BY DEF Kept
<1>2. Kept(a, b) \cup Kept(b, a) \in SUBSET (Committees \X Committees \X Peers)
  BY <1>1 DEF Map
<1>3. a.ids \cup b.ids \in SUBSET Committees
  BY DEF Map
<1> QED
  BY <1>2, <1>3 DEF Merge, Map

LEMMA MergeKeeps ==
    ASSUME NEW a \in Map, NEW b \in Map, True(a), True(b)
    PROVE  Merge(a, b) \in Map /\ True(Merge(a, b))
<1>1. Kept(a, b) \subseteq a.filed /\ Kept(b, a) \subseteq b.filed
  BY DEF Kept
<1>2. Merge(a, b).filed = Kept(a, b) \cup Kept(b, a) /\ Merge(a, b).ids = a.ids \cup b.ids
  BY DEF Merge
<1>5. Merge(a, b) \in Map
  BY MergeTypes
<1> QED
  BY <1>1, <1>2, <1>5 DEF True

LEMMA OwnMapIsTrue ==
    ASSUME Committees \subseteq Nat, TypeOK, NEW p \in Peers
    PROVE  OwnMap(p) \in Map /\ True(OwnMap(p))
<1>1. IdA[p] \in Committees /\ IdB[p] \in Committees
  BY PeersAssumption
<1>2. \A n \in table[p][IdA[p]] : n \in Peers
  BY DEF TypeOK, InCommittee
<1>3. \A n \in Peers : Label(n, IdA[p]) \in Committees
  BY PeersAssumption DEF Label
<1>4. {Label(n, IdA[p]) : n \in table[p][IdA[p]]} \cup {IdA[p], IdB[p]} \in SUBSET Committees
  BY <1>1, <1>2, <1>3
<1>5. \A r \in Pairs({IdA[p], IdB[p]}) :
          r[1] \in Committees /\ r[2] \in Committees /\ {r[1], r[2]} = {IdA[p], IdB[p]}
  <2> TAKE r \in Pairs({IdA[p], IdB[p]})
  <2>1. r[1] \in {IdA[p], IdB[p]} /\ r[2] \in {IdA[p], IdB[p]} /\ r[1] < r[2]
    BY DEF Pairs
  <2>2. IdA[p] \in Nat /\ IdB[p] \in Nat
    BY <1>1
  <2>3. r[1] # r[2]
    BY <2>1, <2>2
  <2> QED
    BY <1>1, <2>1, <2>3
<1>6. {<<r[1], r[2], p>> : r \in Pairs({IdA[p], IdB[p]})}
          \in SUBSET (Committees \X Committees \X Peers)
  BY <1>5
<1>7. OwnMap(p) \in Map
  BY <1>4, <1>6 DEF OwnMap, Map
<1>8. \A e \in OwnMap(p).filed : {e[1], e[2]} = {IdA[e[3]], IdB[e[3]]}
  <2>1. OwnMap(p).filed = {<<r[1], r[2], p>> : r \in Pairs({IdA[p], IdB[p]})}
    BY DEF OwnMap
  <2> TAKE e \in OwnMap(p).filed
  <2>2. PICK r \in Pairs({IdA[p], IdB[p]}) : e = <<r[1], r[2], p>>
    BY <2>1
  <2>3. e[1] = r[1] /\ e[2] = r[2] /\ e[3] = p
    BY <2>2
  <2> QED
    BY <1>5, <2>3
<1> QED
  BY <1>7, <1>8 DEF True

LEMMA CallOfIsTrue ==
    ASSUME Committees \subseteq Nat, TypeOK, NEW p \in Peers
    PROVE  CallOf(p) \in Asking /\ True(CallOf(p).map)
<1>1. Neighbours(p) \in SUBSET (Committees \X Peers)
  BY DEF Neighbours
<1> QED
  BY <1>1, OwnMapIsTrue DEF CallOf, Asking

LEMMA NoCallIsTrue == NoCall \in Asking /\ True(NoCall.map)
<1>1. Nobody \in Peers
  BY AskersAssumption DEF Nobody
<1>2. Blank({}) \in Map /\ True(Blank({}))
  BY DEF Blank, Map, True
<1> QED
  BY <1>1, <1>2 DEF NoCall, Asking

LEMMA NextAskedIsPeer ==
    ASSUME NEW call \in Asking, call.todo # {}
    PROVE  NextAsked(call)[2] \in Peers
  BY DEF NextAsked, Asking

Good == SearchOK /\ True(search.depth0.map) /\ True(search.depth1.map)

\* What a step leaves of the search, by the two calls it has then.
LEMMA GoodShape ==
    ASSUME Good, NEW pc \in {"none", "asking", "waiting", "answered", "raised"},
           NEW c0 \in Asking, NEW c1 \in Asking, True(c0.map), True(c1.map),
           NEW since \in SUBSET Peers, NEW answer,
           search' = [pc |-> pc, depth0 |-> c0, depth1 |-> c1, answer |-> answer,
                      since |-> since]
    PROVE  Good'
<1>1. search'.depth0 = c0 /\ search'.depth1 = c1 /\ search'.answer = answer
  OBVIOUS
<1>2. SearchOK'
  BY <1>1 DEF SearchOK
<1> QED
  BY <1>1, <1>2 DEF Good, True

LEMMA SearchFields ==
    ASSUME Good
    PROVE  /\ search = [pc |-> search.pc, depth0 |-> search.depth0, depth1 |-> search.depth1,
                        answer |-> search.answer, since |-> search.since]
           /\ search.depth0 \in Asking /\ search.depth1 \in Asking
           /\ search.depth0.map \in Map /\ search.depth1.map \in Map
           /\ search.pc \in {"none", "asking", "waiting", "answered", "raised"}
           /\ search.since \in SUBSET Peers
  BY DEF Good, SearchOK, Asking

\* A call that has had an answer, or goes on with less to ask, stays true.
LEMMA AskedOn ==
    ASSUME NEW call \in Asking, NEW map \in Map, True(call.map), True(map),
           NEW next, next = Told(call, map)
    PROVE  next \in Asking /\ True(next.map)
<1>1. call.map \in Map
  BY DEF Asking
<1>2. Merge(call.map, map) \in Map /\ True(Merge(call.map, map))
  BY <1>1, MergeKeeps
<1>3. next.map = Merge(call.map, map) /\ next \in Asking
  BY <1>1, <1>2 DEF Asking, Told
<1> QED
  BY <1>2, <1>3

LEMMA LessToAsk ==
    ASSUME NEW call \in Asking, NEW todo, todo \subseteq call.todo,
           NEW next, next = [call EXCEPT !.todo = todo]
    PROVE  /\ next \in Asking /\ next.at = call.at /\ next.todo = todo
           /\ next.map = call.map
<1>1. todo \in SUBSET (Committees \X Peers)
  BY DEF Asking
<1> QED
  BY <1>1 DEF Asking

LEMMA AskedAndLess ==
    ASSUME NEW call \in Asking, NEW map \in Map, True(call.map), True(map),
           NEW told, told = Told(call, map), NEW todo, todo \subseteq call.todo,
           NEW next, next = [told EXCEPT !.todo = todo]
    PROVE  next \in Asking /\ True(next.map)
<1>1. told \in Asking /\ True(told.map)
  BY AskedOn
<1>2. told.todo = call.todo
  BY DEF Told, Asking
<1> QED
  BY <1>1, <1>2, LessToAsk

\* The iterations go on over what is left of the lists.
LEMMA FollowedSearch ==
    ASSUME Good, FollowSearch
    PROVE  \E next0, next1 \in Asking :
             /\ search' = [pc |-> search.pc, depth0 |-> next0, depth1 |-> next1,
                           answer |-> search.answer, since |-> search.since]
             /\ next0.at = search.depth0.at /\ next0.map = search.depth0.map
             /\ next0.todo \in ToGo(search.depth0) /\ next0.todo \subseteq search.depth0.todo
             /\ next1.at = search.depth1.at /\ next1.map = search.depth1.map
             /\ next1.todo \in ToGo(search.depth1) /\ next1.todo \subseteq search.depth1.todo
<1>1. PICK todo0 \in ToGo(search.depth0), todo1 \in ToGo(search.depth1) :
         search' = [search EXCEPT !.depth0.todo = todo0, !.depth1.todo = todo1]
  BY DEF FollowSearch
<1>2. PICK call \in Asking, inner \in Asking :
         /\ call = search.depth0 /\ inner = search.depth1
         /\ search = [pc |-> search.pc, depth0 |-> call, depth1 |-> inner,
                      answer |-> search.answer, since |-> search.since]
  BY SearchFields
<1>3. \A c, todo : todo \in ToGo(c) => todo \subseteq c.todo
  BY DEF ToGo
<1> PICK next0, next1 : /\ next0 = [call EXCEPT !.todo = todo0]
                        /\ next1 = [inner EXCEPT !.todo = todo1]
  OBVIOUS
<1>4. search' = [pc |-> search.pc, depth0 |-> next0, depth1 |-> next1,
                 answer |-> search.answer, since |-> search.since]
  BY <1>1, <1>2
<1>5. /\ next0 \in Asking /\ next0.at = call.at /\ next0.todo = todo0
      /\ next0.map = call.map
  <2>1. todo0 \subseteq call.todo
    BY <1>1, <1>2, <1>3
  <2> QED
    BY <2>1, LessToAsk
<1>6. /\ next1 \in Asking /\ next1.at = inner.at /\ next1.todo = todo1
      /\ next1.map = inner.map
  <2>1. todo1 \subseteq inner.todo
    BY <1>1, <1>2, <1>3
  <2> QED
    BY <2>1, LessToAsk
<1>7. /\ todo0 \in ToGo(call) /\ todo0 \subseteq call.todo
      /\ todo1 \in ToGo(inner) /\ todo1 \subseteq inner.todo
  BY <1>1, <1>2, <1>3
<1>8. /\ search' = [pc |-> search.pc, depth0 |-> next0, depth1 |-> next1,
                    answer |-> search.answer, since |-> search.since]
      /\ next0.at = search.depth0.at /\ next0.map = search.depth0.map
      /\ next0.todo \in ToGo(search.depth0) /\ next0.todo \subseteq search.depth0.todo
      /\ next1.at = search.depth1.at /\ next1.map = search.depth1.map
      /\ next1.todo \in ToGo(search.depth1) /\ next1.todo \subseteq search.depth1.todo
  BY <1>2, <1>4, <1>5, <1>6, <1>7
<1> QED
  BY <1>5, <1>6, <1>8

LEMMA GoodKept ==
    ASSUME Committees \subseteq Nat, TypeOK, Good,
           SearchStep \/ FollowSearch \/ \E p \in Askers : Search(p)
    PROVE  Good'
<1> DEFINE Made(pc, c0, c1, answer, since) ==
        [pc |-> pc, depth0 |-> c0, depth1 |-> c1, answer |-> answer, since |-> since]
<1>1. /\ search = Made(search.pc, search.depth0, search.depth1, search.answer, search.since)
      /\ search.depth0 \in Asking /\ search.depth1 \in Asking
      /\ search.depth0.map \in Map /\ search.depth1.map \in Map
      /\ search.pc \in {"none", "asking", "waiting", "answered", "raised"}
      /\ search.since \in SUBSET Peers
      /\ True(search.depth0.map) /\ True(search.depth1.map)
  BY SearchFields DEF Good
<1>2. NoCall \in Asking /\ True(NoCall.map)
  BY NoCallIsTrue
<1>3. CASE Raise
  <2>1. search' = Made("raised", NoCall, NoCall, <<>>, {})
    BY <1>3 DEF Raise, NoSearch
  <2> QED
    BY <1>2, <2>1, GoodShape
<1>4. ASSUME NEW p \in Askers, Search(p)
      PROVE  Good'
  <2>1. p \in Peers /\ api \in SUBSET Peers
    BY AskersAssumption DEF TypeOK
  <2>2. search' = Made("asking", CallOf(p), NoCall, <<>>, api)
    BY <1>4 DEF Search, NoSearch
  <2>3. CallOf(p) \in Asking /\ True(CallOf(p).map)
    BY <2>1, CallOfIsTrue
  <2> QED
    BY <1>2, <2>1, <2>2, <2>3, GoodShape
<1>5. CASE AskNeighbour /\ ~Raise
  <2>1. search.depth0.todo # {}
    BY <1>5 DEF AskNeighbour
  <2> DEFINE n == NextAsked(search.depth0)[2]
  <2>2. n \in Peers
    BY <1>1, <2>1, NextAskedIsPeer
  <2>3. search' = [search EXCEPT !.pc = "waiting", !.depth1 = CallOf(n),
                                 !.depth0.todo = Rest(search.depth0)]
    BY <1>5 DEF AskNeighbour
  <2> PICK next : next = [search.depth0 EXCEPT !.todo = Rest(search.depth0)]
    OBVIOUS
  <2>4. search' = Made("waiting", next, CallOf(n), search.answer, search.since)
    BY <1>1, <2>3
  <2>5. CallOf(n) \in Asking /\ True(CallOf(n).map)
    BY <2>2, CallOfIsTrue
  <2>6. next \in Asking /\ next.map = search.depth0.map
    BY <1>1, LessToAsk DEF Rest
  <2> QED
    BY <1>1, <2>4, <2>5, <2>6, GoodShape
<1>6. CASE AskFurther /\ ~Raise
  <2>1. search.depth1.todo # {}
    BY <1>6 DEF AskFurther
  <2> DEFINE n == NextAsked(search.depth1)[2]
  <2>2. n \in Peers
    BY <1>1, <2>1, NextAskedIsPeer
  <2> PICK told : told = Told(search.depth1, OwnMap(n))
    OBVIOUS
  <2> PICK next : next = [told EXCEPT !.todo = Rest(search.depth1)]
    OBVIOUS
  <2>3. search' = [search EXCEPT !.depth1 = next]
    BY <1>6 DEF AskFurther
  <2>4. OwnMap(n) \in Map /\ True(OwnMap(n))
    BY <2>2, OwnMapIsTrue
  <2>5. next \in Asking /\ True(next.map)
    <3> PICK todo : todo = Rest(search.depth1)
      OBVIOUS
    <3>1. todo \subseteq search.depth1.todo
      BY DEF Rest
    <3> QED
      BY <1>1, <2>4, <3>1, AskedAndLess
  <2>6. search' = Made(search.pc, search.depth0, next, search.answer, search.since)
    BY <1>1, <2>3
  <2> QED
    BY <1>1, <2>5, <2>6, GoodShape
<1>7. CASE NeighbourAnswers
  <2> DEFINE next == Told(search.depth0, search.depth1.map)
  <2>1. search' = [search EXCEPT !.pc = "asking", !.depth1 = NoCall, !.depth0 = next]
    BY <1>7 DEF NeighbourAnswers
  <2>2. next \in Asking /\ True(next.map)
    BY <1>1, AskedOn
  <2> HIDE DEF next
  <2>3. search' = Made("asking", next, NoCall, search.answer, search.since)
    BY <1>1, <2>1
  <2> QED
    BY <1>1, <1>2, <2>2, <2>3, GoodShape
<1>8. CASE SearchReturns
  <2> DEFINE best == SmallestFirst(search.depth0.map)
  <2>1. search' = [search EXCEPT !.pc = "answered", !.answer = best]
    BY <1>8 DEF SearchReturns
  <2> HIDE DEF best
  <2>2. search' = Made("answered", search.depth0, search.depth1, best, search.since)
    BY <1>1, <2>1
  <2> QED
    BY <1>1, <2>2, GoodShape
<1>9. CASE FollowSearch
  <2>1. PICK next0, next1 \in Asking :
           /\ search' = Made(search.pc, next0, next1, search.answer, search.since)
           /\ next0.map = search.depth0.map /\ next1.map = search.depth1.map
    BY <1>9, FollowedSearch
  <2>2. True(next0.map) /\ True(next1.map)
    BY <1>1, <2>1
  <2> QED
    BY <1>1, <2>1, <2>2, GoodShape
<1> QED
  BY <1>3, <1>4, <1>5, <1>6, <1>7, <1>8, <1>9 DEF SearchStep, SearchBroken

\* A step of the composition is one of the requests' or leaves them alone.
LEMMA RequestsBeside ==
    ASSUME IInv, Routed, [MNext]_mvars
    PROVE  IInv' /\ Routed'
<1>1. CASE [FNext]_fvars
  <2>1. [Next]_vars
    BY <1>1 DEF FNext, fvars
  <2>2. UNCHANGED request => Routed'
    BY DEF Routed, InQuorum
  <2>3. TypeOK
    BY DEF IInv
  <2> QED
    BY <1>1, <2>1, <2>2, <2>3, NextIInv, RoutedKept, FollowRoutes DEF FNext, fvars
<1>2. CASE UNCHANGED <<vars, request>>
  <2>1. Routed'
    BY <1>2 DEF Routed, InQuorum
  <2> QED
    BY <1>2, <2>1, NextIInv
<1>3. SearchStep \/ (\E p \in Askers : Search(p)) => UNCHANGED request
  BY DEF SearchStep, Search, AskNeighbour, AskFurther, NeighbourAnswers, SearchReturns,
         SearchBroken
<1> QED
  BY <1>1, <1>2, <1>3 DEF MNext, mvars

LEMMA RoutedBeside == MSpec => [](IInv /\ Routed)
<1>1. MInit => IInv /\ Routed
  <2>1. request = NoRequest => Routed
    BY NoRequestFields DEF Routed
  <2> QED
    BY <2>1, InitIInv DEF MInit, FInit
<1>2. IInv /\ Routed /\ [MNext]_mvars => IInv' /\ Routed'
  BY RequestsBeside
<1> QED
  BY <1>1, <1>2, PTL DEF MSpec

\* The requests keep their promises while the search goes on.
THEOREM RequestsKeepTheirPromises == MSpec => [](ForwardedOnce /\ ExecutedOnce)
<1>1. Routed => ForwardedOnce /\ ExecutedOnce
  BY DEF Routed, Request, ForwardedOnce, ExecutedOnce
<1> QED
  BY <1>1, RoutedBeside, PTL

\* A look for a neighbour comes back empty only by deletions made during it, also
\* while searches go on.
THEOREM LooksStillFindNeighbours ==
    ASSUME IsFiniteSet(Peers)
    PROVE  MSpec => []NeighbourFound
<1>1. MInit => Explained
  BY InitExplained DEF MInit, FInit
<1>3. IInv /\ Routed /\ Explained /\ [MNext]_mvars => Explained'
  <2>1. SearchStep \/ (\E p \in Askers : Search(p)) => UNCHANGED request
    BY DEF SearchStep, AskNeighbour, AskFurther, NeighbourAnswers, SearchReturns,
           SearchBroken, Search
  <2> QED
    BY <2>1, ExplainedKept DEF MNext, mvars, fvars
<1>4. Explained => NeighbourFound
  BY ExplainedFound
<1> QED
  BY <1>1, <1>3, <1>4, RoutedBeside, PTL DEF MSpec

\* Whoever leaves, and however the zip of two maps drops columns, no peer is ever
\* counted for two quorums it does not join (merge_intersection_maps).
THEOREM MapsStayTrue ==
    ASSUME Committees \subseteq Nat PROVE MSpec => []FiledTruly
<1>1. MInit => IInv /\ Routed /\ Good
  <2>1. request = NoRequest => Routed
    BY NoRequestFields DEF Routed
  <2>2. search = NoSearch => Good
    BY NoCallIsTrue DEF NoSearch, Good, SearchOK
  <2> QED
    BY <2>1, <2>2, InitIInv DEF MInit, FInit
<1>2. IInv /\ Routed /\ Good /\ [MNext]_mvars => IInv' /\ Routed' /\ Good'
  <2> SUFFICES ASSUME IInv, Routed, Good, [MNext]_mvars
               PROVE  IInv' /\ Routed' /\ Good'
    OBVIOUS
  <2>1. UNCHANGED search => Good'
    BY DEF Good, SearchOK, True
  <2>2. SearchStep \/ (\E p \in Askers : Search(p)) => Good'
    BY GoodKept DEF IInv
  <2>3. FollowSearch => Good'
    BY GoodKept DEF IInv
  <2> QED
    BY <2>1, <2>2, <2>3, RequestsBeside DEF MNext, mvars
<1>3. Good => FiledTruly
  BY DEF Good, True, FiledTruly
<1> QED
  BY <1>1, <1>2, <1>3, PTL DEF MSpec
-----------------------------------------------------------------------------
(* How far a search sees while everyone serves *)

\* The entries of a table that nobody has left, and the peers two calls reach.
AllNear(p) ==
    {e \in Committees \X Peers : e[1] \in {IdA[p], IdB[p]} /\ e[2] \in InCommittee(e[1]) \ {p}}
Reach(p) == {p} \cup {e[2] : e \in AllNear(p)}

Counted(map) == {e[3] : e \in map.filed}

\* A map over all the ids, in which the peers asked so far are counted.
Gathers(pc, call, inner) ==
    /\ pc \in {"asking", "waiting", "answered"} =>
         /\ call.map.ids = Committees /\ call.at \in Counted(call.map)
         /\ \A e \in AllNear(call.at) : \/ e \in call.todo
                                        \/ Reach(e[2]) \subseteq Counted(call.map)
                                        \/ pc = "waiting" /\ e[2] = inner.at
    /\ pc = "waiting" =>
         /\ inner.map.ids = Committees /\ inner.at \in Counted(inner.map)
         /\ \A e \in AllNear(inner.at) : e \in inner.todo \/ e[2] \in Counted(inner.map)
    /\ pc = "answered" => call.todo = {}

\* While everyone serves there are no /removes to overlap.
Complete ==
    api = Peers => crossed = {} /\ Gathers(search.pc, search.depth0, search.depth1)

\* Merging two maps over all the ids drops nothing.
LEMMA WholeMerge ==
    ASSUME EveryTwoMeet, NEW a \in Map, NEW b \in Map, a.ids = Committees, b.ids = Committees
    PROVE  /\ Merge(a, b).ids = Committees
           /\ Counted(Merge(a, b)) = Counted(a) \cup Counted(b)
<1>1. ASSUME NEW c PROVE Position(c, Committees) <= Cardinality(Committees)
  <2>1. {i \in Committees : i <= c} \subseteq Committees /\ IsFiniteSet(Committees)
    BY DEF EveryTwoMeet
  <2> QED BY <2>1, FS_Subset DEF Position
<1>2. Kept(a, b) = a.filed /\ Kept(b, a) = b.filed
  BY <1>1 DEF Kept
<1>3. Merge(a, b).filed = a.filed \cup b.filed /\ Merge(a, b).ids = Committees
  BY <1>2 DEF Merge
<1> QED BY <1>3 DEF Counted

LEMMA FullTables ==
    ASSUME TypeOK, LivingAreKnown, api = Peers, crossed = {}, NEW p \in Peers
    PROVE  /\ Neighbours(p) = AllNear(p)
           /\ table[p][IdA[p]] = InCommittee(IdA[p]) \ {p}
<1>1. \A c \in {IdA[p], IdB[p]} : table[p][c] = InCommittee(c) \ {p}
  <2> TAKE c \in {IdA[p], IdB[p]}
  <2>1. c \in Committees /\ p \in InCommittee(c) \cap api /\ InCommittee(c) \subseteq api
    BY PeersAssumption DEF InCommittee
  <2>2. table[p][c] \subseteq InCommittee(c) \ {p}
    BY DEF TypeOK
  <2>3. InCommittee(c) \ {p} \subseteq table[p][c]
    BY <2>1 DEF LivingAreKnown
  <2> QED BY <2>2, <2>3
<1>2. DOMAIN table[p] = {IdA[p], IdB[p]}
  BY DEF TypeOK
<1> QED BY <1>1, <1>2 DEF Neighbours, AllNear

LEMMA WholeOwnMap ==
    ASSUME EveryTwoMeet, TypeOK, LivingAreKnown, api = Peers, crossed = {}, NEW p \in Peers
    PROVE  OwnMap(p).ids = Committees /\ p \in Counted(OwnMap(p))
<1>1. IdA[p] \in Committees /\ IdB[p] \in Committees /\ IdA[p] # IdB[p]
  BY PeersAssumption DEF EveryTwoMeet
<1>2. ASSUME NEW c \in Committees, c \notin {IdA[p], IdB[p]}
      PROVE  \E n \in table[p][IdA[p]] : Label(n, IdA[p]) = c
  <2>1. PICK n \in Peers : {IdA[n], IdB[n]} = {IdA[p], c}
    BY <1>1, <1>2 DEF EveryTwoMeet
  <2>2. n # p /\ n \in InCommittee(IdA[p])
    BY <1>2, <2>1 DEF InCommittee
  <2>3. Label(n, IdA[p]) = c
    BY <1>2, <2>1 DEF Label
  <2> QED BY <2>2, <2>3, FullTables
<1>3. OwnMap(p).ids = {Label(n, IdA[p]) : n \in table[p][IdA[p]]} \cup {IdA[p], IdB[p]}
  BY DEF OwnMap
<1>4. OwnMap(p).ids \subseteq Committees
  <2>1. OwnMap(p) \in Map
    BY OwnMapIsTrue DEF EveryTwoMeet
  <2> QED BY <2>1 DEF Map
<1>5. OwnMap(p).ids = Committees
  BY <1>2, <1>3, <1>4
<1>6. PICK r \in Pairs({IdA[p], IdB[p]}) : TRUE
  <2>1. IdA[p] \in Nat /\ IdB[p] \in Nat
    BY <1>1 DEF EveryTwoMeet
  <2>2. CASE IdA[p] < IdB[p]
    <3>1. <<IdA[p], IdB[p]>> \in Pairs({IdA[p], IdB[p]})
      BY <2>2 DEF Pairs
    <3> QED BY <3>1
  <2>3. CASE IdB[p] < IdA[p]
    <3>1. <<IdB[p], IdA[p]>> \in Pairs({IdA[p], IdB[p]})
      BY <2>3 DEF Pairs
    <3> QED BY <3>1
  <2> QED BY <1>1, <2>1, <2>2, <2>3
<1>7. OwnMap(p).filed = {<<x[1], x[2], p>> : x \in Pairs({IdA[p], IdB[p]})}
  BY DEF OwnMap
<1>8. <<r[1], r[2], p>> \in OwnMap(p).filed /\ <<r[1], r[2], p>>[3] = p
  BY <1>6, <1>7
<1>9. p \in Counted(OwnMap(p))
  BY <1>8 DEF Counted
<1> QED BY <1>5, <1>9

\* Every two quorums share a peer, so two calls reach every peer.
LEMMA TwoCallsReachAll ==
    ASSUME EveryTwoMeet, NEW p \in Peers, NEW n \in Peers
    PROVE  n = p \/ \E e \in AllNear(p) : e[2] \in Peers /\ n \in Reach(e[2])
<1> SUFFICES ASSUME n # p PROVE \E e \in AllNear(p) : e[2] \in Peers /\ n \in Reach(e[2])
  OBVIOUS
<1>0. \A m \in Peers, x \in Peers, c \in Committees :
         c \in {IdA[m], IdB[m]} /\ c \in {IdA[x], IdB[x]} /\ x # m =>
            <<c, x>> \in AllNear(m) /\ <<c, x>>[2] = x
  BY DEF AllNear, InCommittee
<1>1. IdA[p] \in Committees /\ IdA[n] \in Committees
  BY PeersAssumption
<1>2. CASE \E c \in Committees : c \in {IdA[p], IdB[p]} /\ c \in {IdA[n], IdB[n]}
  <2> PICK c \in Committees : c \in {IdA[p], IdB[p]} /\ c \in {IdA[n], IdB[n]}
    BY <1>2
  <2> QED BY <1>0 DEF Reach
<1>3. CASE ~ \E c \in Committees : c \in {IdA[p], IdB[p]} /\ c \in {IdA[n], IdB[n]}
  <2>1. PICK m \in Peers : {IdA[m], IdB[m]} = {IdA[p], IdA[n]}
    BY <1>1, <1>3 DEF EveryTwoMeet
  <2>2. m # p /\ m # n
    BY <1>1, <1>3, <2>1
  <2>3. <<IdA[p], m>> \in AllNear(p) /\ <<IdA[n], n>> \in AllNear(m)
    BY <1>0, <1>1, <2>1, <2>2
  <2>4. n \in Reach(m)
    BY <2>3 DEF Reach
  <2> QED BY <2>3, <2>4
<1> QED BY <1>2, <1>3

\* An answer adds to what is counted.
LEMMA GatheredOn ==
    ASSUME EveryTwoMeet, NEW call \in Asking, NEW map \in Map, call.map \in Map,
           call.map.ids = Committees, map.ids = Committees, NEW next, next = Told(call, map)
    PROVE  /\ next.at = call.at /\ next.todo = call.todo
           /\ next.map.ids = Committees
           /\ Counted(next.map) = Counted(call.map) \cup Counted(map)
<1>1. next = [call EXCEPT !.map = Merge(call.map, map)]
  BY DEF Told
<1>2. next.at = call.at /\ next.todo = call.todo /\ next.map = Merge(call.map, map)
  BY <1>1 DEF Asking
<1> QED BY <1>2, WholeMerge

LEMMA CompleteKept ==
    ASSUME EveryTwoMeet, TypeOK, LivingAreKnown, Good, Complete, UNCHANGED vars,
           SearchStep \/ \E p \in Askers : Search(p)
    PROVE  Complete'
<1> DEFINE Made(pc, c0, c1, answer, since) ==
        [pc |-> pc, depth0 |-> c0, depth1 |-> c1, answer |-> answer, since |-> since]
<1> SUFFICES ASSUME api = Peers, crossed = {}
             PROVE  Gathers(search'.pc, search'.depth0, search'.depth1)
  BY DEF Complete, vars
<1>1. /\ search = Made(search.pc, search.depth0, search.depth1, search.answer, search.since)
      /\ search.depth0 \in Asking /\ search.depth1 \in Asking
      /\ search.depth0.map \in Map /\ search.depth1.map \in Map
      /\ search.pc \in {"none", "asking", "waiting", "answered", "raised"}
  BY SearchFields
<1> PICK call \in Asking, inner \in Asking : call = search.depth0 /\ inner = search.depth1
  BY <1>1
<1>2. Gathers(search.pc, call, inner) /\ call.map \in Map /\ inner.map \in Map
  BY <1>1 DEF Complete
<1>3. CASE Raise
  <2>1. search'.pc = "raised"
    BY <1>3 DEF Raise, NoSearch
  <2> QED BY <2>1 DEF Gathers
<1>4. ASSUME NEW p \in Askers, Search(p)
      PROVE  Gathers(search'.pc, search'.depth0, search'.depth1)
  <2>1. p \in Peers
    BY AskersAssumption
  <2>2. search' = Made("asking", CallOf(p), NoCall, <<>>, api)
    BY <1>4 DEF Search, NoSearch
  <2>3. /\ CallOf(p).at = p /\ CallOf(p).todo = AllNear(p)
        /\ CallOf(p).map.ids = Committees /\ p \in Counted(CallOf(p).map)
    BY <2>1, FullTables, WholeOwnMap DEF CallOf
  <2>4. Gathers("asking", CallOf(p), NoCall)
    BY <2>3 DEF Gathers
  <2> QED BY <2>2, <2>4
<1>5. CASE AskNeighbour /\ ~Raise
  <2> DEFINE n == NextAsked(call)[2]
  <2>1. search.pc = "asking" /\ call.todo # {}
    BY <1>5 DEF AskNeighbour
  <2>2. n \in Peers
    BY <2>1, NextAskedIsPeer
  <2>3. search' = [search EXCEPT !.pc = "waiting", !.depth1 = CallOf(n),
                                 !.depth0.todo = Rest(call)]
    BY <1>5 DEF AskNeighbour
  <2> PICK next : next = [call EXCEPT !.todo = Rest(call)]
    OBVIOUS
  <2>4. search' = Made("waiting", next, CallOf(n), search.answer, search.since)
    BY <1>1, <2>3
  <2>7. next.at = call.at /\ next.map = call.map /\ next.todo = call.todo \ {NextAsked(call)}
    BY LessToAsk DEF Rest
  <2>5. /\ CallOf(n).at = n /\ CallOf(n).todo = AllNear(n)
        /\ CallOf(n).map.ids = Committees /\ n \in Counted(CallOf(n).map)
    BY <2>2, FullTables, WholeOwnMap DEF CallOf
  <2>6. Gathers("waiting", next, CallOf(n))
    BY <1>2, <2>1, <2>5, <2>7 DEF Gathers
  <2> QED BY <2>4, <2>6
<1>6. CASE AskFurther /\ ~Raise
  <2> DEFINE e == NextAsked(inner)
             n == e[2]
  <2>1. search.pc = "waiting" /\ inner.todo # {}
    BY <1>6 DEF AskFurther
  <2>2. n \in Peers
    BY <2>1, NextAskedIsPeer
  <2> PICK told : told = Told(inner, OwnMap(n))
    OBVIOUS
  <2> PICK next : next = [told EXCEPT !.todo = Rest(inner)]
    OBVIOUS
  <2>3. search' = [search EXCEPT !.depth1 = next]
    BY <1>6 DEF AskFurther
  <2>4. search' = Made("waiting", call, next, search.answer, search.since)
    BY <1>1, <2>1, <2>3
  <2>5. OwnMap(n) \in Map /\ OwnMap(n).ids = Committees /\ n \in Counted(OwnMap(n))
    BY <2>2, OwnMapIsTrue, WholeOwnMap DEF EveryTwoMeet
  <2>6. inner.map.ids = Committees
    BY <1>2, <2>1 DEF Gathers
  <2>7. /\ next.at = inner.at /\ next.todo = inner.todo \ {e}
        /\ next.map.ids = Committees
        /\ Counted(next.map) = Counted(inner.map) \cup Counted(OwnMap(n))
    <3>1. /\ told.at = inner.at /\ told.todo = inner.todo
          /\ told.map.ids = Committees
          /\ Counted(told.map) = Counted(inner.map) \cup Counted(OwnMap(n))
      BY <1>2, <2>5, <2>6, GatheredOn
    <3>2. Merge(inner.map, OwnMap(n)) \in Map
      BY <1>1, <1>2, <2>5, MergeTypes
    <3>3. told \in Asking
      BY <3>2 DEF Told, Asking
    <3> QED
      BY <3>1, <3>3, LessToAsk DEF Rest
  <2>8. Gathers("waiting", call, next)
    BY <1>2, <2>1, <2>5, <2>7 DEF Gathers
  <2> QED BY <2>4, <2>8
<1>7. CASE NeighbourAnswers
  <2>1. search.pc = "waiting" /\ inner.todo = {}
    BY <1>7 DEF NeighbourAnswers
  <2> PICK next : next = Told(call, inner.map)
    OBVIOUS
  <2>2. search' = [search EXCEPT !.pc = "asking", !.depth1 = NoCall, !.depth0 = next]
    BY <1>7 DEF NeighbourAnswers
  <2>3. search' = Made("asking", next, NoCall, search.answer, search.since)
    BY <1>1, <2>2
  <2>4. /\ call.map.ids = Committees /\ call.at \in Counted(call.map)
        /\ \A x \in AllNear(call.at) : \/ x \in call.todo \/ x[2] = inner.at
                                       \/ Reach(x[2]) \subseteq Counted(call.map)
        /\ inner.map.ids = Committees /\ inner.at \in Counted(inner.map)
        /\ \A x \in AllNear(inner.at) : x[2] \in Counted(inner.map)
    BY <1>2, <2>1 DEF Gathers
  <2>5. /\ next.at = call.at /\ next.todo = call.todo
        /\ next.map.ids = Committees
        /\ Counted(next.map) = Counted(call.map) \cup Counted(inner.map)
    BY <1>2, <2>4, GatheredOn
  <2>6. Reach(inner.at) \subseteq Counted(inner.map)
    BY <2>4 DEF Reach
  <2>7. Gathers("asking", next, NoCall)
    BY <2>4, <2>5, <2>6 DEF Gathers
  <2> QED BY <2>3, <2>7
<1>8. CASE SearchReturns
  <2> PICK best : best = SmallestFirst(call.map)
    OBVIOUS
  <2>1. search' = [search EXCEPT !.pc = "answered", !.answer = best] /\ search.pc = "asking"
        /\ call.todo = {}
    BY <1>8 DEF SearchReturns
  <2>2. search' = Made("answered", call, inner, best, search.since)
    BY <1>1, <2>1
  <2>3. Gathers("answered", call, inner)
    BY <1>2, <2>1 DEF Gathers
  <2> QED BY <2>2, <2>3
<1> QED
  BY <1>3, <1>4, <1>5, <1>6, <1>7, <1>8 DEF SearchStep, SearchBroken

\* While everyone serves no table is shortened, and the iterations go on unchanged.
LEMMA CompleteFollowed ==
    ASSUME IInv, Good, Complete, [Next]_vars, FollowSearch \/ UNCHANGED search
    PROVE  Complete'
<1>1. TypeOK /\ RacesNoted /\ Domains /\ StopsFirst
  BY DEF IInv
<1> SUFFICES ASSUME api' = Peers
             PROVE  crossed' = {} /\ Gathers(search'.pc, search'.depth0, search'.depth1)
  BY DEF Complete
<1>2. api = Peers
  BY <1>1, ApiShrinks DEF TypeOK
<1>11. crossed' = {}
  <2>1. crossed = {}
    BY <1>2 DEF Complete
  <2>2. \A p \in Leavers : ~PostRemove(p)
    BY <1>1, <1>2, PeersAssumption DEF StopsFirst, Ending, PostRemove
  <2>3. UNCHANGED races
    BY <2>2, RacesBegin
  <2> QED
    BY <2>1, <2>3 DEF races
<1>12. CASE UNCHANGED search
  BY <1>2, <1>11, <1>12 DEF Complete
<1> SUFFICES ASSUME FollowSearch
             PROVE  Gathers(search'.pc, search'.depth0, search'.depth1)
  BY <1>11, <1>12
<1>3. \A p \in Leavers : leave[p].pc \notin {"cutA", "cutB"}
  BY <1>1, <1>2, PeersAssumption DEF StopsFirst, Ending
<1>4. table' = table
  <2>1. UNCHANGED table \/ \E p \in Leavers : \E c : Cut(p, c)
    BY TableSteps DEF vars
  <2> QED
    BY <1>3, <2>1 DEF Cut
<1>5. ASSUME NEW call \in Asking PROVE ToGo(call) = {call.todo}
  <2>1. {e \in Neighbours(call.at) : e[2] \notin table'[call.at][e[1]]} = {}
    BY <1>4 DEF Neighbours
  <2> QED
    BY <2>1 DEF ToGo
<1>6. PICK next0, next1 \in Asking :
         /\ search' = [pc |-> search.pc, depth0 |-> next0, depth1 |-> next1,
                       answer |-> search.answer, since |-> search.since]
         /\ next0.at = search.depth0.at /\ next0.map = search.depth0.map
         /\ next0.todo \in ToGo(search.depth0)
         /\ next1.at = search.depth1.at /\ next1.map = search.depth1.map
         /\ next1.todo \in ToGo(search.depth1)
  BY FollowedSearch
<1>7. search.depth0 \in Asking /\ search.depth1 \in Asking
  BY SearchFields
<1>8. next0.todo = search.depth0.todo /\ next1.todo = search.depth1.todo
  BY <1>5, <1>6, <1>7
<1>9. Gathers(search.pc, search.depth0, search.depth1)
  BY <1>2 DEF Complete
<1>10. Gathers(search.pc, next0, next1)
  BY <1>6, <1>8, <1>9 DEF Gathers
<1> QED
  BY <1>6, <1>10

\* While everyone serves, the two calls of a search reach every peer and the maps
\* over all the ids lose no column: no peer is missing from what is answered.
THEOREM NobodyIsMissed ==
    ASSUME EveryTwoMeet PROVE MSpec => []MapIsComplete
<1> DEFINE Inv == IInv /\ Routed /\ Good /\ Complete
<1>1. MInit => Inv
  <2>1. request = NoRequest => Routed
    BY NoRequestFields DEF Routed
  <2>2. search = NoSearch /\ crossed = {} => Good /\ Complete
    BY NoCallIsTrue DEF NoSearch, Good, SearchOK, Complete, Gathers
  <2> QED
    BY <2>1, <2>2, InitIInv DEF MInit, FInit, Init
<1>2. Inv /\ [MNext]_mvars => Inv'
  <2> SUFFICES ASSUME IInv, Routed, Good, Complete, [MNext]_mvars
               PROVE  IInv' /\ Routed' /\ Good' /\ Complete'
    OBVIOUS
  <2>1. TypeOK /\ LivingAreKnown
    BY DEF IInv
  <2>2. CASE UNCHANGED vars /\ (SearchStep \/ \E p \in Askers : Search(p))
    <3>1. Good'
      BY <2>1, <2>2, GoodKept DEF EveryTwoMeet
    <3>2. Complete'
      BY <2>1, <2>2, CompleteKept
    <3> QED
      BY <3>1, <3>2, RequestsBeside
  <2>3. CASE FollowSearch \/ UNCHANGED search
    <3>1. Good'
      <4>1. UNCHANGED search => Good'
        BY DEF Good, SearchOK, True
      <4> QED
        BY <2>1, <2>3, <4>1, GoodKept DEF EveryTwoMeet
    <3>2. [Next]_vars
      BY DEF MNext, mvars, FNext, fvars
    <3>4. Complete'
      BY <2>3, <3>2, CompleteFollowed
    <3> QED
      BY <3>1, <3>4, RequestsBeside
  <2> QED
    BY <2>2, <2>3 DEF MNext, mvars
<1>3. Inv => MapIsComplete
  <2> SUFFICES ASSUME Good, Complete, search.pc = "answered", api = Peers
               PROVE  Counted(search.depth0.map) = Peers
    BY DEF MapIsComplete, Counted
  <2> PICK call \in Asking : call = search.depth0
    BY SearchFields
  <2>1. /\ call.at \in Counted(call.map) /\ call.todo = {} /\ call.at \in Peers
        /\ \A e \in AllNear(call.at) : Reach(e[2]) \subseteq Counted(call.map)
    BY DEF Complete, Gathers, Asking
  <2>2. Counted(call.map) \subseteq Peers
    BY SearchFields DEF Map, Counted
  <2>3. ASSUME NEW n \in Peers PROVE n \in Counted(call.map)
    BY <2>1, TwoCallsReachAll
  <2> QED BY <2>2, <2>3
<1> QED
  BY <1>1, <1>2, <1>3, PTL DEF MSpec
-----------------------------------------------------------------------------
(* The networks make_intersecting_committees makes *)

Paired ==
    /\ Peers = PairedPeers /\ Committees = CommitteeIds
    /\ IdA = [p \in Peers |-> CommitteeIdA(p)] /\ IdB = [p \in Peers |-> CommitteeIdB(p)]

\* Every peer the two committees share may leave.
Lost(c, d) == Shared(c, d) \subseteq Leavers

\* Of the intersections a committee has with the others one at most may leave as a
\* whole.
OneLostAtMost ==
    \A q, c, d \in CommitteeIds : c # q /\ d # q /\ Lost(c, q) /\ Lost(d, q) => c = d

LEMMA PairedMeet == ASSUME Paired PROVE EveryTwoMeet
<1>1. Committees \subseteq Nat /\ IsFiniteSet(Committees)
  BY FS_Interval, TopologyAssumption DEF Paired, CommitteeIds
<1>2. \A p \in Peers : IdA[p] # IdB[p]
  BY IdsOfPeer DEF Paired
<1>3. ASSUME NEW c \in Committees, NEW d \in Committees, c # d
      PROVE  \E n \in Peers : {IdA[n], IdB[n]} = {c, d}
  BY <1>3, SomePeerShares DEF Paired
<1> QED BY <1>1, <1>2, <1>3 DEF EveryTwoMeet

LEMMA PairedStayReachable == ASSUME Paired, OneLostAtMost PROVE StaysReachable
<1> SUFFICES ASSUME NEW p \in Peers, NEW q \in Committees, ~InQuorum(p, q)
             PROVE  \E n \in Peers \ Leavers : \E c \in {IdA[p], IdB[p]} : {IdA[n], IdB[n]} = {c, q}
  BY DEF StaysReachable, Stays
<1> PICK a \in CommitteeIds, b \in CommitteeIds : a = IdA[p] /\ b = IdB[p] /\ a # b
  BY IdsOfPeer DEF Paired
<1>1. q \in CommitteeIds /\ q # a /\ q # b
  BY DEF InQuorum, Paired
<1>2. ~Lost(a, q) \/ ~Lost(b, q)
  BY <1>1 DEF OneLostAtMost
<1>3. ASSUME NEW c \in {a, b}, NEW n \in Shared(c, q)
      PROVE  n \in Peers /\ {IdA[n], IdB[n]} = {c, q}
  BY <1>3 DEF Shared, Paired
<1> QED BY <1>2, <1>3 DEF Lost

\* In every network make_intersecting_committees makes, whatever the numbers of
\* committees and intersections, a search that meets no departure counts everyone.
THEOREM NobodyIsMissedInPairs == ASSUME Paired PROVE MSpec => []MapIsComplete
BY PairedMeet, NobodyIsMissed

LEMMA PairedFinite == ASSUME Paired PROVE IsFiniteSet(Peers)
<1> DEFINE Triples == (0..(Intersections - 1)) \X (CommitteeIds \X (0..(SectionSize - 1)))
           Records == [section : 0..(Intersections - 1), row : CommitteeIds,
                       column : 0..(SectionSize - 1)]
           f == [t \in Triples |-> [section |-> t[1], row |-> t[2][1], column |-> t[2][2]]]
<1>1. IsFiniteSet(Triples)
  <2>1. /\ IsFiniteSet(0..(Intersections - 1)) /\ IsFiniteSet(CommitteeIds)
        /\ IsFiniteSet(0..(SectionSize - 1))
    BY FS_Interval, TopologyAssumption DEF CommitteeIds, SectionSize
  <2> QED
    BY <2>1, FS_Product
<1>2. f \in Surjection(Triples, Records)
  <2>1. f \in [Triples -> Records]
    OBVIOUS
  <2>2. ASSUME NEW r \in Records PROVE \E t \in Triples : f[t] = r
    <3>1. <<r.section, <<r.row, r.column>>>> \in Triples
      OBVIOUS
    <3>2. f[<<r.section, <<r.row, r.column>>>>] = r
      BY <3>1
    <3> QED
      BY <3>1, <3>2
  <2> QED
    BY <2>1, <2>2 DEF Surjection
<1>3. IsFiniteSet(Records)
  BY <1>1, <1>2, FS_Surjection
<1> QED
  BY <1>3, FS_Subset DEF Paired, PairedPeers

\* As long as nothing is deleted from the peer's lists while it looks.
QuietLookFinds ==
    request.pc = "nobody" /\ request.text /\ request.at \notin crossed => request.shifts > 0

\* ... and of the intersections of each committee one may leave as a whole, and of
\* every other all but one peer: a look that meets no deletion still finds someone.
THEOREM QuietLooksFind ==
    ASSUME Paired, OneLostAtMost
    PROVE  MSpec => []QuietLookFinds
<1>1. StaysReachable /\ IsFiniteSet(Peers)
  BY PairedStayReachable, PairedFinite
<1>2. Routed /\ NeighbourFound => QuietLookFinds
  <2> SUFFICES ASSUME Routed, NeighbourFound, request.pc = "nobody", request.text,
                      request.at \notin crossed
               PROVE  request.shifts > 0
    BY DEF QuietLookFinds
  <2> PICK S : S = Stays(request.at, request.quorum)
    OBVIOUS
  <2>1. request.at \in Peers /\ request.quorum \in Committees /\ request.shifts \in Nat
        /\ ~InQuorum(request.at, request.quorum)
    BY DEF Routed, Request
  <2>2. S # {} /\ S \subseteq Peers
    BY <1>1, <2>1 DEF StaysReachable, Stays
  <2>3. Cardinality(S) \in Nat /\ Cardinality(S) # 0
    BY <1>1, <2>2, FS_Subset, FS_CardinalityType, FS_EmptySet
  <2>4. request.shifts >= Cardinality(S)
    BY DEF NeighbourFound
  <2> QED
    BY <2>1, <2>3, <2>4
<1>3. MSpec => []NeighbourFound
  BY <1>1, LooksStillFindNeighbours
<1>4. MSpec => []Routed
  BY RoutedBeside
<1> QED
  BY <1>2, <1>3, <1>4, PTL
=============================================================================
