---------------------------- MODULE MinIntersection ----------------------------
(***************************************************************************)
(* /min+intersection (src/api/routes.py): the peer asked merges the maps   *)
(* of its neighbours, each of which has merged those of its own, and names *)
(* the two quorums that fewest peers join.  The request is one of the      *)
(* client's in Forwarding, while peers leave: the lists of neighbours are  *)
(* iterated as they are, one call of a neighbour between two entries.      *)
(***************************************************************************)
EXTENDS Forwarding, IntersectionMap

VARIABLE search     \* the client's /min+intersection, and the call it is in at depth one

mvars == <<fvars, search>>

\* A peer's call: whom it has still to ask, and what it has merged; since is
\* history, the peers that served when the client called.
Nobody == CHOOSE p \in Peers : TRUE
NoCall == [at |-> Nobody, todo |-> {}, map |-> Blank({})]
NoSearch == [pc |-> "none", depth0 |-> NoCall, depth1 |-> NoCall, answer |-> <<>>,
             since |-> {}]

MInit == FInit /\ search = NoSearch

\* The ids of its own and those its list of quorum a leads to, and itself.
OwnMap(p) ==
    [ids |-> {Label(n, IdA[p]) : n \in table[p][IdA[p]]} \cup {IdA[p], IdB[p]},
     filed |-> {<<r[1], r[2], p>> : r \in Pairs({IdA[p], IdB[p]})}]

CallOf(p) == [at |-> p, todo |-> Neighbours(p), map |-> OwnMap(p)]

Searching == search.pc \in {"asking", "waiting"}

Search(p) ==
    /\ ~Searching /\ requests < MaxRequests
    /\ p \in api
    /\ requests' = requests + 1
    /\ search' = [NoSearch EXCEPT !.pc = "asking", !.depth0 = CallOf(p),
                                  !.since = api]
    /\ UNCHANGED request

\* The order of the lists is fixed by the table, and any will do.
NextAsked(call) == CHOOSE e \in call.todo : TRUE

\* for neighbor in neighbors: the entry has had its turn.
RestMutSame(call) == call.todo
Rest(call) == call.todo \ {NextAsked(call)}

\* A /remove shortens a list that is iterated.  An entry deleted ahead is not met; one
\* deleted behind moves the next one of its list to an index that has had its turn.
ToGo(call) ==
    LET gone == {e \in Neighbours(call.at) : e[2] \notin table'[call.at][e[1]]}
        behind == {e \in call.todo : \E g \in gone : g[1] = e[1]} IN
    IF gone \subseteq call.todo \/ behind = {} THEN {call.todo \ gone}
    ELSE {call.todo \ {e} : e \in behind}

FollowSearch ==
    \E todo0 \in ToGo(search.depth0), todo1 \in ToGo(search.depth1) :
       search' = [search EXCEPT !.depth0.todo = todo0, !.depth1.todo = todo1]

Raise == search' = [NoSearch EXCEPT !.pc = "raised"]

\* depth < 2: a neighbour asks its own neighbours, those ask no one.
AskNeighbour ==
    LET call == search.depth0 n == NextAsked(call)[2] IN
    /\ search.pc = "asking" /\ call.at \in api /\ call.todo # {}
    /\ \/ (n \notin api \/ Faults) /\ Raise
       \/ n \in api /\ search' = [search EXCEPT !.pc = "waiting", !.depth1 = CallOf(n),
                                               !.depth0.todo = Rest(call)]
    /\ UNCHANGED <<request, requests>>

Told(call, map) == [call EXCEPT !.map = Merge(@, map)]

AskFurther ==
    LET call == search.depth1 n == NextAsked(call)[2] IN
    /\ search.pc = "waiting" /\ {call.at, search.depth0.at} \subseteq api /\ call.todo # {}
    /\ \/ (n \notin api \/ Faults) /\ Raise
       \/ n \in api /\ search' = [search EXCEPT
                !.depth1 = [Told(call, OwnMap(n)) EXCEPT !.todo = Rest(call)]]
    /\ UNCHANGED <<request, requests>>

NeighbourAnswers ==
    /\ search.pc = "waiting" /\ {search.depth1.at, search.depth0.at} \subseteq api
    /\ search.depth1.todo = {}
    /\ search' = [search EXCEPT !.pc = "asking", !.depth1 = NoCall,
                                !.depth0 = Told(@, search.depth1.map)]
    /\ UNCHANGED <<request, requests>>

\* The first of the smallest, by rows.
SmallestFirst(map) ==
    LET size == [p \in Pairs(map.ids) |-> Cardinality({e \in map.filed : <<e[1], e[2]>> = p})]
    IN CHOOSE p \in Pairs(map.ids) : \A q \in Pairs(map.ids) :
          \/ size[p] < size[q]
          \/ size[p] = size[q] /\ (p[1] < q[1] \/ (p[1] = q[1] /\ p[2] <= q[2]))

SearchReturns ==
    /\ search.pc = "asking" /\ search.depth0.at \in api /\ search.depth0.todo = {}
    /\ search' = [search EXCEPT !.pc = "answered", !.answer = SmallestFirst(search.depth0.map)]
    /\ UNCHANGED <<request, requests>>

\* A peer that is serving the call is terminated: its caller's request raises.
SearchBroken ==
    /\ Searching
    /\ \/ search.depth0.at \notin api
       \/ search.pc = "waiting" /\ search.depth1.at \notin api
    /\ Raise
    /\ UNCHANGED <<request, requests>>

SearchStep == AskNeighbour \/ AskFurther \/ NeighbourAnswers \/ SearchReturns \/ SearchBroken

MNext ==
    \/ FNext /\ FollowSearch
    \/ UNCHANGED vars /\ (SearchStep \/ \E p \in Askers : Search(p))

MSpec == MInit /\ [][MNext]_mvars

\* A thread that serves a request goes on with it; who leaves, and when, is free.
FairMSpec ==
    /\ MSpec
    /\ WF_mvars(UNCHANGED <<vars, search>> /\ RequestStep)
    /\ WF_mvars(UNCHANGED vars /\ SearchStep)
-----------------------------------------------------------------------------
(* Properties *)

\* Maps over different quorums lose columns when they are merged, but no peer is
\* ever counted for two quorums it is not in.
FiledTruly ==
    \A e \in search.depth0.map.filed \cup search.depth1.map.filed :
        {e[1], e[2]} = {IdA[e[3]], IdB[e[3]]}

\* As long as nobody has left, the map that is answered from lists every peer
\* under its two quorums, also those two hops away.
MapIsComplete ==
    search.pc = "answered" /\ api = Peers =>
        {e[3] : e \in search.depth0.map.filed} = Peers

\* Where MapIsComplete can hold at all, and what CommitteeTopology's pairing gives:
\* the quorums are numbers, no peer is twice in one, and every two share a peer.
EveryTwoMeet ==
    /\ Committees \subseteq Nat /\ IsFiniteSet(Committees)
    /\ \A p \in Peers : IdA[p] # IdB[p]
    /\ \A c, d \in Committees : c # d => \E n \in Peers : {IdA[n], IdB[n]} = {c, d}

\* The call ends.
SearchEnds == Searching ~> ~Searching

\* What the code's own words claim and the model refutes, once the only peer of two
\* committees has left before the call (as an invariant in MC_forwarding.cfg): the
\* truncated merge has lost a column.

JoinedBy(c, d) == {n \in api : {IdA[n], IdB[n]} = {c, d}}

\* "Recursively finds the quorums with the fewest intersections" (routes.py:114):
\* with no departure during the call, no two quorums are joined by fewer peers
\* than the two that are answered.
AnswerIsSmallest ==
    search.pc = "answered" /\ search.since = api =>
        \A c, d \in Committees : c # d =>
            Cardinality(JoinedBy(search.answer[1], search.answer[2]))
              <= Cardinality(JoinedBy(c, d))
=============================================================================
