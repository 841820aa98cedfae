------------------------------ MODULE Forwarding ------------------------------
(***************************************************************************)
(* A client's request for a quorum (/submit/, /get/ and /blocks/ of        *)
(* src/api/routes.py), served by the peer asked when it is a member and    *)
(* otherwise forwarded to a neighbour listed for that quorum               *)
(* (src/api/api_util.py: forward), while peers leave (CooperativeLeave)    *)
(* and their /removes shorten the lists the look for a neighbour goes      *)
(* through.  Each hop is a thread that waits for the next peer's answer.   *)
(* An entry of a neighbour list is labelled with the neighbour's other     *)
(* quorum, as get_neighbors builds it; no id changes here, so the label is *)
(* a function of the entry.                                                *)
(***************************************************************************)
EXTENDS CooperativeLeave

CONSTANTS
    Askers,         \* the peers a client sends its requests to
    MaxRequests     \* bound: requests in a behaviour, one at a time

ASSUME AskersAssumption ==
    /\ Askers \subseteq Peers /\ MaxRequests \in Nat
    /\ Peers # {} /\ Committees # {}

VARIABLES
    request,    \* the client's request and where it is
    requests    \* the requests so far

fvars == <<vars, request, requests>>

NoRequest ==
    [pc |-> "none", at |-> CHOOSE p \in Peers : TRUE, serving |-> {},
     quorum |-> CHOOSE c \in Committees : TRUE,
     text |-> TRUE,                 \* the id is sent as a string, not as a number
     found |-> {}, shifts |-> 0,    \* the look: its neighbours, deletions during it
     forwards |-> 0, executed |-> 0]

FInit == Init /\ request = NoRequest /\ requests = 0

InQuorum(p, q) == q \in {IdA[p], IdB[p]}

\* QUORUM_ID of neighbour n's entry in the list of committee c.
Label(n, c) == IF IdA[n] = c THEN IdB[n] ELSE IdA[n]

\* The neighbours a look through every list of the peer's table comes by.
CandidatesMutFirstList(p, q) == {n \in table[p][IdA[p]] : Label(n, IdA[p]) = q}
CandidatesMutAny(p, q) == UNION {table[p][c] : c \in DOMAIN table[p]}
Candidates(p, q) ==
    UNION {{n \in table[p][c] : Label(n, c) = q} : c \in DOMAIN table[p]}

InProgress == request.pc \in {"asked", "looking", "sent", "done"}

\* The client connects to a running API.
Ask(p, q) ==
    /\ ~InProgress /\ requests < MaxRequests
    /\ p \in api
    /\ requests' = requests + 1
    /\ \E text \in BOOLEAN :
         request' = [NoRequest EXCEPT !.pc = "asked", !.at = p, !.serving = {p},
                                      !.quorum = q, !.text = text]

\* in_committee, which makes a string of the id: Intersection hands the request to
\* its instance of that quorum.
ExecuteMutForwardsToo(r) ==
    {[r EXCEPT !.pc = "done", !.executed = @ + 1]} \cup
    {[r EXCEPT !.pc = "sent", !.at = n, !.executed = @ + 1] : n \in table[r.at][r.quorum]}
Execute(r) == {[r EXCEPT !.pc = "done", !.executed = @ + 1]}

Serve ==
    /\ request.pc = "asked" /\ request.at \in api
    /\ InQuorum(request.at, request.quorum)
    /\ request' \in Execute(request)
    /\ UNCHANGED requests

\* neighbour__in_target_quorum, unless a list is shortened during the look.  Labels
\* are strings, and a number is not equal to one.
Look ==
    /\ request.pc = "asked" /\ request.at \in api
    /\ ~InQuorum(request.at, request.quorum)
    /\ request' = [request EXCEPT !.pc = "looking", !.shifts = 0,
                        !.found = IF request.text THEN Candidates(request.at, request.quorum)
                                  ELSE {}]
    /\ UNCHANGED requests

\* A /remove shortens a list during the look: the entry deleted may not have had its
\* turn, or one behind it moves to an index that has had its turn.
Shifted(list) == {request.found} \cup {request.found \ {n} : n \in list}

Follow ==
    LET p == request.at
        shortened == {c \in DOMAIN table[p] : table'[p][c] # table[p][c]} IN
    IF request.pc = "looking" /\ shortened # {}
    THEN \E c \in shortened : \E found \in Shifted(table[p][c]) :
           request' = [request EXCEPT !.found = found, !.shifts = @ + 1]
    ELSE UNCHANGED request

\* random.choice(neighbour__in_target_quorum): from an empty list it raises.
Choose ==
    /\ request.pc = "looking" /\ request.at \in api
    /\ \/ \E n \in request.found :
             request' = [request EXCEPT !.pc = "sent", !.at = n, !.found = {}, !.shifts = 0]
       \/ request.found = {} /\ request' = [request EXCEPT !.pc = "nobody"]
    /\ UNCHANGED requests

\* requests.post to the neighbour chosen, which may have stopped since, or refuse:
\* the error is not the built-in ConnectionError that forward catches.
Deliver ==
    /\ request.pc = "sent"
    /\ \/ /\ request.at \in api
          /\ request' = [request EXCEPT !.pc = "asked", !.serving = @ \cup {request.at},
                                        !.forwards = IF @ < 2 THEN @ + 1 ELSE @]
       \/ /\ request.at \notin api \/ Faults
          /\ request' = [request EXCEPT !.pc = "raised"]
    /\ UNCHANGED requests

\* The answer travels back through the peers that forwarded the request.
Reply ==
    /\ request.pc = "done" /\ request.serving \subseteq api
    /\ request' = [request EXCEPT !.pc = "answered"]
    /\ UNCHANGED requests

\* A peer that is serving the request is terminated and the connection breaks.
Broken ==
    /\ InProgress /\ ~(request.serving \subseteq api)
    /\ request' = [request EXCEPT !.pc = "raised"]
    /\ UNCHANGED requests

RequestStep == Serve \/ Look \/ Choose \/ Deliver \/ Reply \/ Broken

FNext ==
    \/ Next /\ Follow /\ UNCHANGED requests
    \/ UNCHANGED vars /\ \E p \in Askers, q \in Committees : Ask(p, q)
    \/ UNCHANGED vars /\ RequestStep

FSpec == FInit /\ [][FNext]_fvars

\* A thread that serves a request goes on with it; who leaves, and when, is free.
FairFSpec == FSpec /\ WF_fvars(UNCHANGED vars /\ RequestStep)
-----------------------------------------------------------------------------
(* Properties *)

\* Any two committees intersect and labels are true: a request is forwarded at
\* most once, whatever has left the tables.
ForwardedOnce == request.forwards <= 1

\* The neighbours that stay for good and lead from a peer to a quorum.
Stays(p, q) ==
    {n \in Peers \ Leavers : \E c \in {IdA[p], IdB[p]} : {IdA[n], IdB[n]} = {c, q}}

\* random.choice has no candidate for an id sent as a string only when the look came
\* by as many deletions as there are neighbours that stay and lead there: one
\* deletion hides one entry at most, and what is gone before a look hides none.
\* (At a peer where two /removes have overlapped, they may have deleted them all.)
NeighbourFound ==
    request.pc = "nobody" /\ request.text /\ request.at \notin crossed =>
        request.shifts >= Cardinality(Stays(request.at, request.quorum))

\* From every peer to every quorum that is not its own there is a neighbour that
\* stays, so that NeighbourFound says that a quiet look never comes back empty.
StaysReachable ==
    \A p \in Peers, q \in Committees : ~InQuorum(p, q) => Stays(p, q) # {}

\* A request is executed by one peer at most, and by exactly one when the client
\* gets an answer; broken or refused connections are not retried.
ExecutedOnce ==
    /\ request.executed <= 1
    /\ request.pc = "answered" => request.executed = 1

\* Every request is answered or fails: peers do not pass it round for ever.
RequestsEnd == InProgress ~> ~InProgress
=============================================================================
