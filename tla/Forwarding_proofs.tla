--------------------------- MODULE Forwarding_proofs ---------------------------
(***************************************************************************)
(* Proofs about Forwarding, for every network of peers, whoever leaves and *)
(* however many requests are made: a request is forwarded at most once and *)
(* executed at most once, and a look for a neighbour misses one that stays *)
(* only by a deletion made during it.                                      *)
(***************************************************************************)
EXTENDS Forwarding, CooperativeLeave_proofs, FiniteSetTheorems

Request ==
    [pc : {"none", "asked", "looking", "sent", "done", "answered", "nobody", "raised"},
     at : Peers, serving : SUBSET Peers, quorum : Committees, text : BOOLEAN,
     found : SUBSET Peers, shifts : Nat, forwards : Nat, executed : Nat]

\* A request that has left the peer it was asked at is with a member, and a look
\* finds members.
Routed ==
    /\ request \in Request
    /\ request.pc = "none" => request.forwards = 0
    /\ request.pc \in {"looking", "nobody"} => ~InQuorum(request.at, request.quorum)
    /\ request.pc = "looking" =>
         \A n \in request.found : InQuorum(n, request.quorum)
    /\ request.pc = "sent" => /\ request.forwards = 0
                              /\ InQuorum(request.at, request.quorum)
    /\ request.forwards > 0 => InQuorum(request.at, request.quorum)
    /\ request.forwards <= 1 /\ request.executed <= 1
    /\ request.pc \in {"none", "asked", "looking", "sent"} => request.executed = 0
    /\ request.pc = "answered" => request.executed = 1
    /\ request.pc = "done" => request.executed = 1

\* Labels are true: whoever is a candidate for a quorum is a member of it.
LEMMA CandidatesAreMembers ==
    ASSUME TypeOK, NEW p \in Peers, NEW q, NEW n \in Candidates(p, q)
    PROVE  n \in Peers /\ InQuorum(n, q)
<1>1. PICK c \in DOMAIN table[p] : n \in table[p][c] /\ Label(n, c) = q
  BY DEF Candidates
<1>2. n \in InCommittee(c)
  BY <1>1 DEF TypeOK
<1>3. n \in Peers /\ c \in {IdA[n], IdB[n]}
  BY <1>2 DEF InCommittee
<1> QED
  BY <1>1, <1>3 DEF Label, InQuorum

LEMMA NoRequestFields ==
    /\ NoRequest \in Request
    /\ NoRequest.pc = "none" /\ NoRequest.forwards = 0 /\ NoRequest.executed = 0
<1>1. (CHOOSE p \in Peers : TRUE) \in Peers /\ (CHOOSE c \in Committees : TRUE) \in Committees
  BY AskersAssumption
<1> QED
  BY <1>1 DEF NoRequest, Request

LEMMA RoutedKept ==
    ASSUME TypeOK, Routed, RequestStep \/ \E p \in Askers, q \in Committees : Ask(p, q)
    PROVE  Routed'
<1> request \in Request /\ request.at \in Peers
  BY DEF Routed, Request
<1>1. ASSUME NEW p \in Askers, NEW q \in Committees, Ask(p, q)
      PROVE  Routed'
  <2>1. PICK none \in Request : /\ none = NoRequest /\ none.pc = "none"
                                /\ none.forwards = 0 /\ none.executed = 0
    BY NoRequestFields
  <2>2. p \in Peers
    BY AskersAssumption
  <2>3. PICK text \in BOOLEAN :
           request' = [none EXCEPT !.pc = "asked", !.at = p, !.serving = {p},
                                   !.quorum = q, !.text = text]
    BY <1>1, <2>1 DEF Ask
  <2>4. /\ request' \in Request /\ request'.pc = "asked"
        /\ request'.forwards = 0 /\ request'.executed = 0
    BY <2>1, <2>2, <2>3 DEF Request
  <2> QED
    BY <2>4 DEF Routed
<1>2. CASE Serve
  <2>1. request' = [request EXCEPT !.pc = "done", !.executed = @ + 1]
    BY <1>2 DEF Serve, Execute
  <2>2. request.executed = 0
    BY <1>2 DEF Serve, Routed
  <2>3. request' = [request EXCEPT !.pc = "done", !.executed = 1]
    BY <2>1, <2>2
  <2>4. \A r \in Request, e \in Nat :
            /\ [r EXCEPT !.pc = "done", !.executed = e] \in Request
            /\ [r EXCEPT !.pc = "done", !.executed = e].pc = "done"
            /\ [r EXCEPT !.pc = "done", !.executed = e].executed = e
            /\ [r EXCEPT !.pc = "done", !.executed = e].at = r.at
            /\ [r EXCEPT !.pc = "done", !.executed = e].quorum = r.quorum
            /\ [r EXCEPT !.pc = "done", !.executed = e].forwards = r.forwards
    BY DEF Request
  <2>5. /\ request' \in Request /\ request'.pc = "done" /\ request'.executed = 1
        /\ request'.at = request.at /\ request'.quorum = request.quorum
        /\ request'.forwards = request.forwards
    BY <2>3, <2>4
  <2> QED
    BY <2>5 DEF Routed, InQuorum
<1>3. CASE Look
  <2>1. ~InQuorum(request.at, request.quorum) /\ request.executed = 0
    BY <1>3 DEF Look, Routed
  <2> DEFINE C == IF request.text THEN Candidates(request.at, request.quorum) ELSE {}
  <2>2. \A n \in C : n \in Peers /\ InQuorum(n, request.quorum)
    BY CandidatesAreMembers
  <2>3. request' = [request EXCEPT !.pc = "looking", !.shifts = 0, !.found = C]
    BY <1>3 DEF Look
  <2> HIDE DEF C
  <2>4. C \in SUBSET Peers
    BY <2>2
  <2>5. /\ request' \in Request /\ request'.pc = "looking" /\ request'.found = C
        /\ request'.at = request.at /\ request'.quorum = request.quorum
        /\ request'.forwards = request.forwards /\ request'.executed = request.executed
    BY <2>3, <2>4 DEF Request
  <2> QED
    BY <2>1, <2>2, <2>5 DEF Routed, InQuorum
<1>8. CASE Choose
  <2>1. CASE request' = [request EXCEPT !.pc = "nobody"]
    <3>1. /\ request' \in Request /\ request'.pc = "nobody"
          /\ request'.at = request.at /\ request'.quorum = request.quorum
          /\ request'.forwards = request.forwards /\ request'.executed = request.executed
          /\ request.pc = "looking"
      BY <1>8, <2>1 DEF Choose, Request
    <3> QED
      BY <3>1 DEF Routed, InQuorum
  <2>2. ASSUME NEW n \in request.found,
               request' = [request EXCEPT !.pc = "sent", !.at = n, !.found = {}, !.shifts = 0]
        PROVE  Routed'
    <3>1. n \in Peers /\ InQuorum(n, request.quorum)
      BY <1>8 DEF Choose, Routed, Request
    <3>2. request.forwards = 0 /\ request.executed = 0
      <4>1. request.pc = "looking" /\ ~InQuorum(request.at, request.quorum)
        BY <1>8 DEF Choose, Routed
      <4>2. ~(request.forwards > 0) /\ request.executed = 0
        BY <4>1 DEF Routed
      <4>3. request.forwards \in Nat
        BY DEF Request
      <4> QED
        BY <4>2, <4>3
    <3>3. /\ request' \in Request /\ request'.pc = "sent"
          /\ request'.at = n /\ request'.quorum = request.quorum
          /\ request'.forwards = 0 /\ request'.executed = 0
      BY <2>2, <3>1, <3>2 DEF Request
    <3> QED
      BY <3>1, <3>3 DEF Routed, InQuorum
  <2> QED
    BY <1>8, <2>1, <2>2 DEF Choose
<1>4. CASE Deliver
  <2>1. request.pc = "sent" /\ request.forwards = 0 /\ request.executed = 0
        /\ InQuorum(request.at, request.quorum)
    BY <1>4 DEF Deliver, Routed
  <2>2. CASE request' = [request EXCEPT !.pc = "asked", !.serving = @ \cup {request.at},
                                        !.forwards = IF @ < 2 THEN @ + 1 ELSE @]
    <3>1. request' = [request EXCEPT !.pc = "asked", !.serving = @ \cup {request.at},
                                     !.forwards = IF @ < 2 THEN @ + 1 ELSE @]
      BY <2>2
    <3>2. \A r \in Request, s \in SUBSET Peers, f \in Nat :
            [r EXCEPT !.pc = "asked", !.serving = s, !.forwards = f] \in Request
      BY DEF Request
    <3>3. (request.serving \cup {request.at}) \in SUBSET Peers
      BY DEF Request
    <3>4. request' = [request EXCEPT !.pc = "asked", !.serving = @ \cup {request.at},
                                     !.forwards = 1]
      BY <2>1, <3>1
    <3>5. request' \in Request
      BY <3>2, <3>3, <3>4
    <3>6. /\ request'.pc = "asked" /\ request'.forwards = 1
          /\ request'.at = request.at /\ request'.quorum = request.quorum
          /\ request'.executed = request.executed
      BY <3>4 DEF Request
    <3> QED
      BY <2>1, <3>5, <3>6 DEF Routed, InQuorum
  <2>3. CASE request' = [request EXCEPT !.pc = "raised"]
    <3>2. /\ request' \in Request /\ request'.pc = "raised"
          /\ request'.forwards = 0 /\ request'.executed = 0
      BY <2>1, <2>3 DEF Request
    <3> QED
      BY <3>2 DEF Routed
  <2> QED
    BY <1>4, <2>2, <2>3 DEF Deliver
<1>5. CASE Reply
  <2>1. request.executed = 1
    BY <1>5 DEF Reply, Routed
  <2>2. /\ request' \in Request /\ request'.pc = "answered" /\ request'.executed = 1
        /\ request'.at = request.at /\ request'.quorum = request.quorum
        /\ request'.forwards = request.forwards
    BY <1>5, <2>1 DEF Reply, Request
  <2> QED
    BY <2>2 DEF Routed, InQuorum
<1>6. CASE Broken
  <2>1. /\ request' \in Request /\ request'.pc = "raised"
        /\ request'.at = request.at /\ request'.quorum = request.quorum
        /\ request'.forwards = request.forwards /\ request'.executed = request.executed
    BY <1>6 DEF Broken, Request
  <2> QED
    BY <2>1 DEF Routed, InQuorum
<1> QED
  BY <1>1, <1>2, <1>3, <1>4, <1>5, <1>6, <1>8 DEF RequestStep

\* A deletion during the look takes one neighbour from what it finds, or none.
LEMMA FollowLooks ==
    ASSUME Routed, Follow
    PROVE  \/ UNCHANGED request
           \/ /\ request.pc = "looking" /\ request' \in Request
              /\ request'.pc = "looking" /\ request'.at = request.at
              /\ request'.quorum = request.quorum /\ request'.text = request.text
              /\ request'.forwards = request.forwards /\ request'.executed = request.executed
              /\ request'.shifts = request.shifts + 1
              /\ request'.found \subseteq request.found
              /\ \E n : request.found \subseteq request'.found \cup {n}
<1> SUFFICES ASSUME request' # request
             PROVE  /\ request.pc = "looking" /\ request' \in Request
                    /\ request'.pc = "looking" /\ request'.at = request.at
                    /\ request'.quorum = request.quorum /\ request'.text = request.text
                    /\ request'.forwards = request.forwards
                    /\ request'.executed = request.executed
                    /\ request'.shifts = request.shifts + 1
                    /\ request'.found \subseteq request.found
                    /\ \E n : request.found \subseteq request'.found \cup {n}
  OBVIOUS
<1> request \in Request
  BY DEF Routed
<1>1. request.pc = "looking"
  BY DEF Follow
<1>2. PICK found : /\ \E list : found \in Shifted(list)
                   /\ request' = [request EXCEPT !.found = found, !.shifts = @ + 1]
  BY DEF Follow
<1>3. found \subseteq request.found /\ \E n : request.found \subseteq found \cup {n}
  BY <1>2 DEF Shifted
<1>4. found \in SUBSET Peers /\ request.shifts + 1 \in Nat
  BY <1>3 DEF Request
<1>5. /\ request' \in Request /\ request'.found = found
      /\ request'.pc = "looking" /\ request'.at = request.at
      /\ request'.quorum = request.quorum /\ request'.text = request.text
      /\ request'.forwards = request.forwards /\ request'.executed = request.executed
      /\ request'.shifts = request.shifts + 1
  BY <1>1, <1>2, <1>4 DEF Request
<1> QED
  BY <1>1, <1>3, <1>5

LEMMA FollowRoutes == Routed /\ Follow => Routed'
<1> SUFFICES ASSUME Routed, Follow PROVE Routed'
  OBVIOUS
<1>1. CASE UNCHANGED request
  BY <1>1 DEF Routed, InQuorum
<1>2. CASE request' # request
  <2>1. /\ request.pc = "looking" /\ request' \in Request
        /\ request'.pc = "looking" /\ request'.at = request.at
        /\ request'.quorum = request.quorum
        /\ request'.forwards = request.forwards /\ request'.executed = request.executed
        /\ request'.found \subseteq request.found
    BY <1>2, FollowLooks
  <2> QED
    BY <2>1 DEF Routed, InQuorum
<1> QED
  BY <1>1, <1>2

\* The peers' invariant and that of the request are kept by every step of the
\* composition.
THEOREM RoutedAlways == FSpec => [](IInv /\ Routed)
<1>1. FInit => IInv /\ Routed
  <2>1. request = NoRequest => Routed
    BY NoRequestFields DEF Routed
  <2> QED
    BY <2>1, InitIInv DEF FInit
<1>2. IInv /\ Routed /\ [FNext]_fvars => IInv' /\ Routed'
  <2> SUFFICES ASSUME IInv, Routed, [FNext]_fvars
               PROVE  IInv' /\ Routed'
    OBVIOUS
  <2>1. [Next]_vars
    BY DEF FNext, fvars
  <2>2. IInv'
    BY <2>1, NextIInv
  <2>3. UNCHANGED request => Routed'
    BY DEF Routed, InQuorum
  <2>4. TypeOK
    BY DEF IInv
  <2> QED
    BY <2>2, <2>3, <2>4, RoutedKept, FollowRoutes DEF FNext, fvars
<1> QED
  BY <1>1, <1>2, PTL DEF FSpec

\* forward names a neighbour by its label, and a label is one of the neighbour's
\* own quorums whatever has left the tables: the next peer is a member, and no
\* request is forwarded twice or in a circle.
THEOREM NeverForwardedTwice == FSpec => []ForwardedOnce
<1>1. Routed => ForwardedOnce
  BY DEF Routed, ForwardedOnce
<1> QED
  BY <1>1, RoutedAlways, PTL

\* A request is executed by one peer at most, and an answer means that one did,
\* wherever on its way peers stop.
THEOREM NeverExecutedTwice == FSpec => []ExecutedOnce
<1>1. Routed => ExecutedOnce
  BY DEF Routed, Request, ExecutedOnce
<1> QED
  BY <1>1, RoutedAlways, PTL
-----------------------------------------------------------------------------
(* Why a look comes back empty *)

\* Only a leaver's API ever stops.
StayersRun == Peers \ Leavers \subseteq api

LEMMA StayersRunKept ==
    ASSUME StayersRun, [Next]_vars
    PROVE  StayersRun'
<1>1. ASSUME NEW p \in Leavers,
             \/ CheckNeighbors(p) \/ AskA(p) \/ AskB(p) \/ AgainA(p) \/ AgainB(p)
             \/ AnswerA(p) \/ AnswerB(p) \/ AnswerRaises(p) \/ Rejoin(p)
      PROVE  UNCHANGED api
  BY <1>1 DEF CheckNeighbors, AskA, AskB, AskToLeave, AgainA, AgainB, SubmitAgain,
              AnswerA, AnswerB, AnswerRaises, Rejoin
<1>2. ASSUME NEW p \in Leavers,
             \/ PostRemove(p) \/ CutA(p) \/ CutB(p) \/ NotifyRefused(p) \/ LeaveReturns(p)
      PROVE  UNCHANGED api
  BY <1>2 DEF PostRemove, CutA, CutB, NotifyRefused, LeaveReturns
<1>3. ASSUME NEW p \in Leavers, Terminate(p) \/ Delete(p)
      PROVE  api' = api \ {p}
  BY <1>3 DEF Terminate, Delete
<1>4. ASSUME NEW c \in Committees, Adopt(c)
      PROVE  UNCHANGED api
  BY <1>4 DEF Adopt
<1>5. UNCHANGED vars => UNCHANGED api
  BY DEF vars
<1> QED
  BY <1>1, <1>2, <1>3, <1>4, <1>5 DEF StayersRun, Next, Step

\* Whoever runs and is asked for a quorum that is not its own comes by all the
\* neighbours that stay and lead there: they are in its table, under labels that
\* name the quorum, where no two /removes have overlapped.
LEMMA StayersAreCandidates ==
    ASSUME TypeOK, LivingAreKnown, StayersRun,
           NEW p \in api, NEW q \in Committees, ~InQuorum(p, q), p \notin crossed
    PROVE  Stays(p, q) \subseteq Candidates(p, q)
<1> SUFFICES ASSUME NEW n \in Stays(p, q) PROVE n \in Candidates(p, q)
  OBVIOUS
<1>1. p \in Peers
  BY DEF TypeOK
<1>2. PICK c \in {IdA[p], IdB[p]} : {IdA[n], IdB[n]} = {c, q}
  BY DEF Stays
<1>3. c # q /\ c \in Committees /\ n \in Peers \ Leavers
  BY <1>1, PeersAssumption DEF InQuorum, Stays
<1>4. p \in InCommittee(c) \cap api /\ n \in InCommittee(c) \cap api /\ p # n
  BY <1>1, <1>2, <1>3 DEF InCommittee, StayersRun, InQuorum
<1>5. n \in table[p][c] /\ c \in DOMAIN table[p]
  BY <1>1, <1>3, <1>4 DEF LivingAreKnown, TypeOK
<1>6. Label(n, c) = q
  BY <1>2, <1>3 DEF Label
<1> QED
  BY <1>5, <1>6 DEF Candidates

LEMMA OneMore ==
    ASSUME NEW S, NEW R, NEW x, IsFiniteSet(S), R \subseteq S \cup {x}
    PROVE  Cardinality(R) <= Cardinality(S) + 1
<1>1. IsFiniteSet(S \cup {x}) /\ Cardinality(S) \in Nat
      /\ Cardinality(S \cup {x}) = IF x \in S THEN Cardinality(S) ELSE Cardinality(S) + 1
  BY FS_AddElement, FS_CardinalityType
<1>2. Cardinality(R) <= Cardinality(S \cup {x}) /\ Cardinality(R) \in Nat
  BY <1>1, FS_Subset, FS_CardinalityType
<1> QED
  BY <1>1, <1>2

\* What a look has missed, it has missed by deletions.
Missed == Stays(request.at, request.quorum) \ request.found
MissedByShifts ==
    request.pc \in {"looking", "nobody"} /\ request.text /\ request.at \notin crossed =>
        Cardinality(Missed) <= request.shifts

Explained ==
    /\ StayersRun /\ MissedByShifts
    /\ request.pc = "nobody" => request.found = {}

\* What follows holds in every composition with the requests, so the step is either
\* one of Forwarding or leaves the peers and the request alone.
LEMMA ExplainedKept ==
    ASSUME IsFiniteSet(Peers), IInv, Routed, Explained,
           FNext \/ UNCHANGED <<vars, request>>
    PROVE  Explained'
<1> request \in Request
  BY DEF Routed
<1>1. [Next]_vars
  BY DEF FNext, fvars
<1>2. StayersRun' /\ crossed \subseteq crossed' /\ TypeOK /\ LivingAreKnown
  BY <1>1, StayersRunKept, CrossedGrows DEF IInv, Explained
<1>3. IsFiniteSet(Missed) /\ Cardinality(Missed) \in Nat
  <2>1. Missed \subseteq Peers
    BY DEF Missed, Stays
  <2> QED
    BY <2>1, FS_Subset, FS_CardinalityType
<1>4. CASE UNCHANGED request
  <2>1. Missed' = Missed
    BY <1>4 DEF Missed, Stays
  <2> QED
    BY <1>2, <1>4, <2>1 DEF Explained, MissedByShifts
<1>5. ASSUME NEW p \in Askers, NEW q \in Committees, Ask(p, q)
      PROVE  Explained'
  <2>1. request'.pc = "asked"
    BY <1>5 DEF Ask, NoRequest
  <2> QED
    BY <1>2, <2>1 DEF Explained, MissedByShifts
<1>6. CASE Follow /\ request' # request
  <2>1. /\ request.pc = "looking" /\ request' \in Request
        /\ request'.pc = "looking" /\ request'.at = request.at
        /\ request'.quorum = request.quorum /\ request'.text = request.text
        /\ request'.shifts = request.shifts + 1
    BY <1>6, FollowLooks
  <2>2. PICK n : request.found \subseteq request'.found \cup {n}
    BY <1>6, FollowLooks
  <2>3. Missed' = Stays(request.at, request.quorum) \ request'.found
    BY <2>1 DEF Missed, Stays
  <2>4. Missed' \subseteq Missed \cup {n}
    BY <2>2, <2>3 DEF Missed
  <2>5. Cardinality(Missed') <= Cardinality(Missed) + 1
    <3> PICK R : R = Missed'
      OBVIOUS
    <3>1. Cardinality(R) <= Cardinality(Missed) + 1
      BY <1>3, <2>4, OneMore
    <3> QED
      BY <3>1
  <2>6. IsFiniteSet(Missed') /\ Cardinality(Missed') \in Nat
    BY <1>3, <2>4, FS_Subset, FS_AddElement, FS_CardinalityType
  <2>7. MissedByShifts'
    <3>1. SUFFICES ASSUME request'.text, request'.at \notin crossed'
                   PROVE  Cardinality(Missed') <= request'.shifts
      BY DEF MissedByShifts
    <3>2. Cardinality(Missed) <= request.shifts
      BY <1>2, <2>1, <3>1 DEF Explained, MissedByShifts
    <3> QED
      BY <1>3, <2>1, <2>5, <2>6, <3>2 DEF Request
  <2> QED
    BY <1>2, <2>1, <2>7 DEF Explained
<1>7. CASE RequestStep /\ UNCHANGED vars
  <2> api' = api /\ crossed' = crossed
    BY <1>7 DEF vars
  <2>1. CASE Look
    <3>1. /\ request.at \in api /\ ~InQuorum(request.at, request.quorum)
          /\ request.quorum \in Committees
      BY <2>1 DEF Look, Request
    <3>2. /\ request'.pc = "looking" /\ request'.shifts = 0 /\ request'.at = request.at
          /\ request'.quorum = request.quorum /\ request'.text = request.text
          /\ request.text => request'.found = Candidates(request.at, request.quorum)
      BY <2>1 DEF Look, Request
    <3>3. ASSUME request.text, request.at \notin crossed
          PROVE  Missed' = {}
      <4>1. Stays(request.at, request.quorum) \subseteq Candidates(request.at, request.quorum)
        BY <1>2, <3>1, <3>3, StayersAreCandidates DEF Explained
      <4>2. Missed' = Stays(request.at, request.quorum) \ request'.found
        BY <3>2 DEF Missed, Stays
      <4> QED
        BY <3>2, <3>3, <4>1, <4>2
    <3>4. MissedByShifts'
      <4>1. Cardinality({}) = 0
        BY FS_EmptySet
      <4> QED
        BY <3>2, <3>3, <4>1 DEF MissedByShifts
    <3> QED
      BY <1>2, <3>2, <3>4 DEF Explained
  <2>2. CASE Choose /\ request'.pc = "nobody"
    <3>1. request' = [request EXCEPT !.pc = "nobody"] /\ request.found = {}
          /\ request.pc = "looking"
      BY <2>2 DEF Choose, Request
    <3>2. /\ request'.at = request.at /\ request'.quorum = request.quorum
          /\ request'.text = request.text /\ request'.shifts = request.shifts
          /\ request'.found = {}
      BY <3>1 DEF Request
    <3>3. Missed' = Missed
      BY <3>1, <3>2 DEF Missed, Stays
    <3> QED
      BY <1>2, <3>1, <3>2, <3>3 DEF Explained, MissedByShifts
  <2>3. CASE Serve \/ Deliver \/ Reply \/ Broken \/ (Choose /\ request'.pc # "nobody")
    <3>1. request'.pc \notin {"looking", "nobody"}
      BY <2>3 DEF Serve, Execute, Deliver, Reply, Broken, Choose, Request
    <3> QED
      BY <1>2, <3>1 DEF Explained, MissedByShifts
  <2> QED
    BY <1>7, <2>1, <2>2, <2>3 DEF RequestStep
<1>8. \/ UNCHANGED request
      \/ Follow /\ request' # request
      \/ \E p \in Askers, q \in Committees : Ask(p, q)
      \/ RequestStep /\ UNCHANGED vars
  BY DEF FNext
<1> QED
  BY <1>4, <1>5, <1>6, <1>7, <1>8

LEMMA ExplainedFound == Explained => NeighbourFound
<1> SUFFICES ASSUME Explained, request.pc = "nobody", request.text, request.at \notin crossed
             PROVE  request.shifts >= Cardinality(Stays(request.at, request.quorum))
  BY DEF NeighbourFound
<1>1. Missed = Stays(request.at, request.quorum)
  BY DEF Explained, Missed
<1>2. Cardinality(Missed) <= request.shifts
  BY DEF Explained, MissedByShifts
<1> QED
  BY <1>1, <1>2

LEMMA InitExplained == Init /\ request = NoRequest => Explained
<1>1. NoRequest.pc = "none"
  BY NoRequestFields
<1> QED
  BY <1>1 DEF Init, StayersRun, MissedByShifts, Explained

\* random.choice has no candidate for an id sent as a string only after as many
\* deletions during the look as neighbours lead to the quorum for good, whoever
\* leaves and however looks and /removes interleave (api_util.forward).
THEOREM LooksFindNeighbours ==
    ASSUME IsFiniteSet(Peers)
    PROVE  FSpec => []NeighbourFound
<1>1. FInit => Explained
  BY InitExplained DEF FInit
<1>2. IInv /\ Routed /\ Explained /\ [FNext]_fvars => Explained'
  BY ExplainedKept DEF fvars
<1>3. Explained => NeighbourFound
  BY ExplainedFound
<1> QED
  BY <1>1, <1>2, <1>3, RoutedAlways, PTL DEF FSpec
=============================================================================
