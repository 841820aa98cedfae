----------------------- MODULE SawtoothCommittee_proofs -----------------------
(***************************************************************************)
(* Proofs about SawtoothCommittee, for every set of containers, callers    *)
(* and operator lists.  The inductive invariant IInv says where each key   *)
(* list in circulation came from; the safety properties follow from it.    *)
(***************************************************************************)
EXTENDS SawtoothCommittee, FiniteSetTheorems, TLAPS

\* What the operators on calls build is a call, and a call's proposal a proposal.
LEMMA CallFields ==
    ASSUME TypeOK, NEW n \in Callers
    PROVE  /\ call[n] \in Call
           /\ call[n].id \in Nat /\ call[n].read \in Nat
           /\ call[n].keys \subseteq Containers
           /\ call[n].without \subseteq Containers
  BY DEF TypeOK, Call

LEMMA NoCallShape ==
    ASSUME NEW ret \in {"none", "true", "false", "raised"}
    PROVE  NoCall(ret) \in Call
  BY DEF NoCall, Call

LEMMA ReturnedShape ==
    ASSUME TypeOK, NEW n \in Callers, NEW ret \in {"none", "true", "false", "raised"}
    PROVE  Returned(n, ret) \in Call
  BY CallFields DEF Returned, NoCall, Call

LEMMA CallStartShape ==
    ASSUME TypeOK, NEW n \in Callers, NEW keys \in SUBSET Containers, NEW read \in Nat,
           NEW without \in SUBSET Containers, NEW stop \in BOOLEAN
    PROVE  UpdateCommitteeCall(n, keys, read, without, stop) \in Call
<1>1. calls + 1 \in Nat
  BY DEF TypeOK
<1>2. Started(keys, read, without) \in Call
  BY <1>1 DEF Started, NoCall, Call
<1>3. [NoCall("false") EXCEPT !.id = calls + 1] \in Call
  BY <1>1 DEF NoCall, Call
<1> QED
  BY <1>2, <1>3 DEF UpdateCommitteeCall

LEMMA ProposalShape ==
    ASSUME TypeOK, NEW n \in Callers, NEW try \in 1..2
    PROVE  ProposalOf(n, try) \in Proposal
  BY CallFields DEF ProposalOf, Proposal

\* What a step of the polling loop keeps of a call that goes on.
KeepsCall(n) ==
    /\ call'[n].pc \in {"poll", "log", "retry"}
    /\ call'[n].id = call[n].id /\ call'[n].keys = call[n].keys
    /\ call'[n].read = call[n].read /\ call'[n].without = call[n].without
    /\ call'[n].size = call[n].size /\ call'[n].ret = call[n].ret

\* A step of the polling loop ends the call or keeps what it was called with.
LEMMA PassStep ==
    ASSUME TypeOK, NEW n \in Callers,
           PollChain(n) \/ ReadClock(n) \/ SubmitAgain(n)
    PROVE  /\ Busy(n) /\ call[n].pc \in {"poll", "log", "retry"}
           /\ \E c \in Call : call' = [call EXCEPT ![n] = c]
           /\ \A m \in Callers \ {n} : call'[m] = call[m]
           /\ \/ \E ret \in {"true", "false"} : call'[n] = Returned(n, ret)
              \/ KeepsCall(n)
<1>1. call[n] \in Call /\ Busy(n) /\ call[n].pc \in {"poll", "log", "retry"}
  BY CallFields DEF PollChain, ReadClock, SubmitAgain, Busy
<1>2. ASSUME NEW pc \in {"poll", "log", "retry"}, NEW seen \in Nat, NEW retried \in BOOLEAN,
             call' = [call EXCEPT ![n] = [call[n] EXCEPT !.pc = pc, !.seen = seen,
                                                         !.retried = retried]]
      PROVE  (\E c \in Call : call' = [call EXCEPT ![n] = c]) /\ KeepsCall(n)
  <2>1. [call[n] EXCEPT !.pc = pc, !.seen = seen, !.retried = retried] \in Call
    BY <1>1 DEF Call
  <2>2. KeepsCall(n)
    BY <1>1, <1>2 DEF KeepsCall, Call, TypeOK
  <2> QED
    BY <1>2, <2>1, <2>2
<1>3. ASSUME NEW ret \in {"true", "false"}, call' = [call EXCEPT ![n] = Returned(n, ret)]
      PROVE  (\E c \in Call : call' = [call EXCEPT ![n] = c]) /\ call'[n] = Returned(n, ret)
  BY <1>3, ReturnedShape DEF TypeOK
<1>4. ASSUME call' = [call EXCEPT ![n] = AfterPass(n)]
      PROVE  /\ \E c \in Call : call' = [call EXCEPT ![n] = c]
             /\ (\E ret \in {"true", "false"} : call'[n] = Returned(n, ret)) \/ KeepsCall(n)
  <2>1. CASE TimedOut(n)
    BY <1>3, <1>4, <2>1 DEF AfterPass
  <2>2. CASE ~TimedOut(n)
    <3> DEFINE retried == call[n].retried \/ call[n].pc = "retry"
    <3>1. retried \in BOOLEAN
      OBVIOUS
    <3>2. call' = [call EXCEPT ![n] = [call[n] EXCEPT !.pc = "poll", !.seen = 0,
                                                      !.retried = retried]]
      BY <1>4, <2>2 DEF AfterPass
    <3> HIDE DEF retried
    <3> QED
      BY <1>2, <3>1, <3>2
  <2> QED
    BY <2>1, <2>2
<1>5. CASE PollChain(n)
  <2>1. PICK size \in SizesRead(n) :
           call' = [call EXCEPT ![n] =
             IF HasGrown(n, size) THEN Returned(n, "true")
                                  ELSE [call[n] EXCEPT !.pc = "log", !.seen = size]]
    BY <1>5 DEF PollChain
  <2>2. size \in Nat
    BY BoundsAssumption DEF SizesRead, VisibleSize, TypeOK
  <2>3. CASE HasGrown(n, size)
    BY <1>1, <1>3, <2>1, <2>3 DEF TypeOK
  <2>4. CASE ~HasGrown(n, size)
    <3>1. [call[n] EXCEPT !.pc = "log", !.seen = size]
            = [call[n] EXCEPT !.pc = "log", !.seen = size, !.retried = call[n].retried]
      BY <1>1 DEF Call
    <3>2. call[n].retried \in BOOLEAN
      BY <1>1 DEF Call
    <3>3. call' = [call EXCEPT ![n] = [call[n] EXCEPT !.pc = "log", !.seen = size,
                                                      !.retried = call[n].retried]]
      BY <2>1, <2>4, <3>1
    <3>4. (\E c \in Call : call' = [call EXCEPT ![n] = c]) /\ KeepsCall(n)
      BY <1>2, <2>2, <3>2, <3>3
    <3> QED
      BY <1>1, <3>3, <3>4 DEF TypeOK
  <2> QED
    BY <2>3, <2>4
<1>6. CASE ReadClock(n)
  <2>1. CASE RetryDue(n)
    <3>1. [call[n] EXCEPT !.pc = "retry"]
            = [call[n] EXCEPT !.pc = "retry", !.seen = call[n].seen,
                              !.retried = call[n].retried]
      BY <1>1 DEF Call
    <3>2. call[n].retried \in BOOLEAN /\ call[n].seen \in Nat
      BY <1>1 DEF Call
    <3>3. call' = [call EXCEPT ![n] = [call[n] EXCEPT !.pc = "retry", !.seen = call[n].seen,
                                                      !.retried = call[n].retried]]
      BY <1>6, <2>1, <3>1 DEF ReadClock
    <3>4. (\E c \in Call : call' = [call EXCEPT ![n] = c]) /\ KeepsCall(n)
      BY <1>2, <3>2, <3>3
    <3> QED
      BY <1>1, <3>3, <3>4 DEF TypeOK
  <2>2. CASE ~RetryDue(n)
    BY <1>1, <1>4, <1>6, <2>2 DEF ReadClock, TypeOK
  <2> QED
    BY <2>1, <2>2
<1>7. CASE SubmitAgain(n)
  BY <1>1, <1>4, <1>7 DEF SubmitAgain, TypeOK
<1> QED
  BY <1>5, <1>6, <1>7

\* A step only appends to the chain, so what was read off it stays there.
LEMMA ChainGrows ==
    ASSUME TypeOK, [Next]_vars
    PROVE  /\ \/ chain' = chain
              \/ \E b \in Block : chain' = Append(chain, b)
           /\ Len(chain) <= Len(chain')
           /\ \A i \in 1..Len(chain) : chain'[i] = chain[i]
           /\ asked \subseteq asked'
<1>1. ASSUME NEW b \in Block, chain' = Append(chain, b)
      PROVE  Len(chain) <= Len(chain') /\ \A i \in 1..Len(chain) : chain'[i] = chain[i]
  BY <1>1 DEF TypeOK
<1>2. CASE UNCHANGED vars
  BY <1>2 DEF vars, TypeOK
<1>3. CASE \E n \in Callers :
              \/ LeaveNetwork(n) \/ UpdateCommittee(n)
              \/ ReadChainSize(n) \/ Submit(n)
              \/ PollChain(n) \/ ReadClock(n) \/ SubmitAgain(n)
              \/ Tick(n) \/ Raise(n) \/ CatchUp(n)
  <2>1. chain' = chain /\ asked \subseteq asked'
    BY <1>3 DEF LeaveNetwork, UpdateCommittee, ReadChainSize, Submit, PollChain,
           ReadClock, SubmitAgain, Tick, Raise, CatchUp, MayCall
  <2> QED
    BY <2>1 DEF TypeOK
<1>4. CASE \E p \in pending : Commit(p)
  <2> PICK p \in pending : Commit(p)
    BY <1>4
  <2>1. [call |-> p.call, roster |-> p.keys, read |-> p.read,
         without |-> p.without] \in Block
    BY DEF TypeOK, Proposal, Block
  <2> QED
    BY <1>1, <2>1 DEF Commit
<1>5. CASE Traffic
  <2>1. [call |-> 0, roster |-> chain[Len(chain)].roster, read |-> Len(chain),
         without |-> {}] \in Block
    <3>1. chain[Len(chain)] \in Block /\ Len(chain) \in Nat
      BY DEF TypeOK
    <3> QED
      BY <3>1 DEF Block
  <2> QED
    BY <1>1, <1>5, <2>1 DEF Traffic
<1> QED
  BY <1>2, <1>3, <1>4, <1>5 DEF Next

LEMMA TypeInit == Init => TypeOK
<1> SUFFICES ASSUME Init PROVE TypeOK
  OBVIOUS
<1> DEFINE genesis == [call |-> 0, roster |-> Genesis, read |-> 0, without |-> {}]
<1>1. genesis \in Block
  BY MembersAssumption DEF Block
<1>2. chain \in Seq(Block) /\ Len(chain) = 1
  BY <1>1 DEF Init
<1>3. \A n \in Callers : NoCall("none") \in Call
  BY DEF NoCall, Call
<1> QED
  BY <1>2, <1>3 DEF Init, TypeOK

LEMMA TypeStep == TypeOK /\ [Next]_vars => TypeOK'
<1> SUFFICES ASSUME TypeOK, [Next]_vars PROVE TypeOK'
  OBVIOUS
<1>0. chain' \in Seq(Block) /\ Len(chain') >= 1 /\ Len(chain) <= Len(chain')
  <2>1. chain \in Seq(Block) /\ Len(chain) >= 1 /\ Len(chain) \in Nat
    BY DEF TypeOK
  <2>2. Len(chain) <= Len(chain') /\ (chain' = chain \/ \E b \in Block : chain' = Append(chain, b))
    BY ChainGrows
  <2>3. chain' \in Seq(Block)
    BY <2>1, <2>2
  <2>4. Len(chain') \in Nat
    BY <2>3
  <2> QED BY <2>1, <2>2, <2>3, <2>4
<1>1. CASE UNCHANGED vars
  BY <1>1 DEF vars, TypeOK
<1>2. ASSUME NEW n \in Callers, LeaveNetwork(n) PROVE TypeOK'
  <2>1. height[n] \in Nat /\ height[n] \in 1..Len(chain)
    BY <1>2 DEF TypeOK, LeaveNetwork, MayCall
  <2>2. NewNetwork(Peers(n), n) \in SUBSET Containers /\ {n} \in SUBSET Containers
    <3>1. chain[height[n]] \in Block
      BY <2>1 DEF TypeOK
    <3> QED
      BY <3>1, MembersAssumption DEF NewNetwork, Peers, Block
  <2>3. UpdateCommitteeCall(n, NewNetwork(Peers(n), n), height[n], {n}, TRUE) \in Call
    BY <2>1, <2>2, CallStartShape
  <2>4. \E c \in Call : call' = [call EXCEPT ![n] = c]
    BY <1>2, <2>3 DEF LeaveNetwork
  <2>5. /\ calls' = calls + 1 /\ asked' = asked \cup {n}
        /\ chain' = chain /\ height' = height /\ pending' = pending
    BY <1>2 DEF LeaveNetwork, MayCall
  <2> QED
    BY <2>4, <2>5 DEF TypeOK
<1>3. ASSUME NEW n \in Callers, UpdateCommittee(n) PROVE TypeOK'
  <2>0. PICK keys \in Rosters :
         call' = [call EXCEPT ![n] = UpdateCommitteeCall(n, keys, 0, {}, FALSE)]
    BY <1>3 DEF UpdateCommittee
  <2>1. UpdateCommitteeCall(n, keys, 0, {}, FALSE) \in Call
    BY CallStartShape, MembersAssumption
  <2>2. \E c \in Call : call' = [call EXCEPT ![n] = c]
    BY <2>0, <2>1
  <2>3. /\ calls' = calls + 1 /\ asked' = asked
        /\ chain' = chain /\ height' = height /\ pending' = pending
    BY <1>3 DEF UpdateCommittee, MayCall
  <2> QED
    BY <2>2, <2>3 DEF TypeOK
<1>4. ASSUME NEW n \in Callers, ReadChainSize(n) PROVE TypeOK'
  <2>1. \A size \in SizesRead(n) : size \in Nat
    BY BoundsAssumption DEF SizesRead, VisibleSize, TypeOK
  <2>2. \A size \in Nat : [call[n] EXCEPT !.size = size, !.pc = "submit"] \in Call
    BY CallFields DEF Call
  <2>3. PICK size \in Nat : call' = [call EXCEPT ![n].size = size, ![n].pc = "submit"]
    BY <1>4, <2>1 DEF ReadChainSize
  <2>4. call' = [call EXCEPT ![n] = [call[n] EXCEPT !.size = size, !.pc = "submit"]]
    BY <2>3
  <2>5. [call[n] EXCEPT !.size = size, !.pc = "submit"] \in Call
    BY <2>2
  <2> QED
    BY <1>4, <2>4, <2>5 DEF TypeOK, ReadChainSize
<1>5. ASSUME NEW n \in Callers, Submit(n) PROVE TypeOK'
  <2>1. [call[n] EXCEPT !.pc = "poll"] \in Call
    BY CallFields DEF Call
  <2> QED
    BY <1>5, <2>1, ProposalShape DEF TypeOK, Submit
<1>6. ASSUME NEW n \in Callers, PollChain(n) \/ ReadClock(n) PROVE TypeOK'
  <2>1. \E c \in Call : call' = [call EXCEPT ![n] = c]
    BY <1>6, PassStep
  <2> QED
    BY <1>6, <2>1 DEF TypeOK, PollChain, ReadClock
<1>7. ASSUME NEW n \in Callers, SubmitAgain(n) PROVE TypeOK'
  <2>1. \E c \in Call : call' = [call EXCEPT ![n] = c]
    BY <1>7, PassStep
  <2>2. ProposalOf(n, 2) \in Proposal
    BY ProposalShape
  <2> QED
    BY <1>7, <2>1, <2>2 DEF TypeOK, SubmitAgain
<1>9. ASSUME NEW n \in Callers, Tick(n) PROVE TypeOK'
  <2>1. \A clock \in {"late", "over"} : [call[n] EXCEPT !.clock = clock] \in Call
    BY CallFields DEF Call
  <2>2. \E c \in Call : call' = [call EXCEPT ![n] = c]
    BY <1>9, <2>1 DEF Tick, TypeOK
  <2> QED
    BY <1>9, <2>2 DEF TypeOK, Tick
<1>10. ASSUME NEW n \in Callers, Raise(n) PROVE TypeOK'
  BY <1>10, ReturnedShape DEF TypeOK, Raise
<1>11. ASSUME NEW n \in Callers, CatchUp(n) PROVE TypeOK'
  BY <1>11 DEF TypeOK, CatchUp
<1>12. ASSUME NEW p \in pending, Commit(p) PROVE TypeOK'
  <2>1. chain' \in Seq(Block) /\ Len(chain') >= 1 /\ Len(chain) <= Len(chain')
    BY <1>0
  <2> QED
    BY <1>12, <2>1 DEF TypeOK, Commit
<1>13. ASSUME Traffic PROVE TypeOK'
  <2>1. chain' \in Seq(Block) /\ Len(chain') >= 1 /\ Len(chain) <= Len(chain')
    BY <1>0
  <2> QED
    BY <1>13, <2>1 DEF TypeOK, Traffic
<1> QED
  BY <1>1, <1>2, <1>3, <1>4, <1>5, <1>6, <1>7, <1>9, <1>10, <1>11,
     <1>12, <1>13 DEF Next

\* The variables keep their shape in every behaviour, for every instance.
THEOREM TypeCorrect == Spec => []TypeOK
<1> QED
  BY TypeInit, TypeStep, PTL DEF Spec
-----------------------------------------------------------------------------
(* Where the lists in circulation come from, one step back *)

Unmoved(n) ==
    /\ Busy(n)
    /\ call'[n].keys = call[n].keys
    /\ call'[n].read = call[n].read
    /\ call'[n].without = call[n].without

GivenNow(n) ==
    /\ call'[n].keys \in Rosters
    /\ call'[n].read = 0
    /\ call'[n].without = {}

ReadNow(n) ==
    /\ call'[n].read \in 1..Len(chain)
    /\ call'[n].without = {n}
    /\ n \in asked'
    /\ call'[n].keys = chain[call'[n].read].roster \ {n}
    /\ Cardinality(call'[n].keys) >= 4

\* The fields of a call that update_committee lets through.
LEMMA StartedFields ==
    ASSUME NEW keys, NEW read, NEW without
    PROVE  /\ Started(keys, read, without).keys = keys
           /\ Started(keys, read, without).read = read
           /\ Started(keys, read, without).without = without
  BY DEF Started, NoCall

\* A call's list is the one it started with, and a call starts with a list an
\* operator gave or with the caller's own reading of the roster.
LEMMA CallOrigins ==
    ASSUME TypeOK, [Next]_vars, NEW n \in Callers, Busy(n)'
    PROVE  Unmoved(n) \/ GivenNow(n) \/ ReadNow(n)
<1>1. CASE call'[n] = call[n]
  BY <1>1 DEF Unmoved, Busy
<1>2. CASE LeaveNetwork(n)
  <2> DEFINE keys == NewNetwork(Peers(n), n)
  <2>1. call'[n] = UpdateCommitteeCall(n, keys, height[n], {n}, TRUE)
    BY <1>2 DEF LeaveNetwork, TypeOK
  <2>2. EnoughKeys(keys) /\ call'[n] = Started(keys, height[n], {n})
    <3>1. [NoCall("false") EXCEPT !.id = calls + 1].pc = "idle"
      BY DEF NoCall
    <3> QED
      BY <2>1, <3>1 DEF UpdateCommitteeCall, Busy
  <2>3. height[n] \in 1..Len(chain) /\ n \in asked'
    BY <1>2 DEF LeaveNetwork, MayCall, TypeOK
  <2>4. keys = chain[height[n]].roster \ {n}
    BY DEF NewNetwork, Peers
  <2> HIDE DEF keys
  <2> QED
    BY <2>2, <2>3, <2>4, StartedFields DEF ReadNow, EnoughKeys
<1>3. CASE UpdateCommittee(n)
  <2>1. PICK keys \in Rosters :
           call'[n] = UpdateCommitteeCall(n, keys, 0, {}, FALSE)
    BY <1>3 DEF UpdateCommittee, TypeOK
  <2>2. call'[n] = Started(keys, 0, {})
    <3>1. [NoCall("false") EXCEPT !.id = calls + 1].pc = "idle"
      BY DEF NoCall
    <3> QED
      BY <2>1, <3>1 DEF UpdateCommitteeCall, Busy
  <2> QED
    BY <2>2, StartedFields DEF GivenNow
<1>4. CASE ReadChainSize(n) \/ Submit(n) \/ Tick(n)
  <2>1. Busy(n)
    BY <1>4 DEF ReadChainSize, Submit, Tick, Busy
  <2>2. call[n] \in Call
    BY CallFields
  <2>3. CASE ReadChainSize(n)
    <3>1. PICK size : call'[n] = [call[n] EXCEPT !.size = size, !.pc = "submit"]
      BY <2>3 DEF ReadChainSize, TypeOK
    <3> QED
      BY <2>1, <2>2, <3>1 DEF Unmoved, Call
  <2>4. CASE Submit(n)
    <3>1. call'[n] = [call[n] EXCEPT !.pc = "poll"]
      BY <2>4 DEF Submit, TypeOK
    <3> QED
      BY <2>1, <2>2, <3>1 DEF Unmoved, Call
  <2>5. CASE Tick(n)
    <3>1. PICK clock : call'[n] = [call[n] EXCEPT !.clock = clock]
      BY <2>5 DEF Tick, TypeOK
    <3> QED
      BY <2>1, <2>2, <3>1 DEF Unmoved, Call
  <2> QED
    BY <1>4, <2>3, <2>4, <2>5
<1>5. ASSUME NEW ret PROVE ~(call' = [call EXCEPT ![n] = Returned(n, ret)])
  <2>1. Returned(n, ret).pc = "idle"
    BY DEF Returned, NoCall
  <2> QED
    BY <2>1 DEF Busy, TypeOK
<1>6. CASE PollChain(n) \/ ReadClock(n) \/ SubmitAgain(n)
  <2>1. ASSUME NEW ret PROVE call'[n] # Returned(n, ret)
    BY DEF Returned, NoCall, Busy
  <2> QED
    BY <1>6, <2>1, PassStep DEF Unmoved, KeepsCall
<1>7. CASE Raise(n)
  BY <1>5, <1>7 DEF Raise
<1>8. ASSUME NEW m \in Callers \ {n},
             \/ LeaveNetwork(m) \/ UpdateCommittee(m)
             \/ ReadChainSize(m) \/ Submit(m)
             \/ PollChain(m) \/ ReadClock(m) \/ SubmitAgain(m)
             \/ Tick(m) \/ Raise(m)
      PROVE  call'[n] = call[n]
  BY <1>8 DEF LeaveNetwork, UpdateCommittee, ReadChainSize, Submit, PollChain,
         ReadClock, SubmitAgain, Tick, Raise, TypeOK
<1>9. CASE \/ \E m \in Callers : CatchUp(m)
           \/ \E p \in pending : Commit(p)
           \/ Traffic \/ UNCHANGED vars
  BY <1>1, <1>9 DEF CatchUp, Commit, Traffic, vars
<1> QED
  BY <1>1, <1>2, <1>3, <1>4, <1>6, <1>7, <1>8, <1>9 DEF Next

\* A proposal repeats the list of a call in progress.
LEMMA ProposalOrigins ==
    ASSUME TypeOK, [Next]_vars, NEW p \in pending'
    PROVE  \/ p \in pending
           \/ \E n \in Callers : /\ Busy(n)
                                 /\ p.keys = call[n].keys
                                 /\ p.read = call[n].read
                                 /\ p.without = call[n].without
<1>1. ASSUME NEW n \in Callers, NEW try
      PROVE  /\ ProposalOf(n, try).keys = call[n].keys
             /\ ProposalOf(n, try).read = call[n].read
             /\ ProposalOf(n, try).without = call[n].without
  BY DEF ProposalOf
<1>2. ASSUME NEW n \in Callers, Submit(n) \/ SubmitAgain(n), p \notin pending
      PROVE  Busy(n) /\ \E try \in 1..2 : p = ProposalOf(n, try)
  BY <1>2 DEF Submit, SubmitAgain, Busy
<1>3. ASSUME NEW n \in Callers,
             \/ LeaveNetwork(n) \/ UpdateCommittee(n) \/ ReadChainSize(n)
             \/ PollChain(n) \/ ReadClock(n) \/ Tick(n) \/ Raise(n) \/ CatchUp(n)
      PROVE  pending' = pending
  BY <1>3 DEF LeaveNetwork, UpdateCommittee, ReadChainSize, PollChain,
         ReadClock, Tick, Raise, CatchUp
<1>4. CASE (\E q \in pending : Commit(q)) \/ Traffic \/ UNCHANGED vars
  BY <1>4 DEF Commit, Traffic, vars
<1> QED
  BY <1>1, <1>2, <1>3, <1>4 DEF Next

BlockOf(p) ==
    [call |-> p.call, roster |-> p.keys, read |-> p.read, without |-> p.without]

\* A new block adopts a pending list or repeats the roster in force.
LEMMA BlockOrigins ==
    ASSUME TypeOK, [Next]_vars
    PROVE  \/ chain' = chain
           \/ \E p \in pending : chain' = Append(chain, BlockOf(p))
           \/ chain' = Append(chain, [call |-> 0, roster |-> chain[Len(chain)].roster,
                                      read |-> Len(chain), without |-> {}])
<1>1. ASSUME NEW n \in Callers,
             \/ LeaveNetwork(n) \/ UpdateCommittee(n)
             \/ ReadChainSize(n) \/ Submit(n)
             \/ PollChain(n) \/ ReadClock(n) \/ SubmitAgain(n)
             \/ Tick(n) \/ Raise(n) \/ CatchUp(n)
      PROVE  chain' = chain
  BY <1>1 DEF LeaveNetwork, UpdateCommittee, ReadChainSize, Submit, PollChain,
         ReadClock, SubmitAgain, Tick, Raise, CatchUp
<1>2. CASE UNCHANGED vars
  BY <1>2 DEF vars
<1>3. CASE \E p \in pending : Commit(p)
  BY <1>3 DEF Commit, BlockOf
<1>4. CASE Traffic
  BY <1>4 DEF Traffic
<1> QED
  BY <1>1, <1>2, <1>3, <1>4 DEF Next
-----------------------------------------------------------------------------
(* The inductive invariant *)

LEMMA IInvInit == Init => IInv
<1> SUFFICES ASSUME Init PROVE IInv
  OBVIOUS
<1>1. Len(chain) = 1 /\ chain[1].roster = Genesis /\ DOMAIN chain = {1}
  BY DEF Init
<1>2. TypeOK
  BY TypeInit
<1>3. BlocksDerived /\ ProposalsDerived
  BY <1>1 DEF Init, BlocksDerived, ProposalsDerived
<1>4. \A n \in Callers : ~Busy(n)
  BY DEF Init, Busy, NoCall
<1>5. FourUnlessTold
  BY <1>1, MembersAssumption DEF FourUnlessTold, Four
<1>6. RosterWithinBounds
  BY <1>1 DEF RosterWithinBounds, Undisputed
<1> QED
  BY <1>2, <1>3, <1>4, <1>5, <1>6 DEF IInv, CallsDerived

\* A proposal's list is derived and large enough after the step as before it.
LEMMA ProposalsStep == IInv /\ [Next]_vars => ProposalsDerived'
<1> SUFFICES ASSUME IInv, [Next]_vars, NEW p \in pending'
             PROVE  /\ Derived(p.keys, p.read, p.without, Len(chain))'
                    /\ Four(p.keys)
  BY DEF ProposalsDerived, Four
<1>1. Derived(p.keys, p.read, p.without, Len(chain)) /\ Four(p.keys)
  <2>1. CASE p \in pending
    BY <2>1 DEF IInv, ProposalsDerived
  <2>2. ASSUME NEW n \in Callers, Busy(n), p.keys = call[n].keys,
               p.read = call[n].read, p.without = call[n].without
        PROVE  Derived(p.keys, p.read, p.without, Len(chain)) /\ Four(p.keys)
    BY <2>2 DEF IInv, CallsDerived, Derived, Four, TypeOK
  <2> QED
    BY <2>1, <2>2, ProposalOrigins DEF IInv
<1>2. Derived(p.keys, p.read, p.without, Len(chain))'
  <2>1. TypeOK /\ Len(chain) \in 0..Len(chain) /\ Len(chain) <= Len(chain')
    BY ChainGrows DEF IInv, TypeOK
  <2>2. \A i \in 1..Len(chain) : chain'[i] = chain[i]
    BY <2>1, ChainGrows
  <2>3. asked \subseteq asked' /\ Len(chain') \in Nat
    BY <2>1, ChainGrows, TypeStep DEF TypeOK
  <2> QED
    BY <1>1, <2>1, <2>2, <2>3 DEF Derived
<1> QED
  BY <1>1, <1>2

LEMMA CallsStep == IInv /\ [Next]_vars => CallsDerived'
<1> SUFFICES ASSUME IInv, [Next]_vars, NEW n \in Callers, Busy(n)'
             PROVE  /\ Derived(call[n].keys, call[n].read, call[n].without, Len(chain))'
                    /\ call'[n].read > 0 => /\ call'[n].without = {n}
                                            /\ Cardinality(call'[n].keys) >= 4
  BY DEF CallsDerived
<1>1. TypeOK /\ Len(chain) \in Nat /\ Len(chain') \in Nat
  BY TypeStep DEF IInv, TypeOK
<1>2. /\ Len(chain) <= Len(chain') /\ asked \subseteq asked'
      /\ \A i \in 1..Len(chain) : chain'[i] = chain[i]
  BY <1>1, ChainGrows
<1>3. CASE Unmoved(n)
  <2>1. /\ Derived(call[n].keys, call[n].read, call[n].without, Len(chain))
        /\ call[n].read > 0 => call[n].without = {n} /\ Cardinality(call[n].keys) >= 4
    BY <1>3 DEF Unmoved, IInv, CallsDerived
  <2> QED
    BY <1>1, <1>2, <1>3, <2>1 DEF Unmoved, Derived
<1>4. CASE GivenNow(n)
  BY <1>4 DEF GivenNow, Derived
<1>5. CASE ReadNow(n)
  BY <1>1, <1>2, <1>5 DEF ReadNow, Derived
<1> QED
  BY <1>1, <1>3, <1>4, <1>5, CallOrigins

\* Appending a block whose list is derived keeps the blocks derived; the new
\* block is covered by the same facts about the list it adopts.
LEMMA BlocksStep ==
    IInv /\ [Next]_vars => BlocksDerived' /\ FourUnlessTold' /\ RosterWithinBounds'
<1> SUFFICES ASSUME IInv, [Next]_vars
             PROVE  BlocksDerived' /\ FourUnlessTold' /\ RosterWithinBounds'
  OBVIOUS
<1>1. TypeOK /\ Len(chain) \in Nat \ {0} /\ chain \in Seq(Block)
  BY DEF IInv, TypeOK
<1>2. asked \subseteq asked' /\ \A i \in 1..Len(chain) : chain'[i] = chain[i]
  BY <1>1, ChainGrows
<1> DEFINE Bounded(list) == /\ Undisputed \ asked' \subseteq list
                            /\ list \subseteq Genesis \cup UNION Rosters
<1>3. \A i \in 1..Len(chain) : Four(chain[i].roster) /\ Bounded(chain[i].roster)
  BY <1>1, <1>2 DEF IInv, FourUnlessTold, RosterWithinBounds
<1>4. \A i \in 2..Len(chain) :
          Derived(chain[i].roster, chain[i].read, chain[i].without, i - 1)'
  <2> SUFFICES ASSUME NEW i \in 2..Len(chain)
               PROVE  Derived(chain[i].roster, chain[i].read, chain[i].without, i - 1)'
    BY DEF Derived
  <2>1. Derived(chain[i].roster, chain[i].read, chain[i].without, i - 1)
    BY DEF IInv, BlocksDerived
  <2> QED
    BY <1>1, <1>2, <2>1 DEF Derived
<1>5. CASE chain' = chain
  BY <1>1, <1>3, <1>4, <1>5
     DEF BlocksDerived, FourUnlessTold, RosterWithinBounds, Four,
         Undisputed, Derived
<1>6. ASSUME NEW b \in Block, chain' = Append(chain, b),
             Derived(b.roster, b.read, b.without, Len(chain)), Four(b.roster)
      PROVE  BlocksDerived' /\ FourUnlessTold' /\ RosterWithinBounds'
  <2>1. /\ Len(chain') = Len(chain) + 1 /\ DOMAIN chain' = 1..Len(chain) + 1
        /\ chain'[Len(chain) + 1] = b
    BY <1>1, <1>6
  <2>2. Bounded(b.roster)
    <3>1. CASE b.roster \in Rosters
      BY <3>1 DEF Undisputed
    <3>2. CASE /\ b.read \in 1..Len(chain) /\ b.without \subseteq asked
               /\ b.roster = chain[b.read].roster \ b.without
      BY <1>2, <1>3, <3>2
    <3> QED
      BY <1>6, <3>1, <3>2 DEF Derived
  <2>3. BlocksDerived'
    <3> SUFFICES ASSUME NEW i \in 2..Len(chain')
                 PROVE  Derived(chain[i].roster, chain[i].read, chain[i].without, i - 1)'
      BY DEF BlocksDerived
    <3>1. CASE i \in 2..Len(chain)
      BY <1>4, <3>1 DEF Derived
    <3>2. CASE i = Len(chain) + 1
      BY <1>1, <1>2, <1>6, <2>1, <3>2 DEF Derived
    <3> QED
      BY <1>1, <2>1, <3>1, <3>2
  <2>4. \A i \in DOMAIN chain' : Four(chain'[i].roster) /\ Bounded(chain'[i].roster)
    BY <1>1, <1>2, <1>3, <1>6, <2>1, <2>2
  <2> QED
    BY <2>3, <2>4 DEF FourUnlessTold, RosterWithinBounds, Four, Undisputed
<1>7. ASSUME NEW p \in pending, chain' = Append(chain, BlockOf(p))
      PROVE  BlocksDerived' /\ FourUnlessTold' /\ RosterWithinBounds'
  <2>1. BlockOf(p) \in Block
    BY <1>1 DEF TypeOK, Proposal, Block, BlockOf
  <2>2. Derived(p.keys, p.read, p.without, Len(chain)) /\ Four(p.keys)
    BY DEF IInv, ProposalsDerived
  <2>3. /\ BlockOf(p).roster = p.keys /\ BlockOf(p).read = p.read
        /\ BlockOf(p).without = p.without
    BY DEF BlockOf
  <2> QED
    BY <1>6, <1>7, <2>1, <2>2, <2>3
<1>8. ASSUME chain' = Append(chain, [call |-> 0, roster |-> chain[Len(chain)].roster,
                                     read |-> Len(chain), without |-> {}])
      PROVE  BlocksDerived' /\ FourUnlessTold' /\ RosterWithinBounds'
  <2> DEFINE b == [call |-> 0, roster |-> chain[Len(chain)].roster,
                   read |-> Len(chain), without |-> {}]
  <2>1. chain[Len(chain)] \in Block
    BY <1>1
  <2>2. b \in Block
    BY <1>1, <2>1 DEF Block
  <2>3. Derived(b.roster, b.read, b.without, Len(chain)) /\ Four(b.roster)
    BY <1>1, <1>3 DEF Derived
  <2> HIDE DEF b
  <2> QED
    BY <1>6, <1>8, <2>2, <2>3 DEF b
<1> QED
  BY <1>1, <1>5, <1>7, <1>8, BlockOrigins

\* IInv holds in every reachable state of every instance.
THEOREM Inductive == Spec => []IInv
<1>1. IInv /\ [Next]_vars => IInv'
  BY TypeStep, ProposalsStep, CallsStep, BlocksStep DEF IInv
<1> QED
  BY IInvInit, <1>1, PTL DEF Spec

\* No interleaving of leaves takes a committee below four keys unless an
\* operator's own list does (update_committee's length test, stop_on_failure).
THEOREM NeverBelowFour == Spec => []FourUnlessTold
<1>1. IInv => FourUnlessTold
  BY DEF IInv
<1> QED
  BY Inductive, <1>1, PTL

\* A founding member that neither asked to leave nor is left out by an operator
\* is never removed, and nobody is admitted but by an operator's list.
THEOREM SeatsAreKept == Spec => []RosterWithinBounds
<1>1. IInv => RosterWithinBounds
  BY DEF IInv
<1> QED
  BY Inductive, <1>1, PTL

\* A departed key comes back only by an operator's list or by a list read
\* before it left: leave_network's read-modify-write is the only hole.
THEOREM OnlyStaleListsReadmit == Spec => []ReadmissionIsStale
<1>1. IInv => ReadmissionIsStale
  <2> SUFFICES ASSUME IInv, NEW i \in 2..Len(chain),
                      NEW k \in chain[i].roster \ chain[i-1].roster
               PROVE  \/ chain[i].roster \in Rosters
                      \/ /\ chain[i].read \in 1..i-2
                         /\ k \in chain[chain[i].read].roster
    BY DEF ReadmissionIsStale
  <2>1. Derived(chain[i].roster, chain[i].read, chain[i].without, i - 1)
    BY DEF IInv, BlocksDerived
  <2>2. Len(chain) \in Nat
    BY DEF IInv, TypeOK
  <2> QED
    BY <2>1, <2>2 DEF Derived
<1> QED
  BY Inductive, <1>1, PTL
-----------------------------------------------------------------------------
(* Refinement of CommitteeRoster *)

InForce == chain[Len(chain)].roster
Past == {chain[i].roster : i \in DOMAIN chain}
Floating == {p.keys : p \in pending}

\* The instance's Cardinality is the library's.
LEMMA SameCardinality == \A S : Roster!Cardinality(S) = Cardinality(S)
  BY Zenon DEF Roster!Cardinality, Cardinality

\* Submitting a list, again or for the first time, is the abstract Propose.
LEMMA SubmissionsPropose ==
    ASSUME IInv, NEW n \in Callers, NEW try, Busy(n), chain' = chain,
           pending' = pending \cup {ProposalOf(n, try)}
    PROVE  Roster!Propose
<1>1. ProposalOf(n, try).keys = call[n].keys
  BY DEF ProposalOf
<1>2. Floating' = Floating \cup {call[n].keys}
  BY <1>1 DEF Floating
<1>3. InForce' = InForce /\ Past' = Past
  BY DEF InForce, Past
<1>4. /\ Derived(call[n].keys, call[n].read, call[n].without, Len(chain))
      /\ call[n].read > 0 => call[n].without = {n} /\ Cardinality(call[n].keys) >= 4
  BY DEF IInv, CallsDerived
<1>5. CASE call[n].keys \in Rosters
  BY <1>2, <1>3, <1>5 DEF Roster!Propose, Roster!Float, InForce, Past, Floating
<1>6. CASE /\ call[n].read \in 1..Len(chain)
           /\ call[n].keys = chain[call[n].read].roster \ call[n].without
  <2>1. chain[call[n].read].roster \in Past
    BY <1>6 DEF Past, IInv, TypeOK
  <2>2. call[n].keys = chain[call[n].read].roster \ {n} /\ Cardinality(call[n].keys) >= 4
    BY <1>4, <1>6
  <2>3. \E old \in Past : /\ call[n].keys = old \ {n}
                         /\ Roster!Cardinality(old \ {n}) >= 4
    BY <2>1, <2>2, SameCardinality
  <2> QED
    BY <1>2, <1>3, <2>3 DEF Roster!Propose, Roster!Float, InForce, Past, Floating
<1> QED
  BY <1>4, <1>5, <1>6 DEF Derived

LEMMA AppendedChain ==
    ASSUME TypeOK, NEW b \in Block, chain' = Append(chain, b)
    PROVE  InForce' = b.roster /\ Past' = Past \cup {b.roster}
<1>1. /\ Len(chain) \in Nat /\ Len(chain') = Len(chain) + 1
      /\ DOMAIN chain = 1..Len(chain) /\ DOMAIN chain' = 1..Len(chain) + 1
      /\ chain'[Len(chain) + 1] = b
      /\ \A i \in 1..Len(chain) : chain'[i] = chain[i]
  BY DEF TypeOK
<1>2. InForce' = b.roster
  BY <1>1 DEF InForce
<1>3. Past' = Past \cup {b.roster}
  <2>1. Past' \subseteq Past \cup {b.roster}
    BY <1>1 DEF Past
  <2>2. Past \subseteq Past'
    BY <1>1 DEF Past
  <2>3. b.roster \in Past'
    BY <1>1 DEF Past
  <2> QED
    BY <2>1, <2>2, <2>3
<1> QED
  BY <1>2, <1>3

LEMMA RosterStep == IInv /\ [Next]_vars => [Roster!Next]_(Roster!vars)
<1> SUFFICES ASSUME IInv, [Next]_vars
             PROVE  Roster!Next \/ (InForce' = InForce /\ Past' = Past /\ Floating' = Floating)
  BY DEF Roster!vars, InForce, Past, Floating
<1>1. CASE chain' = chain /\ pending' = pending
  BY <1>1 DEF InForce, Past, Floating
<1>2. ASSUME NEW n \in Callers,
             \/ LeaveNetwork(n) \/ UpdateCommittee(n) \/ ReadChainSize(n)
             \/ PollChain(n) \/ ReadClock(n) \/ Tick(n) \/ Raise(n) \/ CatchUp(n)
      PROVE  chain' = chain /\ pending' = pending
  BY <1>2 DEF LeaveNetwork, UpdateCommittee, ReadChainSize, PollChain,
         ReadClock, Tick, Raise, CatchUp
<1>3. ASSUME NEW n \in Callers, Submit(n) \/ SubmitAgain(n)
      PROVE  Roster!Next
  <2>1. /\ Busy(n) /\ chain' = chain
        /\ \E try \in 1..2 : pending' = pending \cup {ProposalOf(n, try)}
    BY <1>3 DEF Submit, SubmitAgain, Busy
  <2> QED
    BY <2>1, SubmissionsPropose DEF Roster!Next
<1>4. ASSUME NEW p \in pending, Commit(p)
      PROVE  Roster!Next
  <2>1. chain' = Append(chain, BlockOf(p)) /\ pending' = pending \ {p}
    BY <1>4 DEF Commit, BlockOf
  <2>2. BlockOf(p) \in Block /\ BlockOf(p).roster = p.keys
    BY DEF IInv, TypeOK, Proposal, Block, BlockOf
  <2>3. InForce' = p.keys /\ Past' = Past \cup {p.keys}
    BY <2>1, <2>2, AppendedChain DEF IInv
  <2>4. p.keys \in Floating /\ Floating' \in {Floating, Floating \ {p.keys}}
    <3>1. CASE \E q \in pending \ {p} : q.keys = p.keys
      <4>1. Floating' = Floating
        BY <2>1, <3>1 DEF Floating
      <4> QED
        BY <4>1 DEF Floating
    <3>2. CASE \A q \in pending \ {p} : q.keys # p.keys
      <4>1. Floating' = Floating \ {p.keys}
        BY <2>1, <3>2 DEF Floating
      <4> QED
        BY <4>1 DEF Floating
    <3> QED
      BY <3>1, <3>2
  <2>5. Roster!Adopt
    BY <2>3, <2>4 DEF Roster!Adopt, InForce, Past, Floating
  <2> QED
    BY <2>5 DEF Roster!Next
<1>5. CASE Traffic
  <2> DEFINE b == [call |-> 0, roster |-> chain[Len(chain)].roster,
                   read |-> Len(chain), without |-> {}]
  <2>1. chain' = Append(chain, b) /\ pending' = pending
    BY <1>5 DEF Traffic
  <2>2. Len(chain) \in 1..Len(chain) /\ chain[Len(chain)] \in Block
    BY DEF IInv, TypeOK
  <2>3. b \in Block /\ b.roster = InForce /\ InForce \in Past
    BY <2>2 DEF Block, InForce, Past, IInv, TypeOK
  <2> HIDE DEF b
  <2>4. InForce' = InForce /\ Past' = Past
    BY <2>1, <2>3, AppendedChain DEF IInv
  <2> QED
    BY <2>1, <2>4 DEF Floating
<1>6. CASE UNCHANGED vars
  BY <1>1, <1>6 DEF vars
<1> QED
  BY <1>1, <1>2, <1>3, <1>4, <1>5, <1>6 DEF Next

\* The calls, their retries and timeouts, and a ledger that delays what it is
\* given, implement the abstract roster.
THEOREM ImplementsRoster == Spec => RosterSpec
<1>1. Init => Roster!Init
  <2> SUFFICES ASSUME Init PROVE Roster!Init
    OBVIOUS
  <2>1. Len(chain) = 1 /\ chain[1].roster = Genesis /\ DOMAIN chain = {1} /\ pending = {}
    BY DEF Init
  <2> QED
    BY <2>1 DEF Roster!Init
<1> QED
  BY <1>1, RosterStep, Inductive, PTL DEF Spec, RosterSpec, Roster!Spec
-----------------------------------------------------------------------------
(* What one call may leave on the chain *)

PendingOf(id) == {p \in pending : p.call = id}

\* The submissions a call in progress may still make.
SubmissionsLeft(n) ==
    CASE call[n].pc \in {"poll", "log"} /\ call[n].retried -> 0
      [] call[n].pc \in {"poll", "log"} /\ ~call[n].retried -> 1
      [] call[n].pc = "retry" -> 1
      [] OTHER -> 2

\* The call's blocks and proposals, and those it may still make, are two at most.
Budget(id, left) ==
    /\ IsFiniteSet(PendingOf(id))
    /\ Cardinality(BlocksOf(id)) + Cardinality(PendingOf(id)) + left <= 2

\* Calls in progress have numbers of their own, and none exceeds its budget.
CallsCounted ==
    /\ \A i \in DOMAIN chain : chain[i].call <= calls
    /\ \A p \in pending : p.call \in 1..calls
    /\ \A n \in Callers : Busy(n) => /\ call[n].id \in 1..calls
                                     /\ Budget(call[n].id, SubmissionsLeft(n))
    /\ \A n, m \in Callers : Busy(n) /\ Busy(m) /\ call[n].id = call[m].id => n = m
    /\ \A id \in 1..calls : Budget(id, 0)

LEMMA BlocksOfFinite ==
    ASSUME TypeOK, NEW id
    PROVE  IsFiniteSet(BlocksOf(id)) /\ Cardinality(BlocksOf(id)) \in Nat
<1>1. Len(chain) \in Nat /\ DOMAIN chain = 1..Len(chain)
  BY DEF TypeOK
<1>2. BlocksOf(id) \in SUBSET (1..Len(chain))
  BY <1>1 DEF BlocksOf
<1>3. IsFiniteSet(1..Len(chain))
  BY <1>1, FS_Interval
<1>4. IsFiniteSet(BlocksOf(id))
  BY <1>2, <1>3, FS_Subset
<1> QED
  BY <1>4, FS_CardinalityType

\* A budget only depends on the call's blocks and proposals.
LEMMA BudgetKept ==
    ASSUME NEW id, NEW left \in 0..2, Budget(id, left),
           BlocksOf(id)' = BlocksOf(id), PendingOf(id)' = PendingOf(id)
    PROVE  Budget(id, left)'
  BY DEF Budget

\* A budget of one submission more covers one of two.
LEMMA BudgetLess ==
    ASSUME TypeOK, NEW id, NEW more \in 0..2, NEW left \in 0..2, left <= more,
           Budget(id, more)
    PROVE  Budget(id, left)
<1>1. Cardinality(BlocksOf(id)) \in Nat
  BY BlocksOfFinite
<1>2. Cardinality(PendingOf(id)) \in Nat
  BY FS_CardinalityType DEF Budget
<1> QED
  BY <1>1, <1>2 DEF Budget

\* A proposal that is committed becomes a block, one for one.
LEMMA BudgetCommitted ==
    ASSUME TypeOK, NEW p \in pending, Commit(p), NEW id, NEW left \in 0..2,
           Budget(id, left)
    PROVE  Budget(id, left)'
<1>1. /\ chain' = Append(chain, BlockOf(p)) /\ pending' = pending \ {p}
      /\ BlockOf(p) \in Block /\ BlockOf(p).call = p.call
  BY DEF Commit, TypeOK, Proposal, Block, BlockOf
<1>2. /\ Len(chain) \in Nat /\ DOMAIN chain' = 1..Len(chain) + 1
      /\ DOMAIN chain = 1..Len(chain)
      /\ chain'[Len(chain) + 1] = BlockOf(p)
      /\ \A i \in 1..Len(chain) : chain'[i] = chain[i]
  BY <1>1 DEF TypeOK
<1>3. CASE p.call # id
  <2>1. BlocksOf(id)' = BlocksOf(id)
    BY <1>1, <1>2, <1>3 DEF BlocksOf
  <2>2. PendingOf(id)' = PendingOf(id)
    BY <1>1, <1>3 DEF PendingOf
  <2> QED
    BY <2>1, <2>2, BudgetKept
<1>4. CASE p.call = id
  <2>1. BlocksOf(id)' = BlocksOf(id) \cup {Len(chain) + 1}
    BY <1>1, <1>2, <1>4 DEF BlocksOf
  <2>2. PendingOf(id)' = PendingOf(id) \ {p} /\ p \in PendingOf(id)
    BY <1>1, <1>4 DEF PendingOf
  <2>3. Len(chain) + 1 \notin BlocksOf(id)
    BY <1>2 DEF BlocksOf
  <2>4. Cardinality(BlocksOf(id)') = Cardinality(BlocksOf(id)) + 1
    BY <2>1, <2>3, BlocksOfFinite, FS_AddElement
  <2>5. /\ IsFiniteSet(PendingOf(id)')
        /\ Cardinality(PendingOf(id)') = Cardinality(PendingOf(id)) - 1
    BY <2>2, FS_RemoveElement DEF Budget
  <2>6. Cardinality(BlocksOf(id)) \in Nat /\ Cardinality(PendingOf(id)) \in Nat
    BY BlocksOfFinite, FS_CardinalityType DEF Budget
  <2> QED
    BY <2>4, <2>5, <2>6 DEF Budget
<1> QED
  BY <1>3, <1>4

\* A submission takes one from what its call has left.
LEMMA BudgetSubmitted ==
    ASSUME TypeOK, NEW n \in Callers, NEW try \in 1..2, chain' = chain,
           pending' = pending \cup {ProposalOf(n, try)},
           NEW id, NEW left \in 0..2,
           Budget(id, IF id = call[n].id THEN left + 1 ELSE left)
    PROVE  Budget(id, left)'
<1>1. BlocksOf(id)' = BlocksOf(id)
  BY DEF BlocksOf
<1>2. ProposalOf(n, try).call = call[n].id
  BY DEF ProposalOf
<1>3. CASE id # call[n].id
  <2>1. PendingOf(id)' = PendingOf(id)
    BY <1>2, <1>3 DEF PendingOf
  <2> QED
    BY <1>1, <1>3, <2>1, BudgetKept
<1>4. CASE id = call[n].id
  <2>1. PendingOf(id)' = PendingOf(id) \cup {ProposalOf(n, try)}
    BY <1>2, <1>4 DEF PendingOf
  <2>2. IsFiniteSet(PendingOf(id)) /\ Cardinality(PendingOf(id)) \in Nat
    BY FS_CardinalityType DEF Budget
  <2>3. /\ IsFiniteSet(PendingOf(id)')
        /\ Cardinality(PendingOf(id)') \in Nat
        /\ Cardinality(PendingOf(id)') <= Cardinality(PendingOf(id)) + 1
    <3>1. /\ IsFiniteSet(PendingOf(id)')
          /\ Cardinality(PendingOf(id)') = IF ProposalOf(n, try) \in PendingOf(id)
                                           THEN Cardinality(PendingOf(id))
                                           ELSE Cardinality(PendingOf(id)) + 1
      BY <2>1, <2>2, FS_AddElement
    <3> QED
      BY <2>2, <3>1
  <2>4. Cardinality(BlocksOf(id)) \in Nat
    BY BlocksOfFinite
  <2> QED
    BY <1>1, <1>4, <2>2, <2>3, <2>4 DEF Budget
<1> QED
  BY <1>3, <1>4

\* Blocks of client transactions count for no call.
LEMMA BudgetTraffic ==
    ASSUME TypeOK, Traffic, NEW id \in Nat \ {0}, NEW left \in 0..2, Budget(id, left)
    PROVE  Budget(id, left)'
<1> DEFINE b == [call |-> 0, roster |-> chain[Len(chain)].roster,
                 read |-> Len(chain), without |-> {}]
<1>1. chain' = Append(chain, b) /\ pending' = pending /\ b.call = 0
  BY DEF Traffic
<1> HIDE DEF b
<1>2. /\ Len(chain) \in Nat /\ DOMAIN chain' = 1..Len(chain) + 1
      /\ DOMAIN chain = 1..Len(chain)
      /\ chain'[Len(chain) + 1] = b
      /\ \A i \in 1..Len(chain) : chain'[i] = chain[i]
  BY <1>1 DEF TypeOK
<1>3. BlocksOf(id)' = BlocksOf(id)
  BY <1>1, <1>2 DEF BlocksOf
<1>4. PendingOf(id)' = PendingOf(id)
  BY <1>1 DEF PendingOf
<1> QED
  BY <1>3, <1>4, BudgetKept

\* A number that no block and no proposal bears has its whole budget.
LEMMA BudgetNew ==
    ASSUME BlocksOf(calls + 1) = {}, PendingOf(calls + 1) = {}
    PROVE  Budget(calls + 1, 2)
  BY FS_EmptySet DEF Budget

LEMMA LeftIsSmall == ASSUME NEW n PROVE SubmissionsLeft(n) \in 0..2 /\ SubmissionsLeft(n)' \in 0..2
  BY DEF SubmissionsLeft

\* A pass that does not submit leaves the call no more submissions than before.
LEMMA LeftStep ==
    ASSUME TypeOK, NEW n \in Callers, PollChain(n) \/ ReadClock(n), Busy(n)'
    PROVE  SubmissionsLeft(n)' <= SubmissionsLeft(n)
<1>1. call[n] \in Call
  BY CallFields
<1>2. ASSUME NEW ret PROVE call'[n] # Returned(n, ret)
  BY DEF Returned, NoCall, Busy
<1>3. CASE PollChain(n)
  <2>1. \E size : call'[n] = [call[n] EXCEPT !.pc = "log", !.seen = size]
    BY <1>2, <1>3 DEF PollChain, TypeOK
  <2>2. call[n].pc = "poll" /\ call'[n].pc = "log" /\ call'[n].retried = call[n].retried
    BY <1>1, <1>3, <2>1 DEF PollChain, Call
  <2> QED
    BY <2>2 DEF SubmissionsLeft
<1>4. CASE ReadClock(n) /\ RetryDue(n)
  <2>1. call[n].pc = "log" /\ call'[n] = [call[n] EXCEPT !.pc = "retry"] /\ ~call[n].retried
    BY <1>4 DEF ReadClock, RetryDue, TypeOK
  <2>2. call'[n].pc = "retry"
    BY <1>1, <2>1 DEF Call
  <2> QED
    BY <2>1, <2>2 DEF SubmissionsLeft
<1>5. CASE ReadClock(n) /\ ~RetryDue(n)
  <2>1. call[n].pc = "log" /\ call'[n] = AfterPass(n)
    BY <1>5 DEF ReadClock, TypeOK
  <2>2. call'[n] = [call[n] EXCEPT !.pc = "poll", !.seen = 0,
                        !.retried = call[n].retried \/ call[n].pc = "retry"]
    BY <1>2, <2>1 DEF AfterPass
  <2>3. call'[n].pc = "poll" /\ call'[n].retried = call[n].retried
    BY <1>1, <2>1, <2>2 DEF Call
  <2> QED
    BY <2>1, <2>3 DEF SubmissionsLeft
<1> QED
  BY <1>3, <1>4, <1>5

\* What is known of a budget's numbers is known of the call that has them.
LEMMA BudgetOfCall ==
    ASSUME NEW n, NEW id, NEW left, Budget(id, left)',
           id = call'[n].id, left = SubmissionsLeft(n)'
    PROVE  Budget(call[n].id, SubmissionsLeft(n))'
  BY DEF Budget, BlocksOf, PendingOf

\* A call that goes on without a submission, or ends.
LEMMA CountedWithoutSubmission ==
    ASSUME TypeOK, CallsCounted, NEW n \in Callers, Busy(n),
           UNCHANGED <<chain, pending, calls>>, \A m \in Callers \ {n} : call'[m] = call[m],
           call'[n].id = call[n].id, Busy(n)' => SubmissionsLeft(n)' <= SubmissionsLeft(n)
    PROVE  CallsCounted'
<1>1. /\ \A m \in Callers : call'[m].id = call[m].id
      /\ \A m \in Callers : Busy(m)' => Busy(m)
  BY DEF Busy
<1>2. ASSUME NEW id, NEW left \in 0..2, Budget(id, left)
      PROVE  Budget(id, left)'
  BY <1>2, BudgetKept DEF BlocksOf, PendingOf
<1>3. ASSUME NEW m \in Callers, Busy(m)'
      PROVE  call'[m].id \in 1..calls /\ Budget(call[m].id, SubmissionsLeft(m))'
  <2>1. call[m].id \in 1..calls /\ Budget(call[m].id, SubmissionsLeft(m))
    BY <1>1, <1>3 DEF CallsCounted
  <2>2. SubmissionsLeft(m)' <= SubmissionsLeft(m)
    <3>1. CASE m = n
      BY <1>3, <3>1
    <3>2. CASE m # n
      <4>1. SubmissionsLeft(m)' = SubmissionsLeft(m)
        BY <1>1, <3>2 DEF SubmissionsLeft
      <4> QED
        BY <4>1, LeftIsSmall
    <3> QED
      BY <3>1, <3>2
  <2>3. PICK id \in {call[m].id}, left \in {SubmissionsLeft(m)'} : left \in 0..2
    BY LeftIsSmall
  <2>4. Budget(id, left)
    BY <2>1, <2>2, <2>3, LeftIsSmall, BudgetLess
  <2>5. Budget(id, left)'
    BY <1>2, <2>3, <2>4
  <2> QED
    BY <1>1, <2>1, <2>3, <2>5, BudgetOfCall
<1> QED
  BY <1>1, <1>2, <1>3 DEF CallsCounted

\* A call that submits and goes on with one submission less, or ends.
LEMMA CountedWithSubmission ==
    ASSUME TypeOK, CallsCounted, NEW n \in Callers, Busy(n), NEW try \in 1..2,
           UNCHANGED <<chain, calls>>, pending' = pending \cup {ProposalOf(n, try)},
           \A m \in Callers \ {n} : call'[m] = call[m], call'[n].id = call[n].id,
           SubmissionsLeft(n) >= 1,
           Busy(n)' => SubmissionsLeft(n)' + 1 <= SubmissionsLeft(n)
    PROVE  CallsCounted'
<1>1. /\ \A m \in Callers : call'[m].id = call[m].id
      /\ \A m \in Callers : Busy(m)' => Busy(m)
  BY DEF Busy
<1>2. call[n].id \in 1..calls /\ Budget(call[n].id, SubmissionsLeft(n))
  BY DEF CallsCounted
<1> PICK me : me = call[n].id
  OBVIOUS
<1>3. ASSUME NEW left \in 0..2, left + 1 <= SubmissionsLeft(n)
      PROVE  Budget(me, left)'
  <2>1. left + 1 \in 0..2 /\ left + 1 = IF me = call[n].id THEN left + 1 ELSE left
    BY <1>3, LeftIsSmall
  <2>2. Budget(me, left + 1)
    BY <1>2, <1>3, <2>1, LeftIsSmall, BudgetLess
  <2> QED
    BY <2>1, <2>2, BudgetSubmitted
<1>4. ASSUME NEW id, id # call[n].id, NEW left \in 0..2, Budget(id, left)
      PROVE  Budget(id, left)'
  BY <1>4, BudgetSubmitted
<1>5. \A p \in pending' : p.call \in 1..calls
  BY <1>2 DEF CallsCounted, ProposalOf
<1>6. ASSUME NEW m \in Callers, Busy(m)'
      PROVE  call'[m].id \in 1..calls /\ Budget(call[m].id, SubmissionsLeft(m))'
  <2>1. CASE m = n
    <3>1. PICK left \in 0..2 : left = SubmissionsLeft(n)'
      BY LeftIsSmall
    <3>2. Budget(me, left)'
      BY <1>3, <1>6, <2>1, <3>1
    <3> QED
      BY <1>1, <1>2, <2>1, <3>1, <3>2, BudgetOfCall
  <2>2. CASE m # n
    <3>1. /\ call[m].id \in 1..calls /\ Budget(call[m].id, SubmissionsLeft(m))
          /\ call[m].id # call[n].id
      BY <1>1, <1>6, <2>2 DEF CallsCounted
    <3>2. SubmissionsLeft(m)' = SubmissionsLeft(m)
      BY <1>1, <2>2 DEF SubmissionsLeft
    <3>3. PICK id \in {call[m].id}, left \in {SubmissionsLeft(m)} : left \in 0..2
      BY LeftIsSmall
    <3>4. Budget(id, left)'
      BY <1>4, <3>1, <3>3
    <3> QED
      BY <1>1, <3>1, <3>2, <3>3, <3>4, BudgetOfCall
  <2> QED
    BY <2>1, <2>2
<1>7. \A id \in 1..calls : Budget(id, 0)'
  <2>1. Budget(me, 0)'
    BY <1>3, LeftIsSmall
  <2> QED
    BY <1>4, <2>1 DEF CallsCounted
<1> QED
  BY <1>1, <1>5, <1>6, <1>7 DEF CallsCounted

\* A call that starts takes the next number, which nothing bears yet.
LEMMA CountedAtStart ==
    ASSUME TypeOK, CallsCounted, NEW n \in Callers, ~Busy(n),
           UNCHANGED <<chain, pending>>, calls' = calls + 1,
           \A m \in Callers \ {n} : call'[m] = call[m], call'[n].id = calls + 1
    PROVE  CallsCounted'
<1>1. /\ \A m \in Callers \ {n} : Busy(m)' <=> Busy(m)
      /\ calls \in Nat
  BY DEF TypeOK, Busy
<1>2. ASSUME NEW id, NEW left \in 0..2, Budget(id, left)
      PROVE  Budget(id, left)'
  BY <1>2, BudgetKept DEF BlocksOf, PendingOf
<1>3. Budget(calls + 1, 2)
  <2>1. BlocksOf(calls + 1) = {}
    BY <1>1 DEF CallsCounted, BlocksOf, TypeOK, Block
  <2>2. PendingOf(calls + 1) = {}
    BY <1>1 DEF CallsCounted, PendingOf
  <2> QED
    BY <2>1, <2>2, BudgetNew
<1>4. ASSUME NEW id, id = calls + 1, NEW left \in 0..2 PROVE Budget(id, left)'
  BY <1>2, <1>3, <1>4, BudgetLess
<1>5. ASSUME NEW m \in Callers, Busy(m)'
      PROVE  call'[m].id \in 1..calls' /\ Budget(call[m].id, SubmissionsLeft(m))'
  <2>1. CASE m = n
    <3>1. PICK id \in {calls + 1}, left \in {SubmissionsLeft(n)'} : left \in 0..2
      BY LeftIsSmall
    <3>2. Budget(id, left)'
      BY <1>4, <3>1
    <3> QED
      BY <1>1, <2>1, <3>1, <3>2, BudgetOfCall
  <2>2. CASE m # n
    <3>1. SubmissionsLeft(m)' = SubmissionsLeft(m)
      BY <1>1, <2>2 DEF SubmissionsLeft
    <3>2. call[m].id \in 1..calls /\ Budget(call[m].id, SubmissionsLeft(m))
      BY <1>1, <1>5, <2>2 DEF CallsCounted
    <3>3. PICK id \in {call[m].id}, left \in {SubmissionsLeft(m)} : left \in 0..2
      BY LeftIsSmall
    <3>4. Budget(id, left)'
      BY <1>2, <3>2, <3>3
    <3> QED
      BY <1>1, <2>2, <3>1, <3>2, <3>3, <3>4, BudgetOfCall
  <2> QED
    BY <2>1, <2>2
<1>6. \A id \in 1..calls' : Budget(id, 0)'
  <2> SUFFICES ASSUME NEW id \in 1..calls' PROVE Budget(id, 0)'
    OBVIOUS
  <2>1. CASE id \in 1..calls
    BY <1>2, <2>1 DEF CallsCounted
  <2>2. CASE id = calls + 1
    BY <1>4, <2>2
  <2> QED
    BY <1>1, <2>1, <2>2
<1>7. \A i \in DOMAIN chain' : chain'[i].call <= calls'
  <2>1. \A i \in DOMAIN chain : chain[i] \in Block /\ chain[i].call <= calls
    BY DEF CallsCounted, TypeOK
  <2>2. \A b \in Block : b.call \in Nat
    BY DEF Block
  <2> QED
    BY <1>1, <2>1, <2>2
<1>8. \A p \in pending' : p.call \in 1..calls'
  BY <1>1 DEF CallsCounted
<1>9. \A l, m \in Callers : Busy(l)' /\ Busy(m)' /\ call'[l].id = call'[m].id => l = m
  BY <1>1 DEF CallsCounted
<1> QED
  BY <1>5, <1>6, <1>7, <1>8, <1>9 DEF CallsCounted

LEMMA CallsCountedStep == TypeOK /\ CallsCounted /\ [Next]_vars => CallsCounted'
<1> SUFFICES ASSUME TypeOK, CallsCounted, [Next]_vars PROVE CallsCounted'
  OBVIOUS
<1>1. ASSUME NEW n \in Callers, LeaveNetwork(n) \/ UpdateCommittee(n)
      PROVE  CallsCounted'
  <2>1. ASSUME NEW keys, NEW read, NEW without, NEW stop
        PROVE  UpdateCommitteeCall(n, keys, read, without, stop).id = calls + 1
    BY DEF UpdateCommitteeCall, Started, NoCall
  <2>2. call'[n].id = calls + 1 /\ \A m \in Callers \ {n} : call'[m] = call[m]
    <3>1. CASE LeaveNetwork(n)
      BY <2>1, <3>1 DEF LeaveNetwork, TypeOK
    <3>2. CASE UpdateCommittee(n)
      <4>1. PICK keys \in Rosters :
               call' = [call EXCEPT ![n] = UpdateCommitteeCall(n, keys, 0, {}, FALSE)]
        BY <3>2 DEF UpdateCommittee
      <4>2. UpdateCommitteeCall(n, keys, 0, {}, FALSE).id = calls + 1
        BY <2>1
      <4> QED
        BY <4>1, <4>2 DEF TypeOK
    <3> QED
      BY <1>1, <3>1, <3>2
  <2>3. ~Busy(n) /\ calls' = calls + 1 /\ UNCHANGED <<chain, pending>>
    BY <1>1 DEF LeaveNetwork, UpdateCommittee, MayCall
  <2> QED
    BY <2>2, <2>3, CountedAtStart
<1>2. ASSUME NEW n \in Callers, PollChain(n) \/ ReadClock(n) \/ Raise(n)
      PROVE  CallsCounted'
  <2>1. Busy(n) /\ UNCHANGED <<chain, pending, calls>>
    BY <1>2 DEF PollChain, ReadClock, Raise, Busy
  <2>2. ASSUME NEW ret PROVE Returned(n, ret).id = call[n].id /\ Returned(n, ret).pc = "idle"
    BY DEF Returned, NoCall
  <2>3. CASE PollChain(n) \/ ReadClock(n)
    <3>1. call'[n].id = call[n].id /\ \A m \in Callers \ {n} : call'[m] = call[m]
      BY <2>2, <2>3, PassStep DEF KeepsCall
    <3> QED
      BY <2>1, <2>3, <3>1, LeftStep, CountedWithoutSubmission
  <2>4. CASE Raise(n)
    <3>1. /\ call'[n].id = call[n].id /\ ~Busy(n)'
          /\ \A m \in Callers \ {n} : call'[m] = call[m]
      BY <2>2, <2>4 DEF Raise, TypeOK, Busy
    <3> QED
      BY <2>1, <3>1, CountedWithoutSubmission
  <2> QED
    BY <1>2, <2>3, <2>4
<1>3. ASSUME NEW n \in Callers, ReadChainSize(n)
      PROVE  CallsCounted'
  <2>1. /\ call[n].pc = "size" /\ call'[n].pc = "submit" /\ call'[n].id = call[n].id
        /\ \A m \in Callers \ {n} : call'[m] = call[m]
    <3>1. call[n] \in Call /\ n \in DOMAIN call
      BY DEF TypeOK
    <3>2. PICK size \in SizesRead(n) :
             call' = [call EXCEPT ![n].size = size, ![n].pc = "submit"]
      BY <1>3 DEF ReadChainSize
    <3>3. call'[n].pc = "submit" /\ call'[n].id = call[n].id
      BY <3>1, <3>2 DEF Call
    <3> QED
      BY <1>3, <3>3 DEF ReadChainSize, TypeOK
  <2>2. /\ Busy(n) /\ SubmissionsLeft(n) = 2 /\ SubmissionsLeft(n)' = 2
        /\ UNCHANGED <<chain, pending, calls>>
    BY <1>3, <2>1 DEF ReadChainSize, Busy, SubmissionsLeft
  <2> QED
    BY <2>1, <2>2, CountedWithoutSubmission
<1>4. ASSUME NEW n \in Callers, Tick(n)
      PROVE  CallsCounted'
  <2>1. /\ call'[n].pc = call[n].pc /\ call'[n].id = call[n].id
        /\ call'[n].retried = call[n].retried
        /\ \A m \in Callers \ {n} : call'[m] = call[m]
    <3>1. call[n] \in Call
      BY DEF TypeOK
    <3>2. PICK clock : call'[n] = [call[n] EXCEPT !.clock = clock]
      BY <1>4 DEF Tick, TypeOK
    <3>3. /\ call'[n].pc = call[n].pc /\ call'[n].id = call[n].id
          /\ call'[n].retried = call[n].retried
      BY <3>1, <3>2 DEF Call
    <3> QED
      BY <1>4, <3>3 DEF Tick, TypeOK
  <2>2. SubmissionsLeft(n)' = SubmissionsLeft(n)
    BY <2>1 DEF SubmissionsLeft
  <2>3. Busy(n) /\ UNCHANGED <<chain, pending, calls>>
    BY <1>4 DEF Tick, Busy
  <2> QED
    BY <2>1, <2>2, <2>3, LeftIsSmall, CountedWithoutSubmission
<1>5. ASSUME NEW n \in Callers, Submit(n)
      PROVE  CallsCounted'
  <2>1. /\ call[n].pc = "submit" /\ call'[n].pc = "poll" /\ call'[n].id = call[n].id
        /\ \A m \in Callers \ {n} : call'[m] = call[m]
    <3>1. call[n] \in Call /\ call'[n] = [call[n] EXCEPT !.pc = "poll"]
      BY <1>5 DEF Submit, TypeOK
    <3>2. call'[n].pc = "poll" /\ call'[n].id = call[n].id
      BY <3>1 DEF Call
    <3> QED
      BY <1>5, <3>2 DEF Submit, TypeOK
  <2>2. SubmissionsLeft(n) = 2 /\ SubmissionsLeft(n)' \in 0..1 /\ Busy(n)
    BY <2>1 DEF SubmissionsLeft, Busy
  <2>3. UNCHANGED <<chain, calls>> /\ pending' = pending \cup {ProposalOf(n, 1)}
    BY <1>5 DEF Submit
  <2>4. SubmissionsLeft(n) >= 1 /\ SubmissionsLeft(n)' + 1 <= SubmissionsLeft(n) /\ 1 \in 1..2
    BY <2>2
  <2> QED
    BY <2>1, <2>2, <2>3, <2>4, CountedWithSubmission
<1>6. ASSUME NEW n \in Callers, SubmitAgain(n)
      PROVE  CallsCounted'
  <2>1. SubmissionsLeft(n) = 1 /\ Busy(n)
    BY <1>6 DEF SubmitAgain, SubmissionsLeft, Busy
  <2>2. /\ call'[n].id = call[n].id
        /\ call'[n].pc = "idle" \/ (call'[n].pc = "poll" /\ call'[n].retried)
        /\ \A m \in Callers \ {n} : call'[m] = call[m]
    <3>1. CASE TimedOut(n)
      <4>1. Returned(n, "false").id = call[n].id /\ Returned(n, "false").pc = "idle"
        BY DEF Returned, NoCall
      <4> QED
        BY <1>6, <3>1, <4>1 DEF SubmitAgain, AfterPass, TypeOK
    <3>2. CASE ~TimedOut(n)
      <4>1. /\ call'[n] = [call[n] EXCEPT !.pc = "poll", !.seen = 0,
                                !.retried = call[n].retried \/ call[n].pc = "retry"]
            /\ \A m \in Callers \ {n} : call'[m] = call[m]
        BY <1>6, <3>2 DEF SubmitAgain, AfterPass, TypeOK
      <4>2. call'[n].id = call[n].id /\ call'[n].pc = "poll"
        BY <4>1, CallFields DEF Call
      <4>3. call'[n].retried = (call[n].retried \/ call[n].pc = "retry")
        BY <4>1, CallFields DEF Call
      <4>4. call[n].pc = "retry"
        BY <1>6 DEF SubmitAgain
      <4>5. call'[n].retried
        BY <4>3, <4>4
      <4> QED
        BY <4>1, <4>2, <4>5
    <3> QED
      BY <3>1, <3>2
  <2>3. Busy(n)' => SubmissionsLeft(n)' + 1 <= SubmissionsLeft(n)
    BY <2>1, <2>2 DEF SubmissionsLeft, Busy
  <2>4. UNCHANGED <<chain, calls>> /\ pending' = pending \cup {ProposalOf(n, 2)}
    BY <1>6 DEF SubmitAgain
  <2>5. SubmissionsLeft(n) >= 1 /\ 2 \in 1..2
    BY <2>1
  <2> QED
    BY <2>1, <2>2, <2>3, <2>4, <2>5, CountedWithSubmission
<1>7. ASSUME UNCHANGED <<call, calls>>, calls \in Nat,
             \A i \in DOMAIN chain' : chain'[i].call <= calls,
             pending' \subseteq pending,
             \A id \in Nat \ {0}, left \in 0..2 : Budget(id, left) => Budget(id, left)'
      PROVE  CallsCounted'
  <2>1. \A n : Busy(n)' = Busy(n) /\ SubmissionsLeft(n)' = SubmissionsLeft(n)
    BY <1>7 DEF Busy, SubmissionsLeft
  <2>2. ASSUME NEW n \in Callers, Busy(n)
        PROVE  call[n].id \in 1..calls /\ Budget(call[n].id, SubmissionsLeft(n))'
    <3>1. call[n].id \in 1..calls /\ Budget(call[n].id, SubmissionsLeft(n))
      BY <2>2 DEF CallsCounted
    <3>2. call[n].id \in Nat \ {0}
      BY <1>7, <3>1
    <3>4. PICK id \in Nat \ {0}, left \in 0..2 : id = call[n].id /\ left = SubmissionsLeft(n)
      BY <3>2, LeftIsSmall
    <3>5. Budget(id, left)'
      BY <1>7, <3>1, <3>4
    <3>6. id = call'[n].id /\ left = SubmissionsLeft(n)'
      BY <1>7, <2>1, <3>4
    <3> QED
      BY <3>1, <3>5, <3>6, BudgetOfCall
  <2>3. \A id \in 1..calls : Budget(id, 0)'
    BY <1>7 DEF CallsCounted
  <2> QED
    BY <1>7, <2>1, <2>2, <2>3 DEF CallsCounted
<1>8. ASSUME NEW p \in pending, Commit(p)
      PROVE  CallsCounted'
  <2>1. chain' = Append(chain, BlockOf(p)) /\ BlockOf(p).call \in 1..calls
    BY <1>8 DEF Commit, BlockOf, CallsCounted
  <2>2. calls \in Nat /\ \A i \in DOMAIN chain' : chain'[i].call <= calls
    BY <2>1 DEF CallsCounted, TypeOK
  <2>3. UNCHANGED <<call, calls>> /\ pending' \subseteq pending
    BY <1>8 DEF Commit
  <2>4. ASSUME NEW id \in Nat \ {0}, NEW left \in 0..2, Budget(id, left)
        PROVE  Budget(id, left)'
    BY <1>8, <2>4, BudgetCommitted
  <2> QED
    BY <1>7, <2>2, <2>3, <2>4
<1>9. ASSUME Traffic
      PROVE  CallsCounted'
  <2> DEFINE b == [call |-> 0, roster |-> chain[Len(chain)].roster,
                   read |-> Len(chain), without |-> {}]
  <2>1. chain' = Append(chain, b) /\ b.call = 0
    BY <1>9 DEF Traffic
  <2> HIDE DEF b
  <2>2. calls \in Nat /\ \A i \in DOMAIN chain' : chain'[i].call <= calls
    BY <2>1 DEF CallsCounted, TypeOK
  <2>3. UNCHANGED <<call, calls>> /\ pending' \subseteq pending
    BY <1>9 DEF Traffic
  <2>4. ASSUME NEW id \in Nat \ {0}, NEW left \in 0..2, Budget(id, left)
        PROVE  Budget(id, left)'
    BY <1>9, <2>4, BudgetTraffic
  <2> QED
    BY <1>7, <2>2, <2>3, <2>4
<1>10. CASE UNCHANGED vars \/ \E n \in Callers : CatchUp(n)
  <2>1. UNCHANGED <<chain, pending, call, calls>>
    BY <1>10 DEF CatchUp, vars
  <2>2. ASSUME NEW id \in Nat \ {0}, NEW left \in 0..2, Budget(id, left)
        PROVE  Budget(id, left)'
    BY <2>1, <2>2, BudgetKept DEF BlocksOf, PendingOf
  <2>3. calls \in Nat /\ \A i \in DOMAIN chain' : chain'[i].call <= calls
    BY <2>1 DEF CallsCounted, TypeOK
  <2> QED
    BY <1>7, <2>1, <2>2, <2>3
<1> QED
  BY <1>1, <1>2, <1>3, <1>4, <1>5, <1>6, <1>8, <1>9, <1>10 DEF Next

LEMMA CallsCountedInit == Init => CallsCounted
<1> SUFFICES ASSUME Init PROVE CallsCounted
  OBVIOUS
<1>1. \A n \in Callers : ~Busy(n)
  BY DEF Init, Busy, NoCall
<1>2. /\ DOMAIN chain = {1} /\ chain[1].call = 0
      /\ pending = {} /\ calls = 0
  BY DEF Init
<1> QED
  BY <1>1, <1>2 DEF CallsCounted

\* However late the two proposals of a call are committed, and whatever the other
\* calls do, it leaves two blocks at most: the retry flag and the loss of a proposal
\* that is committed make a budget that no step exceeds.
THEOREM RetriesAreBounded == Spec => []CallCommitsAtMostTwice
<1>1. TypeOK /\ CallsCounted => CallCommitsAtMostTwice
  <2> SUFFICES ASSUME TypeOK, CallsCounted, NEW id \in 1..calls
               PROVE  Cardinality(BlocksOf(id)) <= 2
    BY DEF CallCommitsAtMostTwice
  <2>1. Budget(id, 0)
    BY DEF CallsCounted
  <2>2. Cardinality(BlocksOf(id)) \in Nat /\ Cardinality(PendingOf(id)) \in Nat
    BY <2>1, BlocksOfFinite, FS_CardinalityType DEF Budget
  <2> QED
    BY <2>1, <2>2 DEF Budget
<1> QED
  BY <1>1, CallsCountedInit, CallsCountedStep, TypeCorrect, PTL DEF Spec
-----------------------------------------------------------------------------
(* What a call that times out has seen *)

\* A call that has read the chain's size has no block among those it counted.
BlocksComeLater ==
    \A n \in Callers : Busy(n) =>
        /\ call[n].ret = "none"
        /\ call[n].pc = "size" => call[n].seen = 0
        /\ call[n].pc # "size" =>
              /\ call[n].seen <= call[n].size /\ call[n].size <= Len(chain)
              /\ \A i \in BlocksOf(call[n].id) : i > call[n].size

\* What the loop's reading listed stays as it was, or is no more than the size.
SeenAfter(n) ==
    call'[n].seen = call[n].seen \/ (call'[n].seen \in Nat /\ call'[n].seen <= call[n].size)

\* What a caller's step does to the fields of its call.
CallGoesOn(n) ==
    /\ Busy(n) /\ call[n].pc # "size" /\ call'[n].pc # "size"
    /\ call'[n].id = call[n].id /\ call'[n].size = call[n].size
    /\ call'[n].ret = call[n].ret /\ SeenAfter(n)

SizeIsRead(n) ==
    /\ call[n].pc = "size"
    /\ call'[n].id = call[n].id /\ call'[n].size \in SizesRead(n)
    /\ call'[n].ret = call[n].ret /\ chain' = chain
    /\ call'[n].seen = call[n].seen

\* The loop goes on only on a reading that lists no more than the first one.
LEMMA SeenStep ==
    ASSUME TypeOK, NEW n \in Callers, Busy(n)',
           PollChain(n) \/ ReadClock(n) \/ SubmitAgain(n)
    PROVE  SeenAfter(n)
<1>1. call[n] \in Call /\ call[n].size \in Nat
  BY CallFields DEF Call
<1>2. ASSUME NEW ret PROVE call'[n] # Returned(n, ret)
  BY DEF Returned, NoCall, Busy
<1>3. CASE PollChain(n)
  <2>1. PICK size \in SizesRead(n) :
           ~HasGrown(n, size) /\ call'[n] = [call[n] EXCEPT !.pc = "log", !.seen = size]
    BY <1>2, <1>3 DEF PollChain, TypeOK
  <2>2. size \in Nat /\ call'[n].seen = size
    BY <1>1, <2>1, BoundsAssumption DEF SizesRead, VisibleSize, TypeOK, Call
  <2> QED
    BY <1>1, <2>1, <2>2 DEF HasGrown, SeenAfter
<1>4. ASSUME call'[n] = AfterPass(n) PROVE SeenAfter(n)
  <2>1. \E retried : call'[n] = [call[n] EXCEPT !.pc = "poll", !.seen = 0, !.retried = retried]
    BY <1>2, <1>4 DEF AfterPass
  <2>2. call'[n].seen = 0
    BY <1>1, <2>1 DEF Call
  <2> QED
    BY <1>1, <2>2 DEF SeenAfter
<1>5. CASE ReadClock(n)
  <2>1. CASE RetryDue(n)
    <3>1. call'[n] = [call[n] EXCEPT !.pc = "retry"]
      BY <1>5, <2>1 DEF ReadClock, TypeOK
    <3> QED
      BY <1>1, <3>1 DEF Call, SeenAfter
  <2> QED
    BY <1>4, <1>5, <2>1 DEF ReadClock, TypeOK
<1>6. CASE SubmitAgain(n)
  BY <1>4, <1>6 DEF SubmitAgain, TypeOK
<1> QED
  BY <1>3, <1>5, <1>6

\* A call in progress started in this step, read the size in it, or goes on.
LEMMA SizeOrigins ==
    ASSUME TypeOK, [Next]_vars, NEW n \in Callers, Busy(n)'
    PROVE  \/ call'[n] = call[n]
           \/ call'[n].pc = "size" /\ call'[n].ret = "none" /\ call'[n].seen = 0
           \/ SizeIsRead(n)
           \/ CallGoesOn(n)
<1>1. CASE LeaveNetwork(n) \/ UpdateCommittee(n)
  <2>2. CASE LeaveNetwork(n)
    <3> DEFINE keys == NewNetwork(Peers(n), n)
    <3>1. call'[n] = UpdateCommitteeCall(n, keys, height[n], {n}, TRUE)
      BY <2>2 DEF LeaveNetwork, TypeOK
    <3>2. [NoCall("false") EXCEPT !.id = calls + 1].pc = "idle"
      BY DEF NoCall
    <3>3. call'[n] = Started(keys, height[n], {n})
      BY <3>1, <3>2 DEF UpdateCommitteeCall, Busy
    <3>4. /\ Started(keys, height[n], {n}).pc = "size"
          /\ Started(keys, height[n], {n}).ret = "none"
          /\ Started(keys, height[n], {n}).seen = 0
      BY DEF Started, NoCall
    <3> QED
      BY <3>3, <3>4
  <2>3. CASE UpdateCommittee(n)
    <3>1. PICK keys \in Rosters : call'[n] = UpdateCommitteeCall(n, keys, 0, {}, FALSE)
      BY <2>3 DEF UpdateCommittee, TypeOK
    <3>2. [NoCall("false") EXCEPT !.id = calls + 1].pc = "idle"
      BY DEF NoCall
    <3>3. call'[n] = Started(keys, 0, {})
      BY <3>1, <3>2 DEF UpdateCommitteeCall, Busy
    <3>4. /\ Started(keys, 0, {}).pc = "size" /\ Started(keys, 0, {}).ret = "none"
          /\ Started(keys, 0, {}).seen = 0
      BY DEF Started, NoCall
    <3> QED
      BY <3>3, <3>4
  <2> QED
    BY <1>1, <2>2, <2>3
<1>2. CASE ReadChainSize(n)
  <2>1. PICK size \in SizesRead(n) :
           call' = [call EXCEPT ![n].size = size, ![n].pc = "submit"]
    BY <1>2 DEF ReadChainSize
  <2>2. /\ call'[n].id = call[n].id /\ call'[n].size = size
        /\ call'[n].ret = call[n].ret /\ call'[n].seen = call[n].seen
    BY <2>1, CallFields DEF Call, TypeOK
  <2> QED
    BY <1>2, <2>2 DEF ReadChainSize, SizeIsRead
<1>3. CASE Submit(n)
  <2>1. call'[n] = [call[n] EXCEPT !.pc = "poll"] /\ call[n].pc = "submit"
    BY <1>3 DEF Submit, TypeOK
  <2> QED
    BY <2>1, CallFields DEF Call, CallGoesOn, SeenAfter, Busy
<1>4. CASE Tick(n)
  <2>1. PICK clock : call'[n] = [call[n] EXCEPT !.clock = clock]
    BY <1>4 DEF Tick, TypeOK
  <2>2. call[n].pc \in {"poll", "log"}
    BY <1>4 DEF Tick
  <2> QED
    BY <2>1, <2>2, CallFields DEF Call, CallGoesOn, SeenAfter, Busy
<1>5. ASSUME NEW ret PROVE ~(call' = [call EXCEPT ![n] = Returned(n, ret)])
  <2>1. Returned(n, ret).pc = "idle"
    BY DEF Returned, NoCall
  <2> QED
    BY <2>1 DEF Busy, TypeOK
<1>6. CASE PollChain(n) \/ ReadClock(n) \/ SubmitAgain(n)
  <2>1. KeepsCall(n) /\ call[n].pc # "size" /\ Busy(n)
    <3>1. ASSUME NEW ret PROVE call'[n] # Returned(n, ret)
      BY DEF Returned, NoCall, Busy
    <3> QED
      BY <1>6, <3>1, PassStep
  <2>2. SeenAfter(n)
    BY <1>6, <2>1, SeenStep
  <2> QED
    BY <2>1, <2>2 DEF KeepsCall, CallGoesOn
<1>7. CASE Raise(n)
  BY <1>5, <1>7 DEF Raise
<1>8. ASSUME NEW m \in Callers \ {n},
             \/ LeaveNetwork(m) \/ UpdateCommittee(m)
             \/ ReadChainSize(m) \/ Submit(m)
             \/ PollChain(m) \/ ReadClock(m) \/ SubmitAgain(m)
             \/ Tick(m) \/ Raise(m)
      PROVE  call'[n] = call[n]
  BY <1>8 DEF LeaveNetwork, UpdateCommittee, ReadChainSize, Submit, PollChain,
         ReadClock, SubmitAgain, Tick, Raise, TypeOK
<1>9. CASE \/ \E m \in Callers : CatchUp(m)
           \/ \E p \in pending : Commit(p)
           \/ Traffic \/ UNCHANGED vars
  BY <1>9 DEF CatchUp, Commit, Traffic, vars
<1> QED
  BY <1>1, <1>2, <1>3, <1>4, <1>6, <1>7, <1>8, <1>9 DEF Next

\* A call that has not submitted yet has no block.
LEMMA NoBlockBeforeSubmission ==
    ASSUME TypeOK, CallsCounted, NEW n \in Callers, call[n].pc = "size"
    PROVE  BlocksOf(call[n].id) = {}
<1>1. Budget(call[n].id, 2)
  BY DEF CallsCounted, Busy, SubmissionsLeft
<1>2. /\ IsFiniteSet(BlocksOf(call[n].id)) /\ Cardinality(BlocksOf(call[n].id)) \in Nat
      /\ Cardinality(PendingOf(call[n].id)) \in Nat
  BY <1>1, BlocksOfFinite, FS_CardinalityType DEF Budget
<1>3. Cardinality(BlocksOf(call[n].id)) = 0
  BY <1>1, <1>2 DEF Budget
<1> QED
  BY <1>2, <1>3, FS_EmptySet

\* What is read as the size is never more than the chain.
LEMMA SizesReadBounded ==
    ASSUME TypeOK, NEW n \in Callers, NEW size \in SizesRead(n)
    PROVE  size \in Nat /\ size <= Len(chain)
  BY BoundsAssumption DEF SizesRead, VisibleSize, TypeOK

LEMMA BlocksComeLaterStep ==
    TypeOK /\ CallsCounted /\ BlocksComeLater /\ [Next]_vars => BlocksComeLater'
<1> SUFFICES ASSUME TypeOK, CallsCounted, BlocksComeLater, [Next]_vars,
                    NEW n \in Callers, Busy(n)'
             PROVE  /\ call'[n].ret = "none"
                    /\ call'[n].pc = "size" => call'[n].seen = 0
                    /\ call'[n].pc # "size" =>
                          /\ call'[n].seen <= call'[n].size /\ call'[n].size <= Len(chain')
                          /\ \A i \in BlocksOf(call[n].id)' : i > call'[n].size
  BY DEF BlocksComeLater
<1>1. /\ Len(chain) \in Nat /\ Len(chain') \in Nat /\ Len(chain) <= Len(chain')
      /\ DOMAIN chain = 1..Len(chain) /\ DOMAIN chain' = 1..Len(chain')
      /\ \A i \in 1..Len(chain) : chain'[i] = chain[i]
  BY ChainGrows, TypeStep DEF TypeOK
<1>2. ASSUME Busy(n), call[n].pc # "size", call'[n].id = call[n].id,
             call'[n].size = call[n].size, SeenAfter(n)
      PROVE  /\ call'[n].seen <= call'[n].size /\ call'[n].size <= Len(chain')
             /\ \A i \in BlocksOf(call[n].id)' : i > call'[n].size
  <2>1. /\ call[n].seen <= call[n].size /\ call[n].size <= Len(chain)
        /\ call[n].size \in Nat
        /\ \A i \in BlocksOf(call[n].id) : i > call[n].size
    BY <1>2, CallFields DEF BlocksComeLater, Call
  <2>2. call'[n].seen <= call'[n].size /\ call'[n].size <= Len(chain')
    BY <1>1, <1>2, <2>1 DEF SeenAfter
  <2> QED
    BY <1>1, <1>2, <2>1, <2>2 DEF BlocksOf
<1>3. CASE call'[n] = call[n]
  BY <1>2, <1>3 DEF Busy, BlocksComeLater, SeenAfter
<1>4. CASE SizeIsRead(n)
  <2>1. /\ call'[n].size <= Len(chain') /\ call[n].ret = "none"
        /\ call'[n].seen = 0 /\ call'[n].seen <= call'[n].size
    BY <1>4, SizesReadBounded DEF SizeIsRead, BlocksComeLater, Busy
  <2>2. BlocksOf(call[n].id)' = {}
    BY <1>4, NoBlockBeforeSubmission DEF SizeIsRead, BlocksOf
  <2> QED
    BY <1>4, <2>1, <2>2 DEF SizeIsRead
<1>5. CASE CallGoesOn(n)
  BY <1>2, <1>5 DEF CallGoesOn, BlocksComeLater
<1> QED
  BY <1>3, <1>4, <1>5, SizeOrigins

\* A call that returns False after polling has no block of its own among those its
\* last reading listed, unless the page was full when it started: the loop never
\* goes on past a reading that shows the answer.
THEOREM TimeoutsAreHonest == Spec => TimeoutSawNothing
<1>1. Init => BlocksComeLater
  BY DEF Init, BlocksComeLater, Busy, NoCall
<1>2. ASSUME TypeOK, BlocksComeLater, NEW n \in Callers, Busy(n),
             NEW i \in 1..call[n].seen
      PROVE  chain[i].call # call[n].id
  <2>1. call[n].seen \in Nat /\ call[n].size \in Nat /\ Len(chain) \in Nat
    <3>1. call[n] \in Call
      BY <1>2, CallFields
    <3> QED
      BY <1>2, <3>1 DEF Call, TypeOK
  <2>2. call[n].pc # "size"
    BY <1>2, <2>1 DEF BlocksComeLater
  <2>3. /\ call[n].seen <= call[n].size /\ call[n].size <= Len(chain)
        /\ \A k \in BlocksOf(call[n].id) : k > call[n].size
    BY <1>2, <2>2 DEF BlocksComeLater
  <2>4. i \in DOMAIN chain /\ ~(i > call[n].size)
    BY <2>1, <2>3 DEF TypeOK
  <2> QED
    BY <2>3, <2>4 DEF BlocksOf
<1>3. TypeOK /\ BlocksComeLater /\ [Next]_vars =>
        [\A n \in Callers : Busy(n) /\ call'[n].ret = "false" /\ call[n].size < PageLimit =>
            \A i \in 1..call[n].seen : chain[i].call # call[n].id]_vars
  BY <1>2
<1> QED
  BY <1>1, <1>3, BlocksComeLaterStep, CallsCountedInit, CallsCountedStep, TypeInit,
     TypeStep, PTL DEF Spec, TimeoutSawNothing
=============================================================================
