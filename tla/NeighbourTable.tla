---------------------------- MODULE NeighbourTable ----------------------------
(***************************************************************************)
(* The neighbour table of one peer's API process, app.config[QUORUMS], and *)
(* the handlers that change it (src/api/routes.py: start, join, add,       *)
(* remove).  The server runs each request in a thread of its own and takes *)
(* no lock.  A quorum's entry refers to a list object; add and join put    *)
(* another object there, remove shortens the object while it iterates over *)
(* it, so a request may go on with an object that is no longer in the      *)
(* table.  One remove is one thread; the other handlers write at once.     *)
(***************************************************************************)
EXTENDS Naturals, Sequences

Seqs == INSTANCE SequencesExt

CONSTANTS
    Neighbours,     \* the peers a table may list: an address and a port each
    Ports,
    PortOf,         \* the port of each neighbour
    Quorums,        \* the quorum ids
    FirstIds,       \* <<a, b>>: the ids of the peer when the behaviour starts
    Restarts,       \* the pairs of ids a later /start may give
    Given,          \* the neighbour lists an /add or /join may bring
    Threads,        \* the threads that serve /remove
    MaxRemoves,     \* bound: /remove requests
    MaxWrites       \* bound: /start, /add and /join requests

ASSUME TableAssumption ==
    /\ PortOf \in [Neighbours -> Ports]
    /\ FirstIds \in Quorums \X Quorums /\ FirstIds[1] # FirstIds[2]
    /\ Restarts \subseteq Quorums \X Quorums
    /\ Given \subseteq Seq(Neighbours) /\ Given # {}
    /\ MaxRemoves \in Nat /\ MaxWrites \in Nat

VARIABLES
    instances,  \* the ids the peer is in: committee_id_a and committee_id_b
    owed,       \* how many /start requests still have to store an id's list
    joined,     \* the ids whose sawtooth services a join has started
    keys,       \* the keys of QUORUMS, in the order of their insertion
    slot,       \* the list object of each key
    heap,       \* the list objects' contents
    was,        \* history: what each object held when it was put there
    thread,     \* the /remove requests being served
    departed,   \* history: the neighbours whose removal was requested
    disturbed,  \* history: the threads whose last /remove met another request
    removes, writes

vars == <<instances, owed, joined, keys, slot, heap, was, thread, departed, disturbed,
          removes, writes>>

NoRequest(ret) == [pc |-> "idle", port |-> CHOOSE port \in Ports : TRUE,
                   key |-> 1, list |-> 1, index |-> 1, size |-> 0, ret |-> ret]

\* The state make_intersecting_committees_on_host leaves a peer in.
Init ==
    /\ instances = {FirstIds[1], FirstIds[2]}
    /\ owed = [q \in Quorums |-> 0]
    /\ joined = {}
    /\ keys = <<FirstIds[1], FirstIds[2]>>
    /\ heap \in {<<x, y>> : x, y \in Given}
    /\ was = heap
    /\ slot = [q \in instances |-> IF q = FirstIds[1] THEN 1 ELSE 2]
    /\ thread = [t \in Threads |-> NoRequest("none")]
    /\ departed = {} /\ disturbed = {}
    /\ removes = 0 /\ writes = 0
-----------------------------------------------------------------------------
(* /start, /add and /join *)

Table(q) == heap[slot[q]]

\* A new key goes to the end of the dictionary, a known one keeps its place.
WithKey(ks, q) == IF q \in Seqs!ToSet(ks) THEN ks ELSE Append(ks, q)

\* app.config[QUORUMS][q] = list: a write meets every /remove in progress, and
\* outdates those answered.
Put(q, list) ==
    /\ keys' = WithKey(keys, q)
    /\ heap' = Append(heap, list)
    /\ was' = Append(was, list)
    /\ slot' = [k \in DOMAIN slot \cup {q} |-> IF k = q THEN Len(heap) + 1 ELSE slot[k]]
    /\ disturbed' = Threads
    /\ UNCHANGED <<thread, departed, removes>>

MayWrite == writes < MaxWrites /\ writes' = writes + 1

\* A restart puts the new pair in place, then empties the list of its first id and
\* then the second's; the entries of other ids stay.
Start ==
    /\ MayWrite
    /\ \E ids \in Restarts :
         /\ instances' = {ids[1], ids[2]}
         /\ Put(ids[1], <<>>)
         /\ owed' = [owed EXCEPT ![ids[2]] = @ + 1]
    /\ joined' = {}

StartEnds(q) ==
    /\ owed[q] > 0
    /\ owed' = [owed EXCEPT ![q] = @ - 1]
    /\ Put(q, <<>>)
    /\ UNCHANGED <<instances, joined, writes>>

Add(q) ==
    /\ MayWrite /\ q \in instances
    /\ \E list \in Given : Put(q, list)
    /\ UNCHANGED <<instances, owed, joined>>

\* The list is stored first; then join_sawtooth asserts four addresses, the
\* peer's own included, and a failed assertion leaves the list stored.
Join(q) ==
    /\ MayWrite /\ q \in instances
    /\ \E list \in Given :
         /\ Put(q, list)
         /\ joined' = IF Len(list) + 1 >= 4 THEN joined \cup {q} ELSE joined
    /\ UNCHANGED <<instances, owed>>
-----------------------------------------------------------------------------
(* /remove/<port> *)

Serving(t) == thread[t].pc # "idle"

RemoveCalled(t) ==
    /\ ~Serving(t) /\ removes < MaxRemoves
    /\ \E n \in Neighbours :
         /\ departed' = departed \cup {n}
         /\ thread' = [thread EXCEPT ![t] =
                [NoRequest("none") EXCEPT !.pc = "next", !.port = PortOf[n],
                                          !.list = slot[keys[1]], !.size = Len(keys)]]
    /\ removes' = removes + 1
    /\ disturbed' = IF \E other \in Threads : Serving(other) THEN Threads ELSE disturbed \ {t}
    /\ UNCHANGED <<instances, owed, joined, keys, slot, heap, was, writes>>

\* A deletion shifts what follows it under the iterator: the next entry is the
\* one after the next.
NextIndexMutBack(i) == IF i > 1 THEN i - 1 ELSE i
NextIndexMutSkips(i) == i + 2
NextIndex(i) == i + 1

\* str(neighbor[PORT]) == str(remove_port): the host is not compared.
MatchesMutAtLeast(n, port) == PortOf[n] >= port
Matches(n, port) == PortOf[n] = port

\* for neighbor in ...: the iterator's position and index go together.
NextEntry(t) ==
    /\ thread[t].pc = "next"
    /\ thread[t].index <= Len(heap[thread[t].list])
    /\ thread' = [thread EXCEPT ![t] =
            IF Matches(heap[@.list][@.index], @.port)
            THEN [@ EXCEPT !.pc = "delete"]
            ELSE [@ EXCEPT !.index = NextIndex(thread[t].index)]]
    /\ UNCHANGED <<instances, owed, joined, keys, slot, heap, was, departed, disturbed, removes, writes>>

VictimMutFirst(t) == 1
Victim(t) == thread[t].index

\* del app.config[QUORUMS][committee_id][index]: looked up again, so another
\* thread's deletion or write decides what is at that index, or nothing is.
Delete(t) ==
    LET current == slot[keys[thread[t].key]] IN
    /\ thread[t].pc = "delete"
    /\ IF Victim(t) <= Len(heap[current])
       THEN /\ heap' = [heap EXCEPT ![current] = Seqs!RemoveAt(@, Victim(t))]
            /\ thread' = [thread EXCEPT ![t].pc = "next", ![t].index = NextIndex(@)]
       ELSE /\ thread' = [thread EXCEPT ![t] = NoRequest("raised")]
            /\ UNCHANGED heap
    /\ UNCHANGED <<instances, owed, joined, keys, slot, was, departed, disturbed, removes, writes>>

\* for committee_id in ...: a key added since the loop began ends it with an error.
NextQuorum(t) ==
    /\ thread[t].pc = "next"
    /\ thread[t].index > Len(heap[thread[t].list])
    /\ thread' = [thread EXCEPT ![t] =
            IF @.size # Len(keys) THEN NoRequest("raised")
            ELSE IF @.key = @.size THEN [NoRequest("ok") EXCEPT !.port = thread[t].port]
            ELSE [@ EXCEPT !.key = thread[t].key + 1, !.index = 1,
                           !.list = slot[keys[thread[t].key + 1]]]]
    /\ UNCHANGED <<instances, owed, joined, keys, slot, heap, was, departed, disturbed, removes, writes>>

Serve(t) == NextEntry(t) \/ Delete(t) \/ NextQuorum(t)

Next ==
    \/ Start
    \/ \E q \in Quorums : StartEnds(q) \/ Add(q) \/ Join(q)
    \/ \E t \in Threads : RemoveCalled(t) \/ NextEntry(t) \/ Delete(t) \/ NextQuorum(t)

Spec == Init /\ [][Next]_vars

\* A thread that serves a request goes on with it.
FairSpec == Spec /\ \A t \in Threads : WF_vars(Serve(t))
-----------------------------------------------------------------------------
(* Properties *)

\* Every key has a list object, the ids served are keys once a /start is through,
\* and a request's place in the loops is one the loops can reach.
TypeOK ==
    /\ instances \subseteq DOMAIN slot \cup {q \in Quorums : owed[q] > 0}
    /\ joined \subseteq instances
    /\ DOMAIN slot = Seqs!ToSet(keys) /\ Seqs!IsInjective(keys)
    /\ \A q \in DOMAIN slot : slot[q] \in DOMAIN heap
    /\ DOMAIN was = DOMAIN heap
    /\ \A t \in Threads :
         /\ thread[t].list \in DOMAIN heap /\ thread[t].key \in DOMAIN keys
         /\ thread[t].index \in 1..(Len(was[thread[t].list]) + 1)

Remaining(t) == {q \in DOMAIN slot : \E i \in DOMAIN Table(q) : PortOf[Table(q)[i]] = thread[t].port}

\* What get_neighbors builds on one host: no list has the same port twice.
OnePortEach ==
    \A list \in Given : \A i, j \in DOMAIN list : PortOf[list[i]] = PortOf[list[j]] => i = j

\* remove deletes from the list it iterates over, which skips an entry; as long
\* as no list has the same port twice (OnePortEach), a request that met no other
\* one has deleted every entry of its port when it is answered.
AnsweredMeansRemoved ==
    \A t \in Threads \ disturbed : thread[t].ret = "ok" => Remaining(t) = {}

Lost(r) == Seqs!ToSet(heap[r]) \ Seqs!ToSet(heap'[r])

\* While a request meets no other one, only entries of its port go.
UndisturbedSparesOthers ==
    [][\A t \in Threads \ disturbed : Serving(t) =>
          \A r \in DOMAIN heap : \A n \in Lost(r) : PortOf[n] = thread[t].port]_vars

\* "remove neighbor from API after it leaves" (routes.py:169): whatever other
\* requests do, an entry goes only if its neighbour is one to be removed.
OnlyTheDepartedGo == [][\A r \in DOMAIN heap : Lost(r) \subseteq departed]_vars

\* Whatever the threads do to each other, a list only loses entries, keeps their
\* order, and (OnePortEach) loses no more of them than there were requests.
LossIsBounded ==
    \A r \in DOMAIN heap :
        /\ Len(was[r]) - Len(heap[r]) <= removes
        /\ \E at \in [DOMAIN heap[r] -> DOMAIN was[r]] : \A k \in DOMAIN heap[r] :
              /\ heap[r][k] = was[r][at[k]]
              /\ \A l \in DOMAIN heap[r] : l < k => at[l] < at[k]

\* The loop over a list that shrinks or is replaced under it ends.
RemovesEnd == \A t \in Threads : Serving(t) ~> ~Serving(t)
=============================================================================
