------------------------- MODULE NeighbourTable_proofs -------------------------
(***************************************************************************)
(* Proofs about NeighbourTable, for any number of threads, quorums,        *)
(* neighbours and requests.  IInv follows a request that meets no other    *)
(* one: the list it iterates over is the one it deletes from.  PInv, for   *)
(* lists that have no port twice, counts for every list object the         *)
(* requests that may still delete from it.                                 *)
(***************************************************************************)
EXTENDS NeighbourTable, SequenceTheorems, FiniteSetTheorems, TLAPS

AnyPort == CHOOSE port \in Ports : TRUE

Request ==
    [pc : {"idle", "next", "delete"}, port : Ports \cup {AnyPort}, key : Nat, list : Nat,
     index : Nat, size : Nat, ret : {"none", "ok", "raised"}]

Objects == 1..Len(heap)
Entries(r) == 1..Len(heap[r])

\* The list object the next deletion of t would be made in.
Current(t) == slot[keys[thread[t].key]]

Types ==
    /\ keys \in Seq(Quorums) /\ Len(keys) >= 1
    /\ heap \in Seq(Seq(Neighbours)) /\ was \in Seq(Seq(Neighbours))
    /\ Len(was) = Len(heap)
    /\ \A r \in Objects : Len(heap[r]) <= Len(was[r])
    /\ slot \in [DOMAIN slot -> Objects]
    /\ thread \in [Threads -> Request]
    /\ removes \in Nat /\ disturbed \subseteq Threads

Owed == {q \in Quorums : owed[q] > 0}

Keyed ==
    /\ \A i \in 1..Len(keys) : keys[i] \in DOMAIN slot
    /\ \A q \in DOMAIN slot : \E i \in 1..Len(keys) : q = keys[i]
    /\ \A i, j \in 1..Len(keys) : keys[i] = keys[j] => i = j
    /\ \A p, q \in DOMAIN slot : slot[p] = slot[q] => p = q
    /\ owed \in [Quorums -> Nat]
    /\ instances \subseteq DOMAIN slot \cup Owed /\ joined \subseteq instances

PlaceOf(t) ==
    /\ thread[t].list \in Objects /\ thread[t].key \in 1..Len(keys)
    /\ thread[t].index \in 1..(Len(was[thread[t].list]) + 1)
    /\ thread[t].pc = "delete" => thread[t].index <= Len(was[thread[t].list])
    /\ Serving(t) => /\ thread[t].key <= thread[t].size /\ thread[t].size <= Len(keys)
                     /\ thread[t].ret = "none"

\* A request that no other one met iterates over the list it deletes from.
OnTarget(t) ==
    Serving(t) /\ t \notin disturbed =>
        /\ thread[t].list = Current(t) /\ thread[t].size = Len(keys)
        /\ thread[t].pc = "delete" =>
              /\ thread[t].index <= Len(heap[thread[t].list])
              /\ PortOf[heap[thread[t].list][thread[t].index]] = thread[t].port

Alone == \A t, u \in Threads : Serving(t) /\ Serving(u) /\ t # u => t \in disturbed

\* The entries of s are entries of w, in the same order.
Embeds(s, w) ==
    \E at \in [1..Len(s) -> 1..Len(w)] : \A k \in 1..Len(s) :
        s[k] = w[at[k]] /\ \A l \in 1..Len(s) : l < k => at[l] < at[k]

Embedded(r) == Embeds(heap[r], was[r])

IInv ==
    /\ Types /\ Keyed /\ Alone
    /\ \A t \in Threads : PlaceOf(t) /\ OnTarget(t)
    /\ \A r \in Objects : Embedded(r)
-----------------------------------------------------------------------------
(* The operators on sequences *)

LEMMA RemoveAtShape ==
    ASSUME NEW S, NEW s \in Seq(S), NEW i \in 1..Len(s)
    PROVE  /\ Seqs!RemoveAt(s, i) \in Seq(S)
           /\ Len(Seqs!RemoveAt(s, i)) = Len(s) - 1
           /\ \A k \in 1..(Len(s) - 1) :
                 Seqs!RemoveAt(s, i)[k] = IF k < i THEN s[k] ELSE s[k + 1]
<1> DEFINE front == SubSeq(s, 1, i - 1)
           back == SubSeq(s, i + 1, Len(s))
<1>1. Len(s) \in Nat /\ \A k \in 1..Len(s) : s[k] \in S
  BY LenProperties, ElementOfSeq
<1>2. /\ front \in Seq(S) /\ Len(front) = i - 1
      /\ \A k \in 1..(i - 1) : front[k] = s[k]
  <2>1. \A k \in 1..(i - 1) : s[k] \in S
    BY <1>1
  <2>2. 1 \in Int /\ i - 1 \in Int
    BY <1>1
  <2> QED
    BY <1>1, <2>1, <2>2, SubSeqProperties
<1>3. /\ back \in Seq(S) /\ Len(back) = Len(s) - i
      /\ \A k \in 1..(Len(s) - i) : back[k] = s[i + k]
  <2>1. \A k \in (i + 1)..Len(s) : s[k] \in S
    BY <1>1
  <2>2. i + 1 \in Int /\ Len(s) \in Int
    BY <1>1
  <2>3. /\ back \in Seq(S) /\ Len(back) = IF i + 1 <= Len(s) THEN Len(s) - (i + 1) + 1 ELSE 0
        /\ \A k \in 1..(Len(s) - (i + 1) + 1) : back[k] = s[i + 1 + k - 1]
    BY <2>1, <2>2, SubSeqProperties
  <2> QED
    BY <1>1, <2>3
<1>4. Seqs!RemoveAt(s, i) = front \o back
  BY DEF Seqs!RemoveAt
<1> HIDE DEF front, back
<1>5. /\ front \o back \in Seq(S) /\ Len(front \o back) = Len(front) + Len(back)
      /\ \A k \in 1..(Len(front) + Len(back)) :
            (front \o back)[k] = IF k <= Len(front) THEN front[k] ELSE back[k - Len(front)]
  BY <1>2, <1>3, ConcatProperties
<1> QED
  BY <1>1, <1>2, <1>3, <1>4, <1>5

\* What WithKey keeps: the keys it had, each at its place, and no key twice.
OneMoreKey(ks, new, q, S) ==
    /\ new \in Seq(S) /\ Len(ks) <= Len(new)
    /\ \A i \in 1..Len(ks) : new[i] = ks[i]
    /\ \A i \in 1..Len(new) : new[i] = q \/ i \in 1..Len(ks)
    /\ \E i \in 1..Len(new) : new[i] = q
    /\ \A i, j \in 1..Len(new) : new[i] = new[j] => i = j

LEMMA WithKeyShape ==
    ASSUME NEW S, NEW ks \in Seq(S), NEW q \in S,
           \A i, j \in 1..Len(ks) : ks[i] = ks[j] => i = j
    PROVE  OneMoreKey(ks, WithKey(ks, q), q, S)
<1>1. Len(ks) \in Nat /\ DOMAIN ks = 1..Len(ks)
  BY LenProperties
<1>2. CASE q \in Seqs!ToSet(ks)
  BY <1>1, <1>2 DEF OneMoreKey, WithKey, Seqs!ToSet
<1>3. CASE q \notin Seqs!ToSet(ks)
  <2>1. WithKey(ks, q) = Append(ks, q) /\ \A i \in 1..Len(ks) : ks[i] # q
    BY <1>1, <1>3 DEF WithKey, Seqs!ToSet
  <2>2. /\ Append(ks, q) \in Seq(S) /\ Len(Append(ks, q)) = Len(ks) + 1
        /\ \A i \in 1..Len(ks) : Append(ks, q)[i] = ks[i]
        /\ Append(ks, q)[Len(ks) + 1] = q
    BY <1>1
  <2> QED
    BY <1>1, <2>1, <2>2 DEF OneMoreKey
<1> QED
  BY <1>2, <1>3

LEMMA EmbedsItself ==
    ASSUME NEW s
    PROVE  Embeds(s, s)
<1> DEFINE at == [k \in 1..Len(s) |-> k]
<1>1. at \in [1..Len(s) -> 1..Len(s)] /\ \A k \in 1..Len(s) : at[k] = k
  OBVIOUS
<1> HIDE DEF at
<1> QED
  BY <1>1 DEF Embeds

\* The same order of entries after one of them is deleted.
LEMMA EmbeddedCut ==
    ASSUME NEW S, NEW s \in Seq(S), NEW w \in Seq(S), NEW i \in 1..Len(s),
           Embeds(s, w), NEW c \in Seq(S), Len(c) = Len(s) - 1,
           \A k \in 1..Len(c) : c[k] = IF k < i THEN s[k] ELSE s[k + 1]
    PROVE  Embeds(c, w)
<1>1. PICK at \in [1..Len(s) -> 1..Len(w)] : \A k \in 1..Len(s) :
         s[k] = w[at[k]] /\ \A l \in 1..Len(s) : l < k => at[l] < at[k]
  BY DEF Embeds
<1>2. Len(s) \in Nat /\ Len(w) \in Nat /\ Len(c) \in Nat
  BY LenProperties
<1> DEFINE from(k) == IF k < i THEN k ELSE k + 1
           bt == [k \in 1..Len(c) |-> at[from(k)]]
<1>3. \A k \in 1..Len(c) : from(k) \in 1..Len(s) /\ c[k] = s[from(k)]
  BY <1>2
<1>4. \A k, l \in 1..Len(c) : l < k => from(l) < from(k)
  BY <1>2
<1> HIDE DEF from
<1>5. bt \in [1..Len(c) -> 1..Len(w)] /\ \A k \in 1..Len(c) : bt[k] = at[from(k)]
  BY <1>1, <1>3
<1> HIDE DEF bt
<1>6. \A k \in 1..Len(c) : c[k] = w[bt[k]] /\ \A l \in 1..Len(c) : l < k => bt[l] < bt[k]
  <2>1. \A k \in 1..Len(c) : c[k] = w[bt[k]]
    BY <1>1, <1>3, <1>5
  <2>2. ASSUME NEW k \in 1..Len(c), NEW l \in 1..Len(c), l < k
        PROVE  bt[l] < bt[k]
    <3>1. from(l) < from(k) /\ from(l) \in 1..Len(s) /\ from(k) \in 1..Len(s)
      BY <1>3, <1>4, <2>2
    <3>2. at[from(l)] < at[from(k)]
      BY <1>1, <3>1
    <3> QED
      BY <1>5, <3>2
  <2> QED
    BY <2>1, <2>2
<1> QED
  BY <1>5, <1>6 DEF Embeds
-----------------------------------------------------------------------------
(* What a step does to the table and to the thread that takes it *)

\* A write only adds list objects, and any key it changes refers to a new one.
Grown ==
    /\ thread' = thread /\ removes' = removes /\ disturbed' = Threads
    /\ keys' \in Seq(Quorums) /\ Len(keys) <= Len(keys')
    /\ \A i \in 1..Len(keys) : keys'[i] = keys[i]
    /\ heap' \in Seq(Seq(Neighbours)) /\ was' \in Seq(Seq(Neighbours))
    /\ Len(was') = Len(heap') /\ Len(heap) <= Len(heap')
    /\ \A r \in Objects : heap'[r] = heap[r] /\ was'[r] = was[r]
    /\ \A r \in 1..Len(heap') : r > Len(heap) =>
          heap'[r] = was'[r] /\ (heap'[r] \in Given \/ heap'[r] = <<>>)
    /\ slot' \in [DOMAIN slot' -> 1..Len(heap')]
    /\ \A q \in DOMAIN slot' :
          slot'[q] > Len(heap) \/ (q \in DOMAIN slot /\ slot'[q] = slot[q])

\* One write to the table, of a known key or a new one.
LEMMA PutGrows ==
    ASSUME Types, Keyed, NEW q \in Quorums, NEW list \in Given \cup {<<>>}, Put(q, list),
           owed' \in [Quorums -> Nat],
           instances' \subseteq DOMAIN slot' \cup Owed', joined' \subseteq instances'
    PROVE  Grown /\ Keyed'
<1>1. list \in Seq(Neighbours)
  BY TableAssumption, EmptySeq
<1>2. Len(heap) \in Nat /\ Len(keys) \in Nat
  BY LenProperties DEF Types
<1>3. /\ heap' \in Seq(Seq(Neighbours)) /\ Len(heap') = Len(heap) + 1
      /\ \A r \in Objects : heap'[r] = heap[r]
      /\ heap'[Len(heap) + 1] = list
  BY <1>1, <1>2 DEF Types, Put, Objects
<1>4. /\ was' \in Seq(Seq(Neighbours)) /\ Len(was') = Len(heap) + 1
      /\ \A r \in Objects : was'[r] = was[r]
      /\ was'[Len(heap) + 1] = list
  BY <1>1, <1>2 DEF Types, Put, Objects
<1>5. /\ DOMAIN slot' = DOMAIN slot \cup {q} /\ slot'[q] = Len(heap) + 1
      /\ \A k \in DOMAIN slot : k # q => slot'[k] = slot[k]
      /\ slot' = [k \in DOMAIN slot' |-> slot'[k]]
  BY DEF Put
<1>6. \A k \in DOMAIN slot : slot[k] \in 1..Len(heap)
  BY DEF Types, Objects
<1>7. slot' \in [DOMAIN slot' -> 1..Len(heap')]
  <2>1. \A k \in DOMAIN slot' : slot'[k] \in 1..Len(heap')
    BY <1>2, <1>3, <1>5, <1>6
  <2> QED
    BY <1>5, <2>1
<1>8. /\ keys' \in Seq(Quorums) /\ Len(keys) <= Len(keys')
      /\ \A i \in 1..Len(keys) : keys'[i] = keys[i]
      /\ \A i \in 1..Len(keys') : keys'[i] = q \/ i \in 1..Len(keys)
      /\ \E i \in 1..Len(keys') : keys'[i] = q
      /\ \A i, j \in 1..Len(keys') : keys'[i] = keys'[j] => i = j
  <2>1. keys \in Seq(Quorums) /\ \A i, j \in 1..Len(keys) : keys[i] = keys[j] => i = j
    BY DEF Types, Keyed
  <2>2. OneMoreKey(keys, WithKey(keys, q), q, Quorums)
    BY <2>1, WithKeyShape
  <2>3. keys' = WithKey(keys, q)
    BY DEF Put
  <2> QED
    BY <2>2, <2>3 DEF OneMoreKey
<1>9. Grown
  <2>1. thread' = thread /\ removes' = removes /\ disturbed' = Threads
    BY DEF Put
  <2>2. \A r \in 1..Len(heap') : r > Len(heap) =>
           heap'[r] = was'[r] /\ (heap'[r] \in Given \/ heap'[r] = <<>>)
    BY <1>2, <1>3, <1>4
  <2>3. \A k \in DOMAIN slot' : slot'[k] > Len(heap) \/ (k \in DOMAIN slot /\ slot'[k] = slot[k])
    BY <1>2, <1>5
  <2> QED
    BY <1>2, <1>3, <1>4, <1>7, <1>8, <2>1, <2>2, <2>3 DEF Grown
<1>10. \A i \in 1..Len(keys') : keys'[i] \in DOMAIN slot'
  BY <1>5, <1>8 DEF Keyed
<1>11. \A k \in DOMAIN slot' : \E i \in 1..Len(keys') : k = keys'[i]
  <2> SUFFICES ASSUME NEW k \in DOMAIN slot' PROVE \E i \in 1..Len(keys') : k = keys'[i]
    OBVIOUS
  <2>1. Len(keys') \in Nat
    BY <1>8, LenProperties
  <2>2. \A i \in 1..Len(keys) : i \in 1..Len(keys') /\ keys'[i] = keys[i]
    BY <1>2, <1>8, <2>1
  <2>3. CASE k = q
    BY <1>8, <2>3
  <2>4. CASE k \in DOMAIN slot
    <3>1. PICK i \in 1..Len(keys) : k = keys[i]
      BY <2>4 DEF Keyed
    <3> QED
      BY <2>2, <3>1
  <2> QED
    BY <1>5, <2>3, <2>4
<1>12. \A p, k \in DOMAIN slot' : slot'[p] = slot'[k] => p = k
  <2>1. \A p, k \in DOMAIN slot : slot[p] = slot[k] => p = k
    BY DEF Keyed
  <2> QED
    BY <1>2, <1>5, <1>6, <2>1
<1> QED
  BY <1>8, <1>9, <1>10, <1>11, <1>12 DEF Keyed

LEMMA StartGrows ==
    ASSUME Types, Keyed, Start
    PROVE  Grown /\ Keyed'
<1>1. PICK ids \in Restarts :
         /\ instances' = {ids[1], ids[2]} /\ Put(ids[1], <<>>)
         /\ owed' = [owed EXCEPT ![ids[2]] = @ + 1] /\ joined' = {}
  BY DEF Start
<1>2. ids[1] \in Quorums /\ ids[2] \in Quorums
  BY TableAssumption
<1>3. owed' \in [Quorums -> Nat] /\ owed'[ids[2]] > 0
  BY <1>1, <1>2 DEF Keyed
<1>4. ids[1] \in DOMAIN slot' /\ ids[2] \in Owed'
  BY <1>1, <1>2, <1>3 DEF Put, Owed
<1>5. instances' \subseteq DOMAIN slot' \cup Owed' /\ joined' \subseteq instances'
  BY <1>1, <1>4
<1> QED
  BY <1>1, <1>2, <1>3, <1>5, PutGrows

LEMMA StartEndsGrows ==
    ASSUME Types, Keyed, NEW q \in Quorums, StartEnds(q)
    PROVE  Grown /\ Keyed'
<1>1. /\ owed' \in [Quorums -> Nat] /\ Owed \subseteq Owed' \cup {q}
      /\ DOMAIN slot' = DOMAIN slot \cup {q}
      /\ instances' = instances /\ joined' = joined
  BY DEF StartEnds, Keyed, Owed, Put
<1>2. instances' \subseteq DOMAIN slot' \cup Owed' /\ joined' \subseteq instances'
  BY <1>1 DEF Keyed
<1> QED
  BY <1>1, <1>2, PutGrows DEF StartEnds

LEMMA WritesGrow ==
    ASSUME Types, Keyed, NEW q \in Quorums, Start \/ StartEnds(q) \/ Add(q) \/ Join(q)
    PROVE  Grown /\ Keyed'
<1>1. CASE Start
  BY <1>1, StartGrows
<1>2. CASE StartEnds(q)
  BY <1>2, StartEndsGrows
<1>3. ASSUME NEW list \in Given, Put(q, list), UNCHANGED <<instances, owed>>,
             q \in instances, joined' \subseteq joined \cup {q}
      PROVE  Grown /\ Keyed'
  <2>1. DOMAIN slot' = DOMAIN slot \cup {q} /\ Owed' = Owed
    BY <1>3 DEF Put, Owed
  <2>2. /\ owed' \in [Quorums -> Nat] /\ instances' \subseteq DOMAIN slot' \cup Owed'
        /\ joined' \subseteq instances'
    BY <1>3, <2>1 DEF Keyed
  <2> QED
    BY <1>3, <2>2, PutGrows
<1>4. CASE Add(q)
  <2>1. PICK list \in Given : Put(q, list)
    BY <1>4 DEF Add
  <2> QED
    BY <1>3, <1>4, <2>1 DEF Add
<1>5. CASE Join(q)
  <2>1. PICK list \in Given :
           Put(q, list) /\ joined' = IF Len(list) + 1 >= 4 THEN joined \cup {q} ELSE joined
    BY <1>5 DEF Join
  <2>2. joined' \subseteq joined \cup {q}
    BY <2>1
  <2> QED
    BY <1>3, <1>5, <2>1, <2>2 DEF Join
<1> QED
  BY <1>1, <1>2, <1>4, <1>5

OthersWait(t) == \A o \in Threads \ {t} : thread'[o] = thread[o]

\* The request goes on with the same list of the same quorum.
SameRequest(t) ==
    /\ thread' \in [Threads -> Request] /\ OthersWait(t)
    /\ thread'[t].port = thread[t].port /\ thread'[t].key = thread[t].key
    /\ thread'[t].list = thread[t].list /\ thread'[t].size = thread[t].size
    /\ thread'[t].ret = thread[t].ret

Idle(t, ret) ==
    /\ thread' \in [Threads -> Request] /\ OthersWait(t)
    /\ thread'[t].pc = "idle" /\ thread'[t].key = 1 /\ thread'[t].list = 1
    /\ thread'[t].index = 1 /\ thread'[t].size = 0 /\ thread'[t].ret = ret

LEMMA NoRequestShape ==
    ASSUME NEW ret \in {"none", "ok", "raised"}
    PROVE  /\ NoRequest(ret) \in Request
           /\ NoRequest(ret).pc = "idle" /\ NoRequest(ret).key = 1
           /\ NoRequest(ret).list = 1 /\ NoRequest(ret).index = 1
           /\ NoRequest(ret).size = 0 /\ NoRequest(ret).ret = ret
  BY DEF NoRequest, Request, AnyPort

LEMMA CalledShape ==
    ASSUME Types, Keyed, NEW t \in Threads, RemoveCalled(t)
    PROVE  /\ thread' \in [Threads -> Request] /\ OthersWait(t) /\ ~Serving(t)
           /\ thread'[t].pc = "next" /\ thread'[t].key = 1 /\ thread'[t].index = 1
           /\ thread'[t].list = slot[keys[1]] /\ thread'[t].size = Len(keys)
           /\ thread'[t].ret = "none"
           /\ slot[keys[1]] \in Objects /\ removes' = removes + 1
           /\ UNCHANGED <<instances, owed, joined, keys, slot, heap, was>>
<1>1. PICK n \in Neighbours :
         thread' = [thread EXCEPT ![t] =
                [NoRequest("none") EXCEPT !.pc = "next", !.port = PortOf[n],
                                          !.list = slot[keys[1]], !.size = Len(keys)]]
  BY DEF RemoveCalled
<1> DEFINE new == [NoRequest("none") EXCEPT !.pc = "next", !.port = PortOf[n],
                                          !.list = slot[keys[1]], !.size = Len(keys)]
<1>2. slot[keys[1]] \in Objects /\ Len(keys) \in Nat /\ Len(heap) \in Nat
  <2>1. Len(keys) \in Nat /\ Len(heap) \in Nat
    BY LenProperties DEF Types
  <2>2. 1 \in 1..Len(keys)
    BY <2>1 DEF Types
  <2>3. keys[1] \in DOMAIN slot
    BY <2>2 DEF Keyed
  <2> QED
    BY <2>1, <2>3 DEF Types
<1>3. slot[keys[1]] \in Nat /\ PortOf[n] \in Ports
  BY <1>2, TableAssumption DEF Objects
<1>4. /\ new \in Request
      /\ new.pc = "next" /\ new.key = 1 /\ new.index = 1 /\ new.list = slot[keys[1]]
      /\ new.size = Len(keys) /\ new.ret = "none"
  BY <1>2, <1>3 DEF NoRequest, Request, AnyPort
<1> HIDE DEF new
<1>5. thread' = [thread EXCEPT ![t] = new]
  BY <1>1 DEF new
<1>6. thread' \in [Threads -> Request] /\ thread'[t] = new /\ OthersWait(t)
  BY <1>4, <1>5 DEF Types, OthersWait
<1> QED
  BY <1>2, <1>4, <1>6 DEF RemoveCalled

LEMMA EntryShape ==
    ASSUME Types, NEW t \in Threads, NextEntry(t)
    PROVE  /\ SameRequest(t) /\ thread[t].pc = "next"
           /\ thread[t].index <= Len(heap[thread[t].list])
           /\ UNCHANGED <<instances, owed, joined, keys, slot, heap, was, disturbed, removes>>
           /\ \/ /\ PortOf[heap[thread[t].list][thread[t].index]] = thread[t].port
                 /\ thread'[t].pc = "delete" /\ thread'[t].index = thread[t].index
              \/ /\ PortOf[heap[thread[t].list][thread[t].index]] # thread[t].port
                 /\ thread'[t].pc = "next" /\ thread'[t].index = thread[t].index + 1
<1> DEFINE found == Matches(heap[thread[t].list][thread[t].index], thread[t].port)
           hit == [thread[t] EXCEPT !.pc = "delete"]
           miss == [thread[t] EXCEPT !.index = thread[t].index + 1]
<1>0. thread[t] \in Request
  BY DEF Types
<1>1. thread' = [thread EXCEPT ![t] = IF found THEN hit ELSE miss] /\ thread[t] \in Request
  BY <1>0 DEF NextEntry, NextIndex
<1>2. thread[t].pc = "next"
  BY DEF NextEntry
<1>3. /\ hit \in Request /\ miss \in Request /\ hit.pc = "delete" /\ miss.pc = "next"
      /\ hit.index = thread[t].index /\ miss.index = thread[t].index + 1
      /\ hit.port = thread[t].port /\ hit.key = thread[t].key /\ hit.list = thread[t].list
      /\ hit.size = thread[t].size /\ hit.ret = thread[t].ret
      /\ miss.port = thread[t].port /\ miss.key = thread[t].key /\ miss.list = thread[t].list
      /\ miss.size = thread[t].size /\ miss.ret = thread[t].ret
  BY <1>1, <1>2 DEF Request
<1> HIDE DEF hit, miss
<1>4. thread' \in [Threads -> Request] /\ OthersWait(t)
  BY <1>1, <1>3 DEF Types, OthersWait
<1>5. UNCHANGED <<instances, owed, joined, keys, slot, heap, was, disturbed, removes>>
  BY DEF NextEntry
<1>6. thread[t].index <= Len(heap[thread[t].list])
  BY DEF NextEntry
<1>7. CASE found
  <2>1. thread'[t] = hit
    BY <1>1, <1>7 DEF Types
  <2> QED
    BY <1>2, <1>3, <1>4, <1>5, <1>6, <1>7, <2>1 DEF SameRequest, Matches
<1>8. CASE ~found
  <2>1. thread'[t] = miss
    BY <1>1, <1>8 DEF Types
  <2> QED
    BY <1>2, <1>3, <1>4, <1>5, <1>6, <1>8, <2>1 DEF SameRequest, Matches
<1> QED
  BY <1>7, <1>8

\* List c loses its entry i.
Cut(c, i) ==
    /\ c \in Objects /\ i \in Entries(c)
    /\ heap' \in Seq(Seq(Neighbours)) /\ Len(heap') = Len(heap)
    /\ \A r \in Objects : r # c => heap'[r] = heap[r]
    /\ heap'[c] \in Seq(Neighbours) /\ Len(heap'[c]) = Len(heap[c]) - 1
    /\ \A k \in 1..(Len(heap[c]) - 1) :
          heap'[c][k] = IF k < i THEN heap[c][k] ELSE heap[c][k + 1]

LEMMA DeleteShape ==
    ASSUME Types, Keyed, NEW t \in Threads, PlaceOf(t), Delete(t)
    PROVE  /\ thread[t].pc = "delete" /\ Current(t) \in Objects
           /\ UNCHANGED <<instances, owed, joined, keys, slot, was, disturbed, removes>>
           /\ \/ /\ SameRequest(t) /\ Cut(Current(t), thread[t].index)
                 /\ thread'[t].pc = "next" /\ thread'[t].index = thread[t].index + 1
              \/ /\ thread[t].index > Len(heap[Current(t)])
                 /\ heap' = heap /\ Idle(t, "raised")
<1>1. /\ thread[t].pc = "delete" /\ thread[t] \in Request
      /\ UNCHANGED <<instances, owed, joined, keys, slot, was, disturbed, removes>>
  BY DEF Delete, Types
<1>2. Len(keys) \in Nat /\ Len(heap) \in Nat
  BY LenProperties DEF Types
<1>3. Current(t) \in Objects
  <2>1. keys[thread[t].key] \in DOMAIN slot
    BY DEF PlaceOf, Keyed
  <2> QED
    BY <2>1 DEF Current, Types
<1>4. /\ heap[Current(t)] \in Seq(Neighbours) /\ Len(heap[Current(t)]) \in Nat
      /\ thread[t].index \in Nat /\ thread[t].index >= 1
  <2>1. heap[Current(t)] \in Seq(Neighbours)
    BY <1>2, <1>3, ElementOfSeq DEF Types, Objects
  <2> QED
    BY <1>1, <2>1, LenProperties DEF PlaceOf, Request
<1>5. CASE thread[t].index <= Len(heap[Current(t)])
  <2> DEFINE c == Current(t)
             rest == Seqs!RemoveAt(heap[c], thread[t].index)
             new == [thread[t] EXCEPT !.pc = "next", !.index = thread[t].index + 1]
  <2>1. heap' = [heap EXCEPT ![c] = rest]
    BY <1>5 DEF Delete, Victim, Current
  <2>2. thread' = [thread EXCEPT ![t] = new]
    BY <1>1, <1>5 DEF Delete, Victim, Current, NextIndex, Types
  <2>3. /\ new \in Request /\ new.pc = "next" /\ new.index = thread[t].index + 1
        /\ new.port = thread[t].port /\ new.key = thread[t].key /\ new.list = thread[t].list
        /\ new.size = thread[t].size /\ new.ret = thread[t].ret
    <3>1. thread[t].index + 1 \in Nat
      BY <1>4
    <3>2. new \in Request
      BY <1>1, <3>1 DEF Request
    <3> QED
      BY <1>1, <3>2 DEF Request
  <2>4. thread[t].index \in Entries(c)
    BY <1>4, <1>5 DEF Entries
  <2>5. /\ rest \in Seq(Neighbours) /\ Len(rest) = Len(heap[c]) - 1
        /\ \A k \in 1..(Len(heap[c]) - 1) :
              rest[k] = IF k < thread[t].index THEN heap[c][k] ELSE heap[c][k + 1]
    BY <1>4, <2>4, RemoveAtShape DEF Entries
  <2> HIDE DEF rest, new, c
  <2>6. SameRequest(t) /\ thread'[t].pc = "next" /\ thread'[t].index = thread[t].index + 1
    BY <2>2, <2>3 DEF SameRequest, OthersWait, Types
  <2>7. c \in 1..Len(heap)
    BY <1>3 DEF c, Objects
  <2>8. /\ heap' \in Seq(Seq(Neighbours)) /\ Len(heap') = Len(heap)
        /\ \A r \in 1..Len(heap) : heap'[r] = IF r = c THEN rest ELSE heap[r]
    BY <2>1, <2>5, <2>7, ExceptSeq DEF Types
  <2>9. Cut(c, thread[t].index)
    BY <2>4, <2>5, <2>7, <2>8 DEF Cut, Objects
  <2> QED
    BY <1>1, <1>3, <2>6, <2>9 DEF c
<1>6. CASE thread[t].index > Len(heap[Current(t)])
  <2>1. ~(Victim(t) <= Len(heap[slot[keys[thread[t].key]]]))
    BY <1>4, <1>6 DEF Victim, Current
  <2>2. thread' = [thread EXCEPT ![t] = NoRequest("raised")] /\ heap' = heap
    BY <2>1 DEF Delete
  <2>3. Idle(t, "raised")
    BY <2>2, NoRequestShape DEF Idle, OthersWait, Types
  <2> QED
    BY <1>1, <1>3, <1>6, <2>2, <2>3
<1> QED
  BY <1>4, <1>5, <1>6

LEMMA QuorumShape ==
    ASSUME Types, Keyed, NEW t \in Threads, PlaceOf(t), NextQuorum(t)
    PROVE  /\ thread[t].pc = "next" /\ thread[t].index > Len(heap[thread[t].list])
           /\ UNCHANGED <<instances, owed, joined, keys, slot, heap, was, disturbed, removes>>
           /\ \/ thread[t].size # Len(keys) /\ Idle(t, "raised")
              \/ /\ thread[t].size = Len(keys) /\ thread[t].key = Len(keys)
                 /\ Idle(t, "ok") /\ thread'[t].port = thread[t].port
              \/ /\ thread' \in [Threads -> Request] /\ OthersWait(t)
                 /\ thread[t].size = Len(keys) /\ thread[t].key < Len(keys)
                 /\ thread'[t].pc = "next" /\ thread'[t].port = thread[t].port
                 /\ thread'[t].key = thread[t].key + 1 /\ thread'[t].index = 1
                 /\ thread'[t].list = slot[keys[thread[t].key + 1]]
                 /\ slot[keys[thread[t].key + 1]] \in Objects
                 /\ thread'[t].size = thread[t].size /\ thread'[t].ret = thread[t].ret
<1>1. /\ thread[t].pc = "next" /\ thread[t] \in Request
      /\ thread[t].index > Len(heap[thread[t].list])
      /\ UNCHANGED <<instances, owed, joined, keys, slot, heap, was, disturbed, removes>>
  BY DEF NextQuorum, Types
<1>2. Len(keys) \in Nat /\ Len(heap) \in Nat
  BY LenProperties DEF Types
<1>3. thread[t].key \in 1..Len(keys) /\ thread[t].key <= thread[t].size
  BY <1>1 DEF PlaceOf, Serving
<1>4. CASE thread[t].size # Len(keys)
  <2>1. thread' = [thread EXCEPT ![t] = NoRequest("raised")]
    BY <1>4 DEF NextQuorum
  <2>2. Idle(t, "raised")
    BY <2>1, NoRequestShape DEF Idle, OthersWait, Types
  <2> QED
    BY <1>1, <1>4, <2>2
<1>5. CASE thread[t].size = Len(keys) /\ thread[t].key = thread[t].size
  <2> DEFINE new == [NoRequest("ok") EXCEPT !.port = thread[t].port]
  <2>1. thread' = [thread EXCEPT ![t] = new]
    BY <1>5 DEF NextQuorum
  <2>2. /\ new \in Request /\ new.pc = "idle" /\ new.key = 1 /\ new.list = 1
        /\ new.index = 1 /\ new.size = 0 /\ new.ret = "ok" /\ new.port = thread[t].port
    BY <1>1 DEF NoRequest, Request, AnyPort
  <2> HIDE DEF new
  <2>3. Idle(t, "ok") /\ thread'[t].port = thread[t].port
    BY <2>1, <2>2 DEF Idle, OthersWait, Types
  <2> QED
    BY <1>1, <1>5, <2>3
<1>6. CASE thread[t].size = Len(keys) /\ thread[t].key # thread[t].size
  <2> DEFINE new == [thread[t] EXCEPT !.key = thread[t].key + 1, !.index = 1,
                                      !.list = slot[keys[thread[t].key + 1]]]
  <2>1. thread' = [thread EXCEPT ![t] = new]
    BY <1>6 DEF NextQuorum
  <2>2. thread[t].key < Len(keys) /\ thread[t].key + 1 \in 1..Len(keys)
    BY <1>2, <1>3, <1>6
  <2>3. slot[keys[thread[t].key + 1]] \in Objects
    <3>1. keys[thread[t].key + 1] \in DOMAIN slot
      BY <2>2 DEF Keyed
    <3> QED
      BY <3>1 DEF Types
  <2>4. /\ new \in Request /\ new.pc = "next" /\ new.port = thread[t].port
        /\ new.key = thread[t].key + 1 /\ new.index = 1 /\ new.size = thread[t].size
        /\ new.ret = thread[t].ret /\ new.list = slot[keys[thread[t].key + 1]]
    <3>1. thread[t].key + 1 \in Nat /\ slot[keys[thread[t].key + 1]] \in Nat
      BY <1>2, <2>2, <2>3 DEF Objects
    <3>2. new \in Request
      BY <1>1, <3>1 DEF Request
    <3> QED
      BY <1>1, <3>2 DEF Request
  <2> HIDE DEF new
  <2>5. thread' \in [Threads -> Request] /\ OthersWait(t) /\ thread'[t] = new
    BY <2>1, <2>4 DEF OthersWait, Types
  <2> QED
    BY <1>1, <1>6, <2>2, <2>3, <2>4, <2>5
<1> QED
  BY <1>4, <1>5, <1>6
-----------------------------------------------------------------------------
(* IInv is inductive *)

LEMMA Lengths ==
    ASSUME Types
    PROVE  /\ Len(heap) \in Nat /\ Len(keys) \in Nat
           /\ \A r \in Objects : heap[r] \in Seq(Neighbours) /\ was[r] \in Seq(Neighbours)
           /\ \A r \in Objects : Len(heap[r]) \in Nat /\ Len(was[r]) \in Nat
<1>1. \A r \in Objects : heap[r] \in Seq(Neighbours) /\ was[r] \in Seq(Neighbours)
  BY ElementOfSeq DEF Types, Objects
<1> QED
  BY <1>1, LenProperties DEF Types

LEMMA InitIsSound ==
    ASSUME Init
    PROVE  IInv
<1>1. PICK x \in Given, y \in Given : heap = <<x, y>>
  BY DEF Init
<1>2. x \in Seq(Neighbours) /\ y \in Seq(Neighbours)
  BY TableAssumption
<1>3. /\ heap \in Seq(Seq(Neighbours)) /\ Len(heap) = 2 /\ was = heap
      /\ \A r \in Objects : heap[r] \in Seq(Neighbours) /\ Len(heap[r]) \in Nat
  BY <1>1, <1>2, ElementOfSeq, LenProperties DEF Init, Objects
<1> DEFINE first == FirstIds[1]
           second == FirstIds[2]
<1>4. first \in Quorums /\ second \in Quorums /\ first # second
  BY TableAssumption
<1>5. /\ keys = <<first, second>> /\ instances = {first, second} /\ joined = {}
      /\ owed = [q \in Quorums |-> 0]
      /\ slot = [q \in {first, second} |-> IF q = first THEN 1 ELSE 2]
  BY DEF Init
<1> HIDE DEF first, second
<1>6. /\ keys \in Seq(Quorums) /\ Len(keys) = 2 /\ keys[1] = first /\ keys[2] = second
      /\ DOMAIN slot = {first, second} /\ slot[first] = 1 /\ slot[second] = 2
      /\ slot \in [DOMAIN slot -> 1..2]
  BY <1>4, <1>5
<1>7. /\ thread = [t \in Threads |-> NoRequest("none")]
      /\ disturbed = {} /\ removes = 0
  BY DEF Init
<1>8. /\ thread \in [Threads -> Request]
      /\ \A t \in Threads : /\ thread[t].pc = "idle" /\ thread[t].key = 1
                            /\ thread[t].list = 1 /\ thread[t].index = 1
  BY <1>7, NoRequestShape
<1>9. Types
  BY <1>3, <1>6, <1>7, <1>8 DEF Types, Objects
<1>10. Keyed
  <2>1. \A i \in 1..Len(keys) : i = 1 \/ i = 2
    BY <1>6
  <2> QED
    BY <1>4, <1>5, <1>6, <2>1 DEF Keyed
<1>11. \A t \in Threads : PlaceOf(t) /\ OnTarget(t)
  <2>1. 1 \in Objects /\ Len(was[1]) \in Nat
    BY <1>3 DEF Objects
  <2> QED
    BY <1>6, <1>8, <2>1 DEF PlaceOf, OnTarget, Serving
<1>12. Alone
  BY <1>8 DEF Alone, Serving
<1>13. \A r \in Objects : Embedded(r)
  BY <1>3, EmbedsItself DEF Embedded
<1> QED
  BY <1>9, <1>10, <1>11, <1>12, <1>13 DEF IInv

LEMMA GrownKeeps ==
    ASSUME IInv, Grown, Keyed'
    PROVE  IInv'
<1>1. /\ Types /\ Keyed /\ Len(heap) \in Nat /\ Len(keys) \in Nat
      /\ Len(heap') \in Nat /\ Len(keys') \in Nat
  BY Lengths, LenProperties DEF IInv, Grown
<1>2. \A r \in 1..Len(heap') : heap'[r] \in Seq(Neighbours) /\ Len(heap'[r]) \in Nat
  BY ElementOfSeq, LenProperties DEF Grown
<1>3. \A r \in 1..Len(heap') :
         \/ r \in Objects /\ heap'[r] = heap[r] /\ was'[r] = was[r]
         \/ heap'[r] = was'[r]
  BY <1>1 DEF Grown, Objects
<1>4. Types'
  <2>1. \A r \in 1..Len(heap') : Len(heap'[r]) <= Len(was'[r])
    <3>1. \A r \in Objects : Len(heap[r]) <= Len(was[r])
      BY <1>1 DEF Types
    <3> QED BY <1>2, <1>3, <3>1
  <2>2. /\ keys' \in Seq(Quorums) /\ Len(keys') >= 1
        /\ heap' \in Seq(Seq(Neighbours)) /\ was' \in Seq(Seq(Neighbours))
        /\ Len(was') = Len(heap') /\ slot' \in [DOMAIN slot' -> 1..Len(heap')]
    BY <1>1 DEF Grown, Types
  <2>3. thread' \in [Threads -> Request] /\ removes' \in Nat /\ disturbed' \subseteq Threads
    BY <1>1 DEF Grown, Types
  <2> QED
    BY <2>1, <2>2, <2>3 DEF Types, Objects
<1>5. ASSUME NEW t \in Threads PROVE PlaceOf(t)' /\ OnTarget(t)'
  <2>1. PlaceOf(t) /\ thread'[t] = thread[t] /\ t \in disturbed'
    BY DEF IInv, Grown
  <2>2. thread[t].list \in Objects /\ was'[thread[t].list] = was[thread[t].list]
    BY <2>1 DEF PlaceOf, Grown
  <2>3. thread[t].list \in Objects' /\ thread[t].key \in 1..Len(keys')
    <3>1. Len(heap) <= Len(heap') /\ Len(keys) <= Len(keys')
      BY DEF Grown
    <3>2. thread[t].key \in 1..Len(keys)
      BY <2>1 DEF PlaceOf
    <3> QED BY <1>1, <2>2, <3>1, <3>2 DEF Objects
  <2>4. Serving(t) => thread[t].size <= Len(keys')
    <3>1. thread[t].size \in Nat
      BY <1>1 DEF Types, Request
    <3> QED
      BY <1>1, <2>1, <3>1 DEF PlaceOf, Grown
  <2>5. PlaceOf(t)'
    BY <2>1, <2>2, <2>3, <2>4 DEF PlaceOf, Serving
  <2> QED
    BY <2>1, <2>5 DEF OnTarget
<1>6. Alone'
  BY DEF Alone, Grown
<1>7. ASSUME NEW r \in Objects' PROVE Embedded(r)'
  <2>1. CASE r \in Objects /\ heap'[r] = heap[r] /\ was'[r] = was[r]
    BY <2>1 DEF IInv, Embedded
  <2>2. CASE heap'[r] = was'[r]
    BY <2>2, EmbedsItself DEF Embedded
  <2> QED
    BY <1>3, <2>1, <2>2 DEF Objects
<1> QED
  BY <1>4, <1>5, <1>6, <1>7 DEF IInv

\* While t serves, every other request that serves has been met.
LEMMA OthersKeep ==
    ASSUME IInv, NEW t \in Threads, Serving(t), OthersWait(t),
           UNCHANGED <<keys, slot, was, disturbed>>, Len(heap') = Len(heap)
    PROVE  /\ \A o \in Threads \ {t} : PlaceOf(o)' /\ OnTarget(o)'
           /\ Alone'
<1>1. \A o \in Threads \ {t} : Serving(o) => o \in disturbed
  BY DEF IInv, Alone
<1>2. ASSUME NEW o \in Threads \ {t} PROVE PlaceOf(o)' /\ OnTarget(o)'
  <2>1. PlaceOf(o) /\ thread'[o] = thread[o]
    BY DEF IInv, OthersWait
  <2>2. PlaceOf(o)'
    BY <2>1 DEF PlaceOf, Serving, Objects
  <2>3. OnTarget(o)'
    BY <1>1, <2>1 DEF OnTarget, Serving
  <2> QED
    BY <2>2, <2>3
<1>3. Alone'
  <2>1. \A o \in Threads : Serving(o)' => Serving(o)
    BY DEF OthersWait, Serving
  <2> QED
    BY <2>1 DEF IInv, Alone
<1> QED
  BY <1>2, <1>3

LEMMA TableKept ==
    ASSUME IInv, thread' \in [Threads -> Request], removes' \in Nat,
           disturbed' \subseteq Threads,
           UNCHANGED <<instances, owed, joined, keys, slot, heap, was>>
    PROVE  Types' /\ Keyed' /\ \A r \in Objects' : Embedded(r)'
<1>1. Types'
  BY DEF IInv, Types, Objects
<1>2. Keyed'
  BY DEF IInv, Keyed, Owed
<1>3. \A r \in Objects' : Embedded(r)'
  BY DEF IInv, Embedded, Objects
<1> QED
  BY <1>1, <1>2, <1>3

LEMMA CalledKeeps ==
    ASSUME IInv, NEW t \in Threads, RemoveCalled(t)
    PROVE  IInv'
<1>1. Types /\ Keyed /\ Len(heap) \in Nat /\ Len(keys) \in Nat
  BY Lengths DEF IInv
<1>2. /\ thread' \in [Threads -> Request] /\ OthersWait(t) /\ ~Serving(t)
      /\ thread'[t].pc = "next" /\ thread'[t].key = 1 /\ thread'[t].index = 1
      /\ thread'[t].list = slot[keys[1]] /\ thread'[t].size = Len(keys)
      /\ thread'[t].ret = "none"
      /\ slot[keys[1]] \in Objects /\ removes' = removes + 1
      /\ UNCHANGED <<instances, owed, joined, keys, slot, heap, was>>
  BY <1>1, CalledShape
<1>3. /\ disturbed' = IF \E other \in Threads : Serving(other) THEN Threads ELSE disturbed \ {t}
      /\ disturbed \subseteq Threads
  BY <1>1 DEF RemoveCalled, Types
<1>4. Types' /\ Keyed' /\ \A r \in Objects' : Embedded(r)'
  <2>1. removes' \in Nat /\ disturbed' \subseteq Threads
    BY <1>1, <1>2, <1>3 DEF Types
  <2> QED
    BY <1>2, <2>1, TableKept
<1>5. \A o \in Threads \ {t} : thread'[o] = thread[o]
  BY <1>2 DEF OthersWait
<1>6. \A o \in Threads \ {t} : Serving(o) => disturbed' = Threads
  BY <1>3
<1>7. PlaceOf(t)' /\ OnTarget(t)'
  <2>1. Len(was[slot[keys[1]]]) \in Nat /\ Len(keys) >= 1
    BY <1>1, <1>2, Lengths DEF Types
  <2>2. PlaceOf(t)'
    BY <1>1, <1>2, <2>1 DEF PlaceOf, Serving, Objects
  <2>3. OnTarget(t)'
    BY <1>2 DEF OnTarget, Current
  <2> QED
    BY <2>2, <2>3
<1>8. ASSUME NEW o \in Threads \ {t} PROVE PlaceOf(o)' /\ OnTarget(o)'
  <2>1. PlaceOf(o) /\ thread'[o] = thread[o]
    BY <1>5 DEF IInv
  <2>2. PlaceOf(o)'
    BY <1>2, <2>1 DEF PlaceOf, Serving, Objects
  <2>3. OnTarget(o)'
    BY <1>6, <2>1 DEF OnTarget, Serving
  <2> QED
    BY <2>2, <2>3
<1>9. Alone'
  <2> SUFFICES ASSUME NEW a \in Threads, NEW b \in Threads, Serving(a)', Serving(b)', a # b
               PROVE  a \in disturbed'
    BY DEF Alone
  <2>1. a # t \/ b # t
    OBVIOUS
  <2> QED
    BY <1>5, <1>6, <2>1 DEF Serving
<1> QED
  BY <1>4, <1>7, <1>8, <1>9 DEF IInv

LEMMA EntryKeeps ==
    ASSUME IInv, NEW t \in Threads, NextEntry(t)
    PROVE  IInv'
<1>1. Types /\ Keyed /\ PlaceOf(t) /\ OnTarget(t) /\ thread[t] \in Request
  BY DEF IInv, Types
<1>2. /\ SameRequest(t) /\ thread[t].pc = "next"
      /\ thread[t].index <= Len(heap[thread[t].list])
      /\ UNCHANGED <<instances, owed, joined, keys, slot, heap, was, disturbed, removes>>
      /\ \/ /\ PortOf[heap[thread[t].list][thread[t].index]] = thread[t].port
            /\ thread'[t].pc = "delete" /\ thread'[t].index = thread[t].index
         \/ /\ PortOf[heap[thread[t].list][thread[t].index]] # thread[t].port
            /\ thread'[t].pc = "next" /\ thread'[t].index = thread[t].index + 1
  BY <1>1, EntryShape
<1>3. Types' /\ Keyed' /\ \A r \in Objects' : Embedded(r)'
  BY <1>1, <1>2, TableKept DEF SameRequest, Types
<1>4. (\A o \in Threads \ {t} : PlaceOf(o)' /\ OnTarget(o)') /\ Alone'
  BY <1>2, OthersKeep DEF Serving, SameRequest
<1>5. PlaceOf(t)'
  <2>1. /\ Len(heap[thread[t].list]) \in Nat /\ Len(was[thread[t].list]) \in Nat
        /\ Len(heap[thread[t].list]) <= Len(was[thread[t].list])
        /\ thread[t].index \in Nat /\ thread[t].list \in Objects
    BY <1>1, Lengths DEF PlaceOf, Types, Request
  <2>2. /\ thread'[t].index \in 1..(Len(was[thread[t].list]) + 1)
        /\ thread'[t].pc = "delete" => thread'[t].index <= Len(was[thread[t].list])
    <3>1. thread[t].index \in 1..(Len(was[thread[t].list]) + 1)
      BY <1>1 DEF PlaceOf
    <3>2. thread[t].index <= Len(was[thread[t].list])
      BY <1>2, <2>1
    <3>3. thread'[t].index \in {thread[t].index, thread[t].index + 1}
      BY <1>2
    <3>4. thread'[t].pc = "delete" => thread'[t].index = thread[t].index
      BY <1>2
    <3> QED BY <2>1, <3>1, <3>2, <3>3, <3>4
  <2> QED
    BY <1>1, <1>2, <2>2 DEF PlaceOf, Serving, SameRequest, Objects
<1>6. OnTarget(t)'
  BY <1>1, <1>2 DEF OnTarget, Serving, SameRequest, Current
<1> QED
  BY <1>3, <1>4, <1>5, <1>6 DEF IInv

LEMMA QuorumKeeps ==
    ASSUME IInv, NEW t \in Threads, NextQuorum(t)
    PROVE  IInv'
<1>1. Types /\ Keyed /\ PlaceOf(t) /\ OnTarget(t) /\ thread[t].pc = "next"
  BY DEF IInv, NextQuorum
<1>2. /\ UNCHANGED <<instances, owed, joined, keys, slot, heap, was, disturbed, removes>>
      /\ \/ \E ret \in {"ok", "raised"} : Idle(t, ret)
         \/ /\ thread' \in [Threads -> Request] /\ OthersWait(t)
            /\ thread[t].size = Len(keys) /\ thread[t].key < Len(keys)
            /\ thread'[t].pc = "next" /\ thread'[t].port = thread[t].port
            /\ thread'[t].key = thread[t].key + 1 /\ thread'[t].index = 1
            /\ thread'[t].list = slot[keys[thread[t].key + 1]]
            /\ slot[keys[thread[t].key + 1]] \in Objects
            /\ thread'[t].size = thread[t].size /\ thread'[t].ret = thread[t].ret
  BY <1>1, QuorumShape
<1>3. thread' \in [Threads -> Request] /\ OthersWait(t)
  BY <1>2 DEF Idle
<1>4. Types' /\ Keyed' /\ \A r \in Objects' : Embedded(r)'
  BY <1>1, <1>2, <1>3, TableKept DEF Types
<1>5. (\A o \in Threads \ {t} : PlaceOf(o)' /\ OnTarget(o)') /\ Alone'
  BY <1>1, <1>2, <1>3, OthersKeep DEF Serving
<1>6. PlaceOf(t)' /\ OnTarget(t)'
  <2>1. /\ Len(heap) \in Nat /\ Len(keys) \in Nat /\ 1 \in Objects /\ 1 \in 1..Len(keys)
        /\ \A r \in Objects : Len(was[r]) \in Nat
    <3>1. Len(heap) >= 1
      BY <1>1, Lengths DEF PlaceOf, Objects
    <3> QED
      BY <1>1, <3>1, Lengths DEF Types, Objects
  <2>2. ASSUME NEW ret \in {"ok", "raised"}, Idle(t, ret) PROVE PlaceOf(t)' /\ OnTarget(t)'
    BY <1>2, <2>1, <2>2 DEF Idle, PlaceOf, OnTarget, Serving, Objects
  <2>3. ASSUME /\ thread[t].size = Len(keys) /\ thread[t].key < Len(keys)
               /\ thread'[t].pc = "next" /\ thread'[t].port = thread[t].port
               /\ thread'[t].key = thread[t].key + 1 /\ thread'[t].index = 1
               /\ thread'[t].list = slot[keys[thread[t].key + 1]]
               /\ slot[keys[thread[t].key + 1]] \in Objects
               /\ thread'[t].size = thread[t].size /\ thread'[t].ret = thread[t].ret
        PROVE  PlaceOf(t)' /\ OnTarget(t)'
    <3>1. PlaceOf(t)'
      <4>1. thread'[t].list \in Objects' /\ thread'[t].key \in 1..Len(keys')
        BY <1>1, <1>2, <2>1, <2>3 DEF PlaceOf, Objects
      <4>2. thread'[t].index \in 1..(Len(was'[thread'[t].list]) + 1)
        BY <1>2, <2>1, <2>3
      <4>3. Serving(t) => thread[t].ret = "none"
        BY <1>1 DEF PlaceOf
      <4>4. Serving(t)
        BY <1>1 DEF Serving
      <4>5. thread'[t].key <= thread'[t].size /\ thread'[t].size <= Len(keys')
        BY <1>1, <1>2, <2>1, <2>3 DEF PlaceOf
      <4> QED
        BY <2>3, <4>1, <4>2, <4>3, <4>4, <4>5 DEF PlaceOf
    <3>2. OnTarget(t)'
      BY <1>2, <2>3 DEF OnTarget, Serving, Current
    <3> QED
      BY <3>1, <3>2
  <2> QED
    BY <1>2, <2>2, <2>3
<1> QED
  BY <1>4, <1>5, <1>6 DEF IInv

LEMMA CutKeepsTypes ==
    ASSUME IInv, NEW c, NEW i, Cut(c, i), thread' \in [Threads -> Request],
           UNCHANGED <<instances, owed, joined, keys, slot, was, disturbed, removes>>
    PROVE  Types' /\ Keyed' /\ \A r \in Objects' : Embedded(r)'
<1>1. Types /\ \A r \in Objects : Len(heap[r]) \in Nat /\ Len(was[r]) \in Nat
  BY Lengths DEF IInv
<1>2. Types'
  <2>1. ASSUME NEW r \in Objects PROVE Len(heap'[r]) <= Len(was[r])
    <3>1. Len(heap[r]) <= Len(was[r])
      BY <1>1 DEF Types
    <3>2. CASE r = c
      BY <1>1, <3>1, <3>2 DEF Cut
    <3>3. CASE r # c
      BY <3>1, <3>3 DEF Cut
    <3> QED
      BY <3>2, <3>3
  <2> QED
    BY <1>1, <2>1 DEF Cut, Types, Objects
<1>3. Keyed'
  BY DEF IInv, Keyed, Owed
<1>4. ASSUME NEW r \in Objects PROVE Embedded(r)'
  <2>1. CASE r # c
    <3>1. Embedded(r) /\ heap'[r] = heap[r] /\ was'[r] = was[r]
      BY <2>1 DEF IInv, Cut
    <3> QED
      BY <3>1 DEF Embedded
  <2>2. CASE r = c
    <3>1. /\ heap[c] \in Seq(Neighbours) /\ was[c] \in Seq(Neighbours) /\ i \in 1..Len(heap[c])
          /\ heap'[c] \in Seq(Neighbours) /\ Len(heap'[c]) = Len(heap[c]) - 1
      BY <1>1, Lengths DEF Cut, Entries
    <3>2. \A k \in 1..Len(heap'[c]) :
             heap'[c][k] = IF k < i THEN heap[c][k] ELSE heap[c][k + 1]
      BY <3>1 DEF Cut
    <3>3. Embeds(heap[c], was[c])
      BY DEF IInv, Cut, Embedded
    <3>4. Embeds(heap'[c], was[c])
      BY <3>1, <3>2, <3>3, EmbeddedCut
    <3> QED
      BY <2>2, <3>4 DEF Embedded
  <2> QED
    BY <2>1, <2>2
<1>5. Objects' = Objects
  BY DEF Cut, Objects
<1> QED
  BY <1>2, <1>3, <1>4, <1>5

LEMMA DeleteKeeps ==
    ASSUME IInv, NEW t \in Threads, Delete(t)
    PROVE  IInv'
<1>1. Types /\ Keyed /\ PlaceOf(t) /\ OnTarget(t) /\ thread[t].pc = "delete"
  BY DEF IInv, Delete
<1>2. /\ Current(t) \in Objects
      /\ UNCHANGED <<instances, owed, joined, keys, slot, was, disturbed, removes>>
      /\ \/ /\ SameRequest(t) /\ Cut(Current(t), thread[t].index)
            /\ thread'[t].pc = "next" /\ thread'[t].index = thread[t].index + 1
         \/ heap' = heap /\ Idle(t, "raised")
  BY <1>1, DeleteShape
<1>3. thread' \in [Threads -> Request] /\ OthersWait(t) /\ Len(heap') = Len(heap)
  BY <1>2 DEF Idle, SameRequest, Cut
<1>4. (\A o \in Threads \ {t} : PlaceOf(o)' /\ OnTarget(o)') /\ Alone'
  BY <1>1, <1>2, <1>3, OthersKeep DEF Serving
<1>5. /\ Len(heap) \in Nat /\ 1 \in Objects /\ 1 \in 1..Len(keys)
      /\ \A r \in Objects : Len(was[r]) \in Nat
  <2>1. Len(heap) >= 1 /\ Len(keys) \in Nat
    BY <1>1, Lengths DEF PlaceOf, Objects
  <2> QED
    BY <1>1, <2>1, Lengths DEF Types, Objects
<1>6. CASE heap' = heap /\ Idle(t, "raised")
  <2>1. Types' /\ Keyed' /\ \A r \in Objects' : Embedded(r)'
    BY <1>1, <1>2, <1>3, <1>6, TableKept DEF Types
  <2>2. PlaceOf(t)' /\ OnTarget(t)'
    BY <1>2, <1>5, <1>6 DEF Idle, PlaceOf, OnTarget, Serving, Objects
  <2> QED
    BY <1>4, <2>1, <2>2 DEF IInv
<1>7. CASE /\ SameRequest(t) /\ Cut(Current(t), thread[t].index)
           /\ thread'[t].pc = "next" /\ thread'[t].index = thread[t].index + 1
  <2>1. Types' /\ Keyed' /\ \A r \in Objects' : Embedded(r)'
    BY <1>2, <1>3, <1>7, CutKeepsTypes
  <2>2. thread'[t].index \in 1..(Len(was[thread[t].list]) + 1)
    BY <1>1, <1>5, <1>7 DEF PlaceOf
  <2>3. PlaceOf(t)'
    BY <1>1, <1>2, <1>3, <1>7, <2>2 DEF PlaceOf, Serving, SameRequest, Objects
  <2>4. OnTarget(t)'
    BY <1>1, <1>2, <1>7 DEF OnTarget, Serving, SameRequest, Current
  <2> QED
    BY <1>4, <2>1, <2>3, <2>4 DEF IInv
<1> QED
  BY <1>2, <1>6, <1>7

\* IInv holds in every reachable state: the start, and each handler's step, keep it.
THEOREM Inductive == Spec => []IInv
<1>1. ASSUME IInv, [Next]_vars PROVE IInv'
  <2>1. CASE Start \/ \E q \in Quorums : StartEnds(q) \/ Add(q) \/ Join(q)
    <3>1. PICK q \in Quorums : Start \/ StartEnds(q) \/ Add(q) \/ Join(q)
      BY <2>1, TableAssumption
    <3> QED
      BY <1>1, <3>1, WritesGrow, GrownKeeps DEF IInv
  <2>2. CASE \E t \in Threads : RemoveCalled(t) \/ NextEntry(t) \/ Delete(t) \/ NextQuorum(t)
    BY <1>1, <2>2, CalledKeeps, EntryKeeps, DeleteKeeps, QuorumKeeps
  <2>3. CASE UNCHANGED vars
    <3>1. UNCHANGED <<instances, owed, joined, keys, slot, heap, was, thread, disturbed,
                     removes>>
      BY <2>3 DEF vars
    <3> QED
      BY <1>1, <3>1 DEF IInv, Types, Keyed, Owed, Alone, PlaceOf, OnTarget, Serving,
                        Current, Embedded, Objects
  <2> QED
    BY <1>1, <2>1, <2>2, <2>3 DEF Next
<1> QED
  BY <1>1, InitIsSound, PTL DEF Spec

\* NeighbourTable.TypeOK: every key keeps a list object, the ids served are keys,
\* and no request leaves the places its two loops can reach.
THEOREM TypesHold == Spec => []TypeOK
<1>1. ASSUME IInv PROVE TypeOK
  <2>1. Types /\ Keyed /\ \A t \in Threads : PlaceOf(t)
    BY <1>1 DEF IInv
  <2>2. /\ DOMAIN keys = 1..Len(keys) /\ DOMAIN heap = Objects
        /\ DOMAIN was = DOMAIN heap
    BY <2>1, LenProperties DEF Types, Objects
  <2>3. DOMAIN slot = Seqs!ToSet(keys) /\ Seqs!IsInjective(keys)
    <3>1. DOMAIN slot = {keys[i] : i \in 1..Len(keys)}
      <4>1. \A i \in 1..Len(keys) : keys[i] \in DOMAIN slot
        BY <2>1 DEF Keyed
      <4>2. \A q \in DOMAIN slot : \E i \in 1..Len(keys) : q = keys[i]
        BY <2>1 DEF Keyed
      <4> QED BY <4>1, <4>2
    <3>2. Seqs!IsInjective(keys)
      BY <2>1, <2>2 DEF Keyed, Seqs!IsInjective
    <3> QED
      BY <2>2, <3>1, <3>2 DEF Seqs!ToSet
  <2> QED
    BY <2>1, <2>2, <2>3 DEF TypeOK, Types, Keyed, Owed, PlaceOf
<1> QED
  BY <1>1, Inductive, PTL

\* What a deletion takes from a list is the entry it names.
LEMMA CutLoses ==
    ASSUME Types, NEW c, NEW i, Cut(c, i)
    PROVE  \A r \in Objects : \A n \in Lost(r) : r = c /\ n = heap[c][i]
<1>1. /\ \A r \in Objects : DOMAIN heap[r] = 1..Len(heap[r]) /\ Len(heap[r]) \in Nat
      /\ DOMAIN heap'[c] = 1..(Len(heap[c]) - 1)
  BY Lengths, LenProperties DEF Cut
<1>2. \A r \in Objects : r # c => Lost(r) = {}
  BY DEF Cut, Lost
<1>3. ASSUME NEW n \in Lost(c) PROVE n = heap[c][i]
  <2>1. PICK k \in 1..Len(heap[c]) : n = heap[c][k]
    BY <1>1 DEF Lost, Seqs!ToSet, Cut
  <2>2. \A j \in 1..(Len(heap[c]) - 1) : heap'[c][j] # n
    BY <1>1 DEF Lost, Seqs!ToSet
  <2>3. i \in 1..Len(heap[c]) /\ Len(heap[c]) \in Nat
    BY <1>1 DEF Cut, Entries
  <2>4. CASE k < i
    <3>1. k \in 1..(Len(heap[c]) - 1)
      BY <2>1, <2>3, <2>4
    <3>2. heap'[c][k] = heap[c][k]
      BY <2>4, <3>1 DEF Cut
    <3> QED
      BY <2>1, <2>2, <3>1, <3>2
  <2>5. CASE k > i
    <3>1. k - 1 \in 1..(Len(heap[c]) - 1) /\ ~(k - 1 < i) /\ (k - 1) + 1 = k
      BY <2>3, <2>5
    <3>2. heap'[c][k - 1] = heap[c][k]
      BY <3>1 DEF Cut
    <3> QED
      BY <2>1, <2>2, <3>1, <3>2
  <2>6. CASE k = i
    BY <2>1, <2>6
  <2> QED
    BY <2>3, <2>4, <2>5, <2>6
<1> QED
  BY <1>2, <1>3

\* NeighbourTable.UndisturbedSparesOthers: the two look-ups of remove's deletion
\* give the same list while no other request is met, so only the port it is given
\* loses entries.
THEOREM OthersAreSpared == Spec => UndisturbedSparesOthers
<1> DEFINE Spares == \A t \in Threads \ disturbed : Serving(t) =>
              \A r \in DOMAIN heap : \A n \in Lost(r) : PortOf[n] = thread[t].port
<1>1. ASSUME IInv, [Next]_vars PROVE [Spares]_vars
  <2>1. Types /\ Keyed /\ DOMAIN heap = Objects
    BY <1>1, LenProperties DEF IInv, Types, Objects
  <2>2. ASSUME \A r \in Objects : heap'[r] = heap[r] PROVE Spares
    BY <2>1, <2>2 DEF Lost
  <2>3. CASE Start \/ \E q \in Quorums : StartEnds(q) \/ Add(q) \/ Join(q)
    <3>1. PICK q \in Quorums : Start \/ StartEnds(q) \/ Add(q) \/ Join(q)
      BY <2>3, TableAssumption
    <3> QED
      BY <2>1, <2>2, <3>1, WritesGrow DEF Grown
  <2>4. CASE \E t \in Threads : RemoveCalled(t) \/ NextEntry(t) \/ NextQuorum(t)
    BY <2>2, <2>4 DEF RemoveCalled, NextEntry, NextQuorum
  <2>5. ASSUME NEW u \in Threads, Delete(u) PROVE Spares
    <3>1. CASE heap' = heap
      BY <2>2, <3>1
    <3>2. CASE Cut(Current(u), thread[u].index)
      <4> SUFFICES ASSUME NEW t \in Threads \ disturbed, Serving(t),
                          NEW r \in Objects, NEW n \in Lost(r)
                   PROVE  PortOf[n] = thread[t].port
        BY <2>1
      <4>1. thread[u].pc = "delete"
        BY <2>5 DEF Delete
      <4>2. t = u
        BY <1>1, <4>1 DEF IInv, Alone, Serving
      <4>3. n = heap[Current(u)][thread[u].index]
        BY <2>1, <3>2, CutLoses
      <4> QED
        BY <1>1, <4>1, <4>2, <4>3 DEF IInv, OnTarget
    <3> QED
      BY <1>1, <2>1, <2>5, <3>1, <3>2, DeleteShape DEF IInv
  <2>6. CASE UNCHANGED vars
    BY <2>6
  <2> QED
    BY <1>1, <2>3, <2>4, <2>5, <2>6 DEF Next
<1> QED
  BY <1>1, Inductive, PTL DEF Spec, UndisturbedSparesOthers
-----------------------------------------------------------------------------
(* What holds when no list has a port twice *)

IsFor(r, i, port) == PortOf[heap[r][i]] = port

FreeFrom(r, m, port) == \A i \in Entries(r) : i >= m => ~IsFor(r, i, port)

PortOnce(r) ==
    \A i, j \in Entries(r) : PortOf[heap[r][i]] = PortOf[heap[r][j]] => i = j

\* An entry found is the last one of its port, wherever it has moved to.
PassedBy(t) ==
    thread[t].pc = "delete" =>
        \A j \in Entries(thread[t].list) :
            j > thread[t].index => ~IsFor(thread[t].list, j, thread[t].port)

\* What a request that no other one met has behind it is free of its port.
Swept(t) ==
    Serving(t) /\ t \notin disturbed =>
        /\ \A k \in 1..(thread[t].key - 1) : \A i \in Entries(slot[keys[k]]) :
              ~IsFor(slot[keys[k]], i, thread[t].port)
        /\ \A i \in Entries(thread[t].list) :
              i < thread[t].index => ~IsFor(thread[t].list, i, thread[t].port)

Answered(t) ==
    t \notin disturbed /\ thread[t].ret = "ok" =>
        \A q \in DOMAIN slot : \A i \in Entries(slot[q]) : ~IsFor(slot[q], i, thread[t].port)

\* The rest of the list has nothing for the request.
Spent(t) ==
    thread[t].pc = "next" /\ FreeFrom(thread[t].list, thread[t].index, thread[t].port)

\* The requests that may still delete an entry of list object r.
MayCut(r) ==
    {t \in Threads : /\ Serving(t)
                     /\ \E k \in thread[t].key..Len(keys) :
                           slot[keys[k]] = r /\ (k = thread[t].key => ~Spent(t))}

Requests == {t \in Threads : Serving(t)}

Counted ==
    /\ IsFiniteSet(Requests) /\ Cardinality(Requests) <= removes
    /\ \A r \in Objects : Len(was[r]) - Len(heap[r]) + Cardinality(MayCut(r)) <= removes

PInv ==
    /\ \A r \in Objects : PortOnce(r)
    /\ \A t \in Threads : PassedBy(t) /\ Swept(t) /\ Answered(t)
    /\ Counted

LEMMA OneMoreAtMost ==
    ASSUME NEW S, NEW x, IsFiniteSet(S)
    PROVE  /\ IsFiniteSet(S \cup {x}) /\ Cardinality(S \cup {x}) \in Nat
           /\ Cardinality(S \cup {x}) <= Cardinality(S) + 1
<1> DEFINE m == Cardinality(S)
           n == Cardinality(S \cup {x})
<1>1. IsFiniteSet(S \cup {x}) /\ n = IF x \in S THEN m ELSE m + 1
  BY FS_AddElement
<1>2. m \in Nat /\ n \in Nat
  BY <1>1, FS_CardinalityType
<1> HIDE DEF m, n
<1>3. n <= m + 1
  BY <1>1, <1>2
<1> QED
  BY <1>1, <1>2, <1>3 DEF m, n

LEMMA FewerMayCut ==
    ASSUME Types, Counted, Requests' \subseteq Requests, removes' = removes,
           \A r \in Objects' : \/ heap'[r] = was'[r]
                               \/ /\ r \in Objects /\ MayCut(r)' \subseteq MayCut(r)
                                  /\ heap'[r] = heap[r] /\ was'[r] = was[r],
           \A r \in Objects' : Len(heap'[r]) \in Nat
    PROVE  Counted'
<1>1. /\ IsFiniteSet(Requests) /\ Cardinality(Requests) \in Nat /\ removes \in Nat
      /\ Cardinality(Requests) <= removes
  BY FS_CardinalityType DEF Counted, Types
<1>2. /\ IsFiniteSet(Requests') /\ Cardinality(Requests') <= removes
      /\ Cardinality(Requests') \in Nat
  BY <1>1, FS_Subset, FS_CardinalityType
<1>3. ASSUME NEW r \in Objects'
      PROVE  Len(was'[r]) - Len(heap'[r]) + Cardinality(MayCut(r)') <= removes
  <2>1. CASE heap'[r] = was'[r]
    <3>1. MayCut(r)' \in SUBSET Requests'
      BY DEF MayCut, Requests
    <3>2. Cardinality(MayCut(r)') <= Cardinality(Requests') /\ Cardinality(MayCut(r)') \in Nat
      BY <1>2, <3>1, FS_Subset, FS_CardinalityType
    <3> DEFINE m == Cardinality(MayCut(r)')
               x == Len(heap'[r])
    <3>3. x \in Nat /\ m \in Nat /\ m <= removes /\ removes \in Nat
      BY <1>1, <1>2, <3>2
    <3> HIDE DEF m, x
    <3>4. x - x + m <= removes
      BY <3>3
    <3> QED
      BY <2>1, <3>4 DEF m, x
  <2>2. CASE /\ r \in Objects /\ MayCut(r)' \subseteq MayCut(r)
             /\ heap'[r] = heap[r] /\ was'[r] = was[r]
    <3>1. MayCut(r) \in SUBSET Requests
      BY DEF MayCut, Requests
    <3>2. IsFiniteSet(MayCut(r)) /\ Cardinality(MayCut(r)) \in Nat
      BY <1>1, <3>1, FS_Subset, FS_CardinalityType
    <3>3. Cardinality(MayCut(r)') <= Cardinality(MayCut(r)) /\ Cardinality(MayCut(r)') \in Nat
      BY <2>2, <3>2, FS_Subset, FS_CardinalityType
    <3>4. Len(was[r]) - Len(heap[r]) + Cardinality(MayCut(r)) <= removes
      BY <2>2 DEF Counted
    <3>5. Len(was[r]) \in Nat /\ Len(heap[r]) \in Nat /\ removes \in Nat
      BY <2>2, Lengths DEF Types
    <3>6. Len(was[r]) - Len(heap[r]) + Cardinality(MayCut(r)') <= removes
      <4> DEFINE m == Cardinality(MayCut(r))
                 n == Cardinality(MayCut(r)')
                 x == Len(was[r])
                 y == Len(heap[r])
      <4>1. /\ m \in Nat /\ n \in Nat /\ n <= m /\ x \in Nat /\ y \in Nat
            /\ removes \in Nat /\ x - y + m <= removes
        BY <3>2, <3>3, <3>4, <3>5
      <4> HIDE DEF m, n, x, y
      <4>2. x - y + n <= removes
        BY <4>1
      <4> QED
        BY <4>2 DEF n, x, y
    <3> QED
      BY <2>2, <3>6
  <2> QED
    BY <2>1, <2>2
<1> QED
  BY <1>2, <1>3 DEF Counted

\* Where the entries of a list come from when one of them has been deleted.
LEMMA CutEntries ==
    ASSUME Types, NEW c, NEW i, Cut(c, i), NEW r \in Objects, NEW j \in 1..Len(heap'[r])
    PROVE  \E k \in Entries(r) :
              /\ heap'[r][j] = heap[r][k]
              /\ r # c => k = j
              /\ r = c => k = IF j < i THEN j ELSE j + 1
<1>1. CASE r # c
  BY <1>1 DEF Cut, Entries
<1>2. CASE r = c
  <2>1. /\ Len(heap[c]) \in Nat /\ i \in 1..Len(heap[c]) /\ j \in 1..(Len(heap[c]) - 1)
        /\ heap'[c][j] = IF j < i THEN heap[c][j] ELSE heap[c][j + 1]
    BY <1>2, Lengths DEF Cut, Entries
  <2>2. CASE j < i
    BY <1>2, <2>1, <2>2 DEF Entries
  <2>3. CASE ~(j < i)
    BY <1>2, <2>1, <2>3 DEF Entries
  <2> QED
    BY <2>2, <2>3
<1> QED
  BY <1>1, <1>2

LEMMA InitIsCounted ==
    ASSUME OnePortEach, Init
    PROVE  PInv
<1>1. /\ IInv /\ Types /\ removes = 0 /\ was = heap /\ disturbed = {}
      /\ thread = [t \in Threads |-> NoRequest("none")]
  BY InitIsSound DEF Init, IInv
<1>2. \A t \in Threads : thread[t].pc = "idle" /\ thread[t].ret = "none"
  BY <1>1, NoRequestShape
<1>3. \A r \in Objects : PortOnce(r)
  <2>1. PICK x \in Given, y \in Given : heap = <<x, y>>
    BY DEF Init
  <2>2. \A r \in Objects : heap[r] \in Given
    BY <2>1 DEF Objects
  <2>3. \A r \in Objects : DOMAIN heap[r] = Entries(r)
    BY <1>1, Lengths, LenProperties DEF Entries
  <2> QED
    BY <2>2, <2>3 DEF OnePortEach, PortOnce
<1>4. \A t \in Threads : PassedBy(t) /\ Swept(t) /\ Answered(t)
  BY <1>2 DEF PassedBy, Swept, Answered, Serving
<1>5. Requests = {} /\ \A r \in Objects : MayCut(r) = {}
  BY <1>2 DEF Requests, MayCut, Serving
<1>6. Counted
  <2>1. \A r \in Objects : Len(was[r]) - Len(heap[r]) = 0
    BY <1>1, Lengths
  <2>2. IsFiniteSet({}) /\ Cardinality({}) = 0
    BY FS_EmptySet
  <2> QED
    BY <1>1, <1>5, <2>1, <2>2 DEF Counted
<1> QED
  BY <1>3, <1>4, <1>6 DEF PInv

LEMMA GrownCounts ==
    ASSUME OnePortEach, IInv, PInv, Grown, Keyed'
    PROVE  PInv'
<1>1. /\ Types /\ Keyed /\ IInv' /\ Len(heap) \in Nat /\ Len(keys) \in Nat
      /\ Len(heap') \in Nat /\ Len(keys') \in Nat
  BY GrownKeeps, Lengths, LenProperties DEF IInv, Grown
<1>2. \A r \in Objects' : /\ heap'[r] \in Seq(Neighbours) /\ Len(heap'[r]) \in Nat
                          /\ DOMAIN heap'[r] = 1..Len(heap'[r])
  BY ElementOfSeq, LenProperties DEF Grown, Objects
<1>3. ASSUME NEW r \in Objects' PROVE PortOnce(r)'
  <2>1. CASE r \in Objects /\ heap'[r] = heap[r]
    BY <2>1 DEF PInv, PortOnce, Entries
  <2>2. CASE heap'[r] \in Given
    BY <1>2, <2>2 DEF OnePortEach, PortOnce, Entries
  <2>3. CASE heap'[r] = <<>>
    <3>1. Len(heap'[r]) = 0
      BY <2>3
    <3> QED
      BY <3>1 DEF PortOnce, Entries
  <2> QED
    BY <1>1, <2>1, <2>2, <2>3 DEF Grown, Objects
<1>4. ASSUME NEW t \in Threads PROVE PassedBy(t)' /\ Swept(t)' /\ Answered(t)'
  <2>1. /\ thread[t].list \in Objects /\ thread'[t] = thread[t] /\ t \in disturbed'
        /\ heap'[thread[t].list] = heap[thread[t].list] /\ PassedBy(t)
    BY DEF IInv, PlaceOf, Grown, PInv
  <2>2. PassedBy(t)'
    BY <2>1 DEF PassedBy, IsFor, Entries
  <2> QED
    BY <2>1, <2>2 DEF Swept, Answered
<1>5. ASSUME NEW r \in Objects PROVE MayCut(r)' \subseteq MayCut(r)
  <2> SUFFICES ASSUME NEW t \in MayCut(r)' PROVE t \in MayCut(r)
    OBVIOUS
  <2>1. PICK k \in thread'[t].key..Len(keys') :
           slot'[keys'[k]] = r /\ (k = thread'[t].key => ~Spent(t)')
    BY DEF MayCut
  <2>2. t \in Threads /\ Serving(t)' /\ thread'[t] = thread[t]
    BY DEF MayCut, Grown
  <2>3. /\ thread[t].key \in 1..Len(keys) /\ thread[t].list \in Objects
        /\ heap'[thread[t].list] = heap[thread[t].list]
    BY <2>2 DEF IInv, PlaceOf, Grown
  <2>4. k \in 1..Len(keys') /\ keys'[k] \in DOMAIN slot'
    BY <1>1, <2>1, <2>2, <2>3 DEF Keyed, Owed
  <2>5. keys'[k] \in DOMAIN slot /\ slot[keys'[k]] = r
    <3>1. \A q \in DOMAIN slot' : slot'[q] > Len(heap) \/ (q \in DOMAIN slot /\ slot'[q] = slot[q])
      BY DEF Grown
    <3>2. ~(r > Len(heap))
      BY <1>1 DEF Objects
    <3> QED BY <2>1, <2>4, <3>1, <3>2
  <2>6. PICK l \in 1..Len(keys) : keys'[k] = keys[l]
    BY <1>1, <2>5 DEF Keyed
  <2>7. l \in 1..Len(keys') /\ keys'[l] = keys[l]
    BY <1>1 DEF Grown
  <2>8. k = l
    BY <2>4, <2>6, <2>7 DEF Keyed
  <2>9. k \in thread[t].key..Len(keys) /\ slot[keys[k]] = r
    BY <1>1, <2>1, <2>2, <2>3, <2>5, <2>6, <2>8
  <2>10. Spent(t) => Spent(t)'
    BY <2>2, <2>3 DEF Spent, FreeFrom, IsFor, Entries
  <2>11. Serving(t)
    BY <2>2 DEF Serving
  <2> QED
    BY <2>1, <2>2, <2>9, <2>10, <2>11 DEF MayCut
<1>6. Counted'
  <2>1. Requests' \subseteq Requests /\ removes' = removes
    BY DEF Grown, Requests, Serving
  <2>2. \A r \in Objects' : \/ heap'[r] = was'[r]
                            \/ /\ r \in Objects /\ MayCut(r)' \subseteq MayCut(r)
                               /\ heap'[r] = heap[r] /\ was'[r] = was[r]
    BY <1>1, <1>5 DEF Grown, Objects
  <2>3. \A r \in Objects' : Len(heap'[r]) \in Nat
    BY <1>2
  <2>4. Types /\ Counted
    BY <1>1 DEF PInv
  <2> QED
    BY <2>1, <2>2, <2>3, <2>4, FewerMayCut
<1> QED
  BY <1>3, <1>4, <1>6 DEF PInv

\* A step that leaves the lists alone and takes nobody's request further back.
LEMMA ListsKept ==
    ASSUME IInv, PInv, UNCHANGED <<keys, slot, heap, was>>
    PROVE  /\ \A r \in Objects' : PortOnce(r)'
           /\ \A o \in Threads : thread'[o] = thread[o] => (Spent(o)' <=> Spent(o)) /\ PassedBy(o)'
           /\ \A o \in Threads :
                 thread'[o] = thread[o] /\ (o \in disturbed => o \in disturbed') => Answered(o)'
<1>1. \A r \in Objects' : PortOnce(r)'
  BY DEF PInv, PortOnce, Entries, Objects
<1>2. ASSUME NEW o \in Threads, thread'[o] = thread[o]
      PROVE  (Spent(o)' <=> Spent(o)) /\ PassedBy(o)'
  BY <1>2 DEF PInv, Spent, FreeFrom, PassedBy, IsFor, Entries
<1>3. ASSUME NEW o \in Threads, thread'[o] = thread[o],
             o \in disturbed => o \in disturbed'
      PROVE  Answered(o)'
  BY <1>3 DEF PInv, Answered, IsFor, Entries
<1> QED
  BY <1>1, <1>2, <1>3

\* While t serves, Swept says nothing of another request that serves.
LEMMA OthersSwept ==
    ASSUME IInv, NEW t \in Threads, Serving(t), OthersWait(t), disturbed' = disturbed
    PROVE  \A o \in Threads \ {t} : Swept(o)'
  BY DEF IInv, Alone, OthersWait, Swept, Serving

\* What t may still delete from decides whether a step of t keeps the counts.
LEMMA ListsKeptCount ==
    ASSUME IInv, PInv, NEW t \in Threads, Serving(t), OthersWait(t),
           UNCHANGED <<keys, slot, heap, was, removes>>,
           \A r \in Objects : t \in MayCut(r)' => t \in MayCut(r)
    PROVE  Counted'
<1>1. Types /\ Counted /\ Objects' = Objects
  BY DEF IInv, PInv, Objects
<1>2. Requests' \subseteq Requests
  BY DEF Requests, OthersWait, Serving
<1>3. ASSUME NEW r \in Objects PROVE MayCut(r)' \subseteq MayCut(r)
  <2> SUFFICES ASSUME NEW o \in Threads \ {t}, o \in MayCut(r)' PROVE o \in MayCut(r)
    BY DEF MayCut
  <2>1. thread'[o] = thread[o] /\ (Spent(o)' <=> Spent(o))
    BY ListsKept DEF OthersWait
  <2> QED
    BY <2>1 DEF MayCut, Serving
<1>4. \A r \in Objects' : Len(heap'[r]) \in Nat
  BY <1>1, Lengths
<1> QED
  BY <1>1, <1>2, <1>3, <1>4, FewerMayCut

LEMMA CalledCounts ==
    ASSUME IInv, PInv, NEW t \in Threads, RemoveCalled(t)
    PROVE  PInv'
<1>1. Types /\ Keyed
  BY DEF IInv
<1>2. /\ OthersWait(t) /\ ~Serving(t)
      /\ thread'[t].pc = "next" /\ thread'[t].key = 1 /\ thread'[t].index = 1
      /\ thread'[t].ret = "none" /\ removes' = removes + 1 /\ thread'[t].list \in Objects
      /\ UNCHANGED <<keys, slot, heap, was>>
  BY <1>1, CalledShape
<1>3. disturbed' = IF \E other \in Threads : Serving(other) THEN Threads ELSE disturbed \ {t}
  BY DEF RemoveCalled
<1>4. \A r \in Objects' : PortOnce(r)'
  BY <1>2, ListsKept
<1>5. PassedBy(t)' /\ Swept(t)' /\ Answered(t)'
  <2>1. \A k \in 1..(thread'[t].key - 1) : k # k
    BY <1>2
  <2>2. \A i \in 1..Len(heap'[thread'[t].list]) : ~(i < 1)
    BY <1>1, <1>2, Lengths
  <2>3. PassedBy(t)' /\ Answered(t)'
    BY <1>2 DEF PassedBy, Answered
  <2>4. Swept(t)'
    BY <1>2, <2>1, <2>2 DEF Swept, Entries
  <2> QED
    BY <2>3, <2>4
<1>6. ASSUME NEW o \in Threads \ {t} PROVE PassedBy(o)' /\ Swept(o)' /\ Answered(o)'
  <2>1. thread'[o] = thread[o] /\ (o \in disturbed => o \in disturbed')
    BY <1>2, <1>3 DEF OthersWait
  <2>2. PassedBy(o)' /\ Answered(o)'
    BY <1>2, <2>1, ListsKept
  <2>3. Serving(o)' => o \in disturbed'
    BY <1>3, <2>1 DEF Serving
  <2> QED
    BY <2>2, <2>3 DEF Swept
<1>7. Counted'
  <2>1. /\ IsFiniteSet(Requests) /\ Cardinality(Requests) <= removes
        /\ Cardinality(Requests) \in Nat /\ removes \in Nat
    BY <1>1, FS_CardinalityType DEF PInv, Counted, Types
  <2>2. Requests' \subseteq Requests \cup {t}
    BY <1>2 DEF Requests, OthersWait, Serving
  <2>3. /\ IsFiniteSet(Requests \cup {t})
        /\ Cardinality(Requests \cup {t}) <= Cardinality(Requests) + 1
    BY <2>1, OneMoreAtMost
  <2>4. /\ IsFiniteSet(Requests') /\ Cardinality(Requests') <= removes + 1
    <3>1. /\ IsFiniteSet(Requests') /\ Cardinality(Requests') <= Cardinality(Requests \cup {t})
      BY <2>2, <2>3, FS_Subset
    <3>2. Cardinality(Requests') \in Nat /\ Cardinality(Requests \cup {t}) \in Nat
      BY <2>3, <3>1, FS_CardinalityType
    <3> QED
      BY <2>1, <2>3, <3>1, <3>2
  <2>5. ASSUME NEW r \in Objects
        PROVE  Len(was[r]) - Len(heap[r]) + Cardinality(MayCut(r)') <= removes + 1
    <3>1. MayCut(r)' \subseteq MayCut(r) \cup {t}
      <4> SUFFICES ASSUME NEW o \in Threads \ {t}, o \in MayCut(r)' PROVE o \in MayCut(r)
        BY DEF MayCut
      <4>1. thread'[o] = thread[o] /\ (Spent(o)' <=> Spent(o))
        BY <1>2, ListsKept DEF OthersWait
      <4> QED
        BY <1>2, <4>1 DEF MayCut, Serving
    <3>2. MayCut(r) \in SUBSET Requests
      BY DEF MayCut, Requests
    <3>3. IsFiniteSet(MayCut(r)) /\ Cardinality(MayCut(r)) \in Nat
      BY <2>1, <3>2, FS_Subset, FS_CardinalityType
    <3>4. /\ IsFiniteSet(MayCut(r) \cup {t})
          /\ Cardinality(MayCut(r) \cup {t}) <= Cardinality(MayCut(r)) + 1
          /\ Cardinality(MayCut(r) \cup {t}) \in Nat
      BY <3>3, OneMoreAtMost
    <3>5. /\ Cardinality(MayCut(r)') <= Cardinality(MayCut(r) \cup {t})
          /\ Cardinality(MayCut(r)') \in Nat
      BY <3>1, <3>4, FS_Subset, FS_CardinalityType
    <3>6. Len(was[r]) - Len(heap[r]) + Cardinality(MayCut(r)) <= removes
      BY DEF PInv, Counted
    <3> DEFINE m == Cardinality(MayCut(r))
               n == Cardinality(MayCut(r)')
               x == Len(was[r])
               y == Len(heap[r])
    <3>7. /\ m \in Nat /\ n \in Nat /\ n <= m + 1 /\ x \in Nat /\ y \in Nat
          /\ removes \in Nat /\ x - y + m <= removes
      <4>1. Cardinality(MayCut(r)') <= Cardinality(MayCut(r)) + 1
        BY <3>3, <3>4, <3>5
      <4>2. x \in Nat /\ y \in Nat
        BY <1>1, Lengths
      <4> QED
        BY <2>1, <3>3, <3>5, <3>6, <4>1, <4>2
    <3> HIDE DEF m, n, x, y
    <3>8. x - y + n <= removes + 1
      BY <3>7
    <3> QED
      BY <3>8 DEF n, x, y
  <2> QED
    BY <1>2, <2>4, <2>5 DEF Counted, Objects
<1> QED
  BY <1>4, <1>5, <1>6, <1>7 DEF PInv

LEMMA EntryCounts ==
    ASSUME IInv, PInv, NEW t \in Threads, NextEntry(t)
    PROVE  PInv'
<1>1. Types /\ Keyed /\ PlaceOf(t) /\ thread[t] \in Request /\ thread'[t].ret = "none"
  <2>1. Types /\ Keyed /\ PlaceOf(t) /\ thread[t].pc = "next"
    BY DEF IInv, NextEntry
  <2>2. SameRequest(t)
    BY <2>1, EntryShape
  <2> QED
    BY <2>1, <2>2 DEF Types, PlaceOf, Serving, SameRequest
<1>2. /\ SameRequest(t) /\ OthersWait(t) /\ thread[t].pc = "next" /\ Serving(t)
      /\ thread[t].index <= Len(heap[thread[t].list])
      /\ UNCHANGED <<instances, owed, joined, keys, slot, heap, was, disturbed, removes>>
      /\ \/ /\ IsFor(thread[t].list, thread[t].index, thread[t].port)
            /\ thread'[t].pc = "delete" /\ thread'[t].index = thread[t].index
         \/ /\ ~IsFor(thread[t].list, thread[t].index, thread[t].port)
            /\ thread'[t].pc = "next" /\ thread'[t].index = thread[t].index + 1
  BY <1>1, EntryShape DEF SameRequest, Serving, IsFor
<1> DEFINE list == thread[t].list
           index == thread[t].index
<1>3. list \in Objects /\ Len(heap[list]) \in Nat /\ index \in Nat /\ index \in Entries(list)
  BY <1>1, <1>2, Lengths DEF PlaceOf, Request, Entries
<1>4. (\A r \in Objects' : PortOnce(r)') /\ PortOnce(list)
  BY <1>2, <1>3, ListsKept DEF PInv
<1>5. PassedBy(t)'
  <2>1. ASSUME IsFor(list, index, thread[t].port)
        PROVE  \A j \in Entries(list) : j > index => ~IsFor(list, j, thread[t].port)
    BY <1>3, <1>4, <2>1 DEF PortOnce, IsFor, Entries
  <2> QED
    BY <1>2, <2>1 DEF PassedBy, SameRequest, IsFor, Entries
<1>6. Swept(t)'
  <2> SUFFICES ASSUME t \notin disturbed
               PROVE  /\ \A k \in 1..(thread[t].key - 1) : \A i \in Entries(slot[keys[k]]) :
                            ~IsFor(slot[keys[k]], i, thread[t].port)
                      /\ \A i \in Entries(list) :
                            i < thread'[t].index => ~IsFor(list, i, thread[t].port)
    <3>1. /\ thread'[t].port = thread[t].port /\ thread'[t].key = thread[t].key
          /\ thread'[t].list = thread[t].list /\ disturbed' = disturbed
          /\ keys' = keys /\ slot' = slot /\ heap' = heap
      BY <1>2 DEF SameRequest
    <3> QED
      BY <3>1 DEF Swept, IsFor, Entries
  <2>1. /\ \A k \in 1..(thread[t].key - 1) : \A i \in Entries(slot[keys[k]]) :
              ~IsFor(slot[keys[k]], i, thread[t].port)
        /\ \A i \in Entries(list) : i < index => ~IsFor(list, i, thread[t].port)
    BY <1>2 DEF PInv, Swept
  <2>2. \A i \in Entries(list) : i < index + 1 => i < index \/ i = index
    BY <1>3 DEF Entries
  <2> QED
    BY <1>2, <2>1, <2>2
<1>7. Answered(t)'
  BY <1>1 DEF Answered
<1>8. ASSUME NEW o \in Threads \ {t} PROVE PassedBy(o)' /\ Swept(o)' /\ Answered(o)'
  BY <1>2, ListsKept, OthersSwept DEF OthersWait
<1>9. Spent(t) => Spent(t)'
  <2> SUFFICES ASSUME Spent(t) PROVE Spent(t)'
    OBVIOUS
  <2>1. \A i \in Entries(list) : i >= index => ~IsFor(list, i, thread[t].port)
    BY DEF Spent, FreeFrom
  <2>2. ~IsFor(list, index, thread[t].port)
    BY <1>3, <2>1
  <2>3. \A i \in Entries(list) : i >= index + 1 => i >= index
    BY <1>3 DEF Entries
  <2>4. /\ thread'[t].pc = "next" /\ thread'[t].index = index + 1
        /\ thread'[t].list = list /\ thread'[t].port = thread[t].port
    BY <1>2, <2>2 DEF SameRequest
  <2>5. \A i \in Entries(list) : i >= index + 1 => ~IsFor(list, i, thread[t].port)
    BY <2>1, <2>3
  <2> QED
    BY <1>2, <2>4, <2>5 DEF Spent, FreeFrom, IsFor, Entries
<1>10. \A r \in Objects : t \in MayCut(r)' => t \in MayCut(r)
  BY <1>2, <1>9 DEF MayCut, SameRequest
<1>11. Counted'
  BY <1>2, <1>10, ListsKeptCount
<1> QED
  BY <1>4, <1>5, <1>6, <1>7, <1>8, <1>11 DEF PInv

LEMMA QuorumCounts ==
    ASSUME IInv, PInv, NEW t \in Threads, NextQuorum(t)
    PROVE  PInv'
<1>1. Types /\ Keyed /\ PlaceOf(t) /\ OnTarget(t) /\ Serving(t) /\ thread[t] \in Request
  BY DEF IInv, NextQuorum, Serving, Types
<1>2. /\ thread[t].index > Len(heap[thread[t].list])
      /\ UNCHANGED <<instances, owed, joined, keys, slot, heap, was, disturbed, removes>>
      /\ \/ Idle(t, "raised")
         \/ thread[t].key = Len(keys) /\ Idle(t, "ok") /\ thread'[t].port = thread[t].port
         \/ /\ OthersWait(t) /\ thread[t].key < Len(keys)
            /\ thread'[t].pc = "next" /\ thread'[t].port = thread[t].port
            /\ thread'[t].key = thread[t].key + 1 /\ thread'[t].index = 1
            /\ thread'[t].list = slot[keys[thread[t].key + 1]]
            /\ slot[keys[thread[t].key + 1]] \in Objects
            /\ thread'[t].ret = thread[t].ret
  BY <1>1, QuorumShape
<1> DEFINE list == thread[t].list
           key == thread[t].key
<1>3. /\ OthersWait(t) /\ Len(keys) \in Nat /\ key \in 1..Len(keys) /\ thread[t].ret = "none"
      /\ list \in Objects /\ Len(heap[list]) \in Nat /\ thread[t].index \in Nat
  BY <1>1, <1>2, Lengths DEF PlaceOf, Idle, Request
<1>4. \A r \in Objects' : PortOnce(r)'
  BY <1>2, ListsKept
<1>5. ASSUME t \notin disturbed
      PROVE  \A k \in 1..key : \A i \in Entries(slot[keys[k]]) :
                ~IsFor(slot[keys[k]], i, thread[t].port)
  <2>1. \A i \in Entries(list) : i < thread[t].index
    BY <1>2, <1>3 DEF Entries
  <2>2. list = slot[keys[key]]
    BY <1>1, <1>5 DEF OnTarget, Current
  <2>3. \A k \in 1..key : k \in 1..(key - 1) \/ k = key
    BY <1>3
  <2> QED
    BY <1>1, <1>5, <2>1, <2>2, <2>3 DEF PInv, Swept
<1>6. PassedBy(t)'
  BY <1>2 DEF PassedBy, Idle
<1>7. Swept(t)'
  <2>1. CASE thread'[t].pc = "idle"
    BY <2>1 DEF Swept, Serving
  <2>2. CASE /\ thread[t].key < Len(keys)
             /\ thread'[t].pc = "next" /\ thread'[t].port = thread[t].port
             /\ thread'[t].key = thread[t].key + 1 /\ thread'[t].index = 1
             /\ thread'[t].list = slot[keys[thread[t].key + 1]]
             /\ slot[keys[thread[t].key + 1]] \in Objects
    <3>1. 1..(thread'[t].key - 1) = 1..key
      BY <1>3, <2>2
    <3>2. \A i \in Entries(thread'[t].list) : ~(i < thread'[t].index)
      BY <1>1, <2>2, Lengths DEF Entries
    <3>3. t \notin disturbed =>
             \A k \in 1..(thread'[t].key - 1) : \A i \in Entries(slot[keys[k]]) :
                ~IsFor(slot[keys[k]], i, thread'[t].port)
      BY <1>5, <2>2, <3>1
    <3> QED
      BY <1>2, <3>2, <3>3 DEF Swept, IsFor, Entries
  <2> QED
    BY <1>2, <2>1, <2>2 DEF Idle
<1>8. Answered(t)'
  <2> SUFFICES ASSUME t \notin disturbed, thread'[t].ret = "ok"
               PROVE  \A q \in DOMAIN slot : \A i \in Entries(slot[q]) :
                         ~IsFor(slot[q], i, thread'[t].port)
    BY <1>2 DEF Answered, IsFor, Entries
  <2>1. key = Len(keys) /\ thread'[t].port = thread[t].port
    BY <1>2, <1>3 DEF Idle
  <2>2. \A q \in DOMAIN slot : \E k \in 1..Len(keys) : q = keys[k]
    BY <1>1 DEF Keyed
  <2> QED
    BY <1>5, <2>1, <2>2
<1>9. ASSUME NEW o \in Threads \ {t} PROVE PassedBy(o)' /\ Swept(o)' /\ Answered(o)'
  BY <1>1, <1>2, <1>3, ListsKept, OthersSwept DEF OthersWait
<1>10. ASSUME NEW r \in Objects, t \in MayCut(r)' PROVE t \in MayCut(r)
  <2>1. thread'[t].pc # "idle" /\ thread'[t].key = key + 1
    BY <1>2, <1>10 DEF MayCut, Serving, Idle
  <2>2. PICK k \in (key + 1)..Len(keys) : slot[keys[k]] = r
    BY <1>2, <1>10, <2>1 DEF MayCut
  <2>3. k \in key..Len(keys) /\ k # key
    BY <1>3
  <2> QED
    BY <1>1, <2>2, <2>3 DEF MayCut
<1>11. Counted'
  BY <1>1, <1>2, <1>3, <1>10, ListsKeptCount
<1> QED
  BY <1>4, <1>6, <1>7, <1>8, <1>9, <1>11 DEF PInv

LEMMA DeleteCounts ==
    ASSUME IInv, PInv, NEW t \in Threads, Delete(t)
    PROVE  PInv'
<1>1. /\ Types /\ Keyed /\ PlaceOf(t) /\ OnTarget(t) /\ Serving(t) /\ PassedBy(t) /\ Swept(t)
      /\ thread[t].pc = "delete" /\ thread[t] \in Request /\ thread[t].ret = "none"
  BY DEF IInv, PInv, Delete, Serving, Types, PlaceOf
<1> PICK c : c = Current(t)
  OBVIOUS
<1> DEFINE index == thread[t].index
           list == thread[t].list
           key == thread[t].key
           port == thread[t].port
<1>2. /\ c \in Objects /\ UNCHANGED <<instances, owed, joined, keys, slot, was, disturbed, removes>>
      /\ \/ /\ SameRequest(t) /\ Cut(c, index)
            /\ thread'[t].pc = "next" /\ thread'[t].index = index + 1
         \/ heap' = heap /\ Idle(t, "raised")
  BY <1>1, DeleteShape
<1>3. /\ OthersWait(t) /\ Objects' = Objects
      /\ list \in Objects /\ index \in Nat /\ key \in 1..Len(keys) /\ Len(keys) \in Nat
  BY <1>1, <1>2, Lengths DEF Idle, SameRequest, Cut, PlaceOf, Request, Objects
<1>4. \A o \in Threads \ {t} : thread'[o] = thread[o] /\ Swept(o)'
  BY <1>1, <1>2, <1>3, OthersSwept DEF OthersWait
<1>5. CASE heap' = heap /\ Idle(t, "raised")
  <2>1. UNCHANGED <<keys, slot, heap, was>>
    BY <1>2, <1>5
  <2>2. \A r \in Objects' : PortOnce(r)'
    BY <2>1, ListsKept
  <2>3. PassedBy(t)' /\ Swept(t)' /\ Answered(t)'
    BY <1>5 DEF Idle, PassedBy, Swept, Answered, Serving
  <2>4. ASSUME NEW o \in Threads \ {t} PROVE PassedBy(o)' /\ Answered(o)'
    BY <1>2, <1>4, <2>1, ListsKept
  <2>5. \A r \in Objects : t \notin MayCut(r)'
    BY <1>5 DEF Idle, MayCut, Serving
  <2>6. Counted'
    BY <1>1, <1>2, <1>3, <2>1, <2>5, ListsKeptCount
  <2> QED
    BY <1>4, <2>2, <2>3, <2>4, <2>6 DEF PInv
<1>6. CASE /\ SameRequest(t) /\ Cut(c, index)
           /\ thread'[t].pc = "next" /\ thread'[t].index = index + 1
  <2>1. /\ thread'[t].list = list /\ thread'[t].port = port /\ thread'[t].key = key
        /\ thread'[t].ret = "none"
    BY <1>1, <1>6 DEF SameRequest
  <2>2. \A r \in Objects : \A j \in 1..Len(heap'[r]) :
           \E k \in Entries(r) : /\ heap'[r][j] = heap[r][k]
                                 /\ r # c => k = j
                                 /\ r = c => k = IF j < index THEN j ELSE j + 1
    BY <1>1, <1>6, CutEntries
  <2>3. \A r \in Objects : Len(heap[r]) \in Nat /\ Len(heap'[r]) \in Nat
    <3>1. \A r \in Objects : heap'[r] \in Seq(Neighbours)
      BY <1>6, ElementOfSeq DEF Cut, Objects
    <3> QED
      BY <1>1, <3>1, Lengths, LenProperties
  <2>4. ASSUME NEW r \in Objects PROVE PortOnce(r)'
    <3> SUFFICES ASSUME NEW a \in 1..Len(heap'[r]), NEW b \in 1..Len(heap'[r]),
                        PortOf[heap'[r][a]] = PortOf[heap'[r][b]]
                 PROVE  a = b
      BY DEF PortOnce, Entries
    <3>1. PICK k \in Entries(r) : /\ heap'[r][a] = heap[r][k]
                                  /\ r # c => k = a
                                  /\ r = c => k = IF a < index THEN a ELSE a + 1
      BY <2>2
    <3>2. PICK l \in Entries(r) : /\ heap'[r][b] = heap[r][l]
                                  /\ r # c => l = b
                                  /\ r = c => l = IF b < index THEN b ELSE b + 1
      BY <2>2
    <3>3. k = l
      BY <3>1, <3>2 DEF PInv, PortOnce
    <3> QED
      BY <1>3, <2>3, <3>1, <3>2, <3>3
  \* Behind a position there is nothing that was not behind it before.
  <2>5. \A r \in Objects, m \in Nat : \A p : FreeFrom(r, m, p) => FreeFrom(r, m, p)'
    <3> SUFFICES ASSUME NEW r \in Objects, NEW m \in Nat, NEW p, FreeFrom(r, m, p),
                        NEW j \in 1..Len(heap'[r]), j >= m
                 PROVE  PortOf[heap'[r][j]] # p
      BY DEF FreeFrom, IsFor, Entries
    <3>1. PICK k \in Entries(r) : /\ heap'[r][j] = heap[r][k]
                                  /\ r # c => k = j
                                  /\ r = c => k = IF j < index THEN j ELSE j + 1
      BY <2>2
    <3>2. k >= m
      BY <1>3, <2>3, <3>1
    <3> QED
      BY <3>1, <3>2 DEF FreeFrom, IsFor
  <2>6. \A r \in Objects : \A p :
           (\A i \in Entries(r) : ~IsFor(r, i, p))
           => \A j \in 1..Len(heap'[r]) : PortOf[heap'[r][j]] # p
    BY <2>2 DEF IsFor
  <2>7. ASSUME NEW o \in Threads, thread'[o] = thread[o] PROVE PassedBy(o)' /\ (Spent(o) => Spent(o)')
    <3>1. thread[o].list \in Objects /\ thread[o].index \in Nat /\ PassedBy(o)
      BY <1>1 DEF IInv, PlaceOf, PInv, Types, Request
    <3>2. PassedBy(o)'
      <4> SUFFICES ASSUME thread[o].pc = "delete"
                   PROVE  FreeFrom(thread[o].list, thread[o].index + 1, thread[o].port)'
        BY <2>3, <2>7, <3>1 DEF PassedBy, FreeFrom, Entries
      <4>1. FreeFrom(thread[o].list, thread[o].index + 1, thread[o].port)
        BY <2>3, <3>1 DEF PassedBy, FreeFrom, Entries
      <4> QED
        BY <2>5, <2>7, <3>1, <4>1
    <3>3. Spent(o) => Spent(o)'
      BY <2>5, <2>7, <3>1 DEF Spent
    <3> QED
      BY <3>2, <3>3
  <2>8. PassedBy(t)' /\ Answered(t)'
    BY <1>6, <2>1 DEF PassedBy, Answered
  <2>9. \A i \in Entries(list) : i > index => ~IsFor(list, i, port)
    BY <1>1 DEF PassedBy
  <2>10. Spent(t)'
    <3> PICK r, m, p : r = list /\ m = index + 1 /\ p = port
      OBVIOUS
    <3>1. FreeFrom(r, m, p)
      BY <1>3, <2>3, <2>9 DEF FreeFrom, Entries
    <3>2. r \in Objects /\ m \in Nat
      BY <1>3
    <3>3. FreeFrom(r, m, p)'
      BY <2>5, <3>1, <3>2
    <3> QED
      BY <1>6, <2>1, <3>3 DEF Spent
  <2>11. Swept(t)'
    <3> SUFFICES ASSUME t \notin disturbed
                 PROVE  /\ \A k \in 1..(key - 1) : \A i \in 1..Len(heap'[slot[keys[k]]]) :
                              PortOf[heap'[slot[keys[k]]][i]] # port
                        /\ \A i \in 1..Len(heap'[list]) : i < index + 1 => PortOf[heap'[list][i]] # port
      BY <1>2, <1>6, <2>1 DEF Swept, IsFor, Entries
    <3>1. /\ list = c /\ \A k \in 1..(key - 1) : \A i \in Entries(slot[keys[k]]) :
                            ~IsFor(slot[keys[k]], i, port)
          /\ \A i \in Entries(list) : i < index => ~IsFor(list, i, port)
      BY <1>1 DEF Swept, OnTarget
    <3>2. \A k \in 1..(key - 1) : slot[keys[k]] \in Objects
      <4>1. \A k \in 1..(key - 1) : keys[k] \in DOMAIN slot
        BY <1>1, <1>3 DEF Keyed
      <4> QED
        BY <1>1, <4>1 DEF Types
    <3>3. ASSUME NEW i \in 1..Len(heap'[list]), i < index + 1 PROVE PortOf[heap'[list][i]] # port
      <4>1. PICK k \in Entries(list) :
               heap'[list][i] = heap[list][k] /\ k = IF i < index THEN i ELSE i + 1
        BY <1>3, <2>2, <3>1
      <4>2. k < index \/ k > index
        BY <1>3, <2>3, <3>3, <4>1
      <4> QED
        BY <2>9, <3>1, <4>1, <4>2 DEF IsFor
    <3> QED
      BY <2>6, <3>1, <3>2, <3>3
  <2>12. ASSUME NEW o \in Threads \ {t} PROVE PassedBy(o)' /\ Answered(o)'
    <3>1. thread'[o] = thread[o] /\ PassedBy(o)'
      BY <1>4, <2>7
    <3>2. Answered(o)'
      <4> SUFFICES ASSUME o \notin disturbed, thread[o].ret = "ok",
                          NEW q \in DOMAIN slot
                   PROVE  \A i \in 1..Len(heap'[slot[q]]) : PortOf[heap'[slot[q]][i]] # thread[o].port
        BY <1>2, <3>1 DEF Answered, IsFor, Entries
      <4>1. slot[q] \in Objects
        BY <1>1 DEF Types
      <4>2. \A i \in Entries(slot[q]) : ~IsFor(slot[q], i, thread[o].port)
        BY DEF PInv, Answered
      <4> QED
        BY <2>6, <4>1, <4>2
    <3> QED
      BY <3>1, <3>2
  <2>13. Counted'
    <3>1. /\ IsFiniteSet(Requests) /\ Cardinality(Requests) <= removes /\ removes \in Nat
          /\ \A r \in Objects : Len(was[r]) - Len(heap[r]) + Cardinality(MayCut(r)) <= removes
          /\ \A r \in Objects : Len(was[r]) \in Nat
      BY <1>1, Lengths DEF PInv, Counted, Types
    <3>2. Requests' \subseteq Requests
      BY <1>1, <1>3 DEF Requests, OthersWait, Serving
    <3>3. IsFiniteSet(Requests') /\ Cardinality(Requests') <= removes
      <4>1. IsFiniteSet(Requests') /\ Cardinality(Requests') <= Cardinality(Requests)
        BY <3>1, <3>2, FS_Subset
      <4>2. Cardinality(Requests') \in Nat /\ Cardinality(Requests) \in Nat
        BY <3>1, <4>1, FS_CardinalityType
      <4> QED
        BY <3>1, <4>1, <4>2
    <3>4. ASSUME NEW r \in Objects PROVE MayCut(r)' \subseteq MayCut(r)
      <4>1. ASSUME NEW o \in Threads \ {t}, o \in MayCut(r)' PROVE o \in MayCut(r)
        BY <1>2, <1>4, <2>7, <4>1 DEF MayCut, Serving
      <4>2. t \in MayCut(r)' => t \in MayCut(r)
        BY <1>1, <1>2, <2>1 DEF MayCut, Spent
      <4> QED
        BY <4>1, <4>2 DEF MayCut
    <3>5. t \in MayCut(c)
      BY <1>1, <1>3 DEF MayCut, Spent, Current
    <3>6. t \notin MayCut(c)'
      <4> SUFFICES ASSUME NEW k \in key..Len(keys), slot[keys[k]] = c, k # key PROVE FALSE
        BY <1>2, <2>1, <2>10 DEF MayCut
      <4>0. /\ \A i \in 1..Len(keys) : keys[i] \in DOMAIN slot
            /\ \A i, j \in 1..Len(keys) : keys[i] = keys[j] => i = j
            /\ \A p, q \in DOMAIN slot : slot[p] = slot[q] => p = q
        BY <1>1 DEF Keyed
      <4>1. k \in 1..Len(keys) /\ key \in 1..Len(keys)
        BY <1>1, <1>3
      <4>2. keys[k] = keys[key]
        BY <1>1, <4>0, <4>1 DEF Current
      <4> QED
        BY <4>0, <4>1, <4>2
    <3>7. \A r \in Objects : IsFiniteSet(MayCut(r))
      <4>1. \A r \in Objects : MayCut(r) \in SUBSET Requests
        BY DEF MayCut, Requests
      <4> QED
        BY <3>1, <4>1, FS_Subset
    <3>8. ASSUME NEW r \in Objects
          PROVE  Len(was[r]) - Len(heap'[r]) + Cardinality(MayCut(r)') <= removes
      <4> DEFINE m == Cardinality(MayCut(r))
                 n == Cardinality(MayCut(r)')
                 x == Len(was[r])
                 y == Len(heap[r])
                 z == Len(heap'[r])
      <4>1. n \in Nat /\ m \in Nat /\ n <= m
        BY <3>4, <3>7, FS_Subset, FS_CardinalityType
      <4>2. x \in Nat /\ y \in Nat /\ z \in Nat /\ removes \in Nat /\ x - y + m <= removes
        BY <2>3, <3>1
      <4>3. CASE r # c
        <5>1. y = z
          BY <1>6, <4>3 DEF Cut
        <5> HIDE DEF m, n, x, y, z
        <5>2. x - z + n <= removes
          BY <4>1, <4>2, <5>1
        <5> QED
          BY <5>2 DEF n, x, z
      <4>4. CASE r = c
        <5>1. z = y - 1
          BY <1>6, <4>4 DEF Cut
        <5>2. MayCut(r)' \in SUBSET (MayCut(r) \ {t})
          BY <3>4, <3>6, <4>4
        <5>3. IsFiniteSet(MayCut(r) \ {t}) /\ Cardinality(MayCut(r) \ {t}) = m - 1
          BY <3>5, <3>7, <4>4, FS_RemoveElement
        <5>4. n <= m - 1
          BY <5>2, <5>3, FS_Subset
        <5> HIDE DEF m, n, x, y, z
        <5>5. x - z + n <= removes
          BY <4>1, <4>2, <5>1, <5>4
        <5> QED
          BY <5>5 DEF n, x, z
      <4> QED
        BY <4>3, <4>4
    <3> QED
      BY <1>2, <1>3, <3>3, <3>8 DEF Counted
  <2> QED
    BY <1>3, <1>4, <2>4, <2>8, <2>11, <2>12, <2>13 DEF PInv
<1> QED
  BY <1>2, <1>5, <1>6

\* PInv holds in every reachable state: no two deletions of one list object are
\* ever owed to the same request.
THEOREM EachListOnce == ASSUME OnePortEach PROVE Spec => [](IInv /\ PInv)
<1>1. ASSUME IInv, PInv, [Next]_vars PROVE PInv'
  <2>1. CASE Start \/ \E q \in Quorums : StartEnds(q) \/ Add(q) \/ Join(q)
    <3>1. PICK q \in Quorums : Start \/ StartEnds(q) \/ Add(q) \/ Join(q)
      BY <2>1, TableAssumption
    <3>2. Grown /\ Keyed'
      BY <1>1, <3>1, WritesGrow DEF IInv
    <3> QED
      BY <1>1, <3>2, GrownCounts
  <2>2. CASE \E t \in Threads : RemoveCalled(t) \/ NextEntry(t) \/ Delete(t) \/ NextQuorum(t)
    BY <1>1, <2>2, CalledCounts, EntryCounts, DeleteCounts, QuorumCounts
  <2>3. CASE UNCHANGED vars
    <3>1. UNCHANGED <<keys, slot, heap, was, thread, disturbed, removes>>
      BY <2>3 DEF vars
    <3> QED
      <4>1. \A r \in Objects' : PortOnce(r)'
        BY <1>1, <3>1, ListsKept
      <4>2. \A t \in Threads : PassedBy(t)' /\ Answered(t)' /\ (Spent(t)' <=> Spent(t))
        BY <1>1, <3>1, ListsKept
      <4>3. \A t \in Threads : Swept(t)'
        BY <1>1, <3>1 DEF PInv, Swept, IsFor, Serving, Entries
      <4>4. Requests' = Requests /\ Objects' = Objects
        BY <3>1 DEF Requests, Serving, Objects
      <4>5. \A r \in Objects : MayCut(r)' = MayCut(r)
        BY <3>1, <4>2 DEF MayCut, Serving
      <4>6. Counted'
        BY <1>1, <3>1, <4>4, <4>5 DEF PInv, Counted
      <4> QED
        BY <4>1, <4>2, <4>3, <4>6 DEF PInv
  <2> QED
    BY <1>1, <2>1, <2>2, <2>3 DEF Next
<1>2. Init => PInv
  BY InitIsCounted
<1> QED
  BY <1>1, <1>2, Inductive, PTL DEF Spec

\* NeighbourTable.AnsweredMeansRemoved, for lists without a port twice: the entry
\* the iterator skips after a deletion is never one the request was to delete.
THEOREM AnswersAreTrue == ASSUME OnePortEach PROVE Spec => []AnsweredMeansRemoved
<1>1. ASSUME IInv, PInv PROVE AnsweredMeansRemoved
  <2>1. \A q \in DOMAIN slot : DOMAIN heap[slot[q]] = Entries(slot[q])
    <3>1. \A q \in DOMAIN slot : slot[q] \in Objects
      BY <1>1 DEF IInv, Types
    <3> QED
      BY <1>1, <3>1, Lengths, LenProperties DEF IInv, Entries
  <2> QED
    BY <1>1, <2>1 DEF AnsweredMeansRemoved, Remaining, Table, PInv, Answered, IsFor
<1> QED
  BY <1>1, EachListOnce, PTL

\* NeighbourTable.LossIsBounded, for lists without a port twice: races may delete
\* the wrong entry, but never more entries of a list than there were requests, and
\* never change their order.
THEOREM LossesAreBounded == ASSUME OnePortEach PROVE Spec => []LossIsBounded
<1>1. ASSUME IInv, PInv PROVE LossIsBounded
  <2>1. Types /\ DOMAIN heap = Objects
    BY <1>1, LenProperties DEF IInv, Types, Objects
  <2> SUFFICES ASSUME NEW r \in Objects
               PROVE  /\ Len(was[r]) - Len(heap[r]) <= removes
                      /\ \E at \in [DOMAIN heap[r] -> DOMAIN was[r]] : \A k \in DOMAIN heap[r] :
                            /\ heap[r][k] = was[r][at[k]]
                            /\ \A l \in DOMAIN heap[r] : l < k => at[l] < at[k]
    BY <2>1 DEF LossIsBounded
  <2>2. Len(was[r]) - Len(heap[r]) <= removes
    <3>1. MayCut(r) \in SUBSET Requests /\ IsFiniteSet(Requests)
      BY <1>1 DEF MayCut, Requests, PInv, Counted
    <3> DEFINE m == Cardinality(MayCut(r))
               x == Len(was[r])
               y == Len(heap[r])
    <3>2. m \in Nat
      BY <3>1, FS_Subset, FS_CardinalityType
    <3>3. x \in Nat /\ y \in Nat
      BY <2>1, Lengths
    <3>4. removes \in Nat /\ x - y + m <= removes
      BY <1>1, <2>1 DEF PInv, Counted, Types
    <3> HIDE DEF m, x, y
    <3>5. x - y <= removes
      BY <3>2, <3>3, <3>4
    <3> QED
      BY <3>5 DEF x, y
  <2>3. DOMAIN heap[r] = 1..Len(heap[r]) /\ DOMAIN was[r] = 1..Len(was[r])
    BY <2>1, Lengths, LenProperties
  <2>4. Embeds(heap[r], was[r])
    BY <1>1 DEF IInv, Embedded
  <2> QED
    BY <2>2, <2>3, <2>4 DEF Embeds
<1> QED
  BY <1>1, EachListOnce, PTL
=============================================================================
