-------------------------- MODULE ContainerLifecycle --------------------------
(***************************************************************************)
(* The containers one process owns, from their creation to the genesis     *)
(* block (src/SawtoothPBFT.py: __init__, make_genesis, join_sawtooth,      *)
(* start_sawtooth, set_admin_key, __del__).  The key that signs a          *)
(* committee's re-configurations is one class attribute for the whole      *)
(* process, set by the first genesis and echoed into a file of every       *)
(* container that makes a genesis or starts.  Validators are external:     *)
(* they keep the genesis block found at their start, or take it from a     *)
(* validator they are linked to.                                           *)
(***************************************************************************)
EXTENDS Naturals, FiniteSets

CONSTANTS
    Containers,     \* the containers, each with its keys and its address
    None            \* no key, no block

ASSUME NoneAssumption == None \notin Containers

VARIABLES
    up,         \* the containers that run
    adminKey,   \* SawtoothContainer.__admin_key: the container whose key it is
    keyFile,    \* what each container's /admin.priv holds
    genesis,    \* the genesis made in each container: its members and its admins
    linked,     \* the containers each validator was given as peers
    services,   \* the containers whose validator, engine and API run
    block       \* the genesis block each validator has, by its maker

lifecycle == <<up, adminKey, keyFile, genesis, linked, services, block>>

NoGenesis == [members |-> {}, admins |-> {}]

\* The process begins with these containers, just created.
LStart(created) ==
    /\ up = created /\ services = {} /\ adminKey = None
    /\ keyFile = [c \in Containers |-> None]
    /\ genesis = [c \in Containers |-> NoGenesis]
    /\ linked = [c \in Containers |-> {}]
    /\ block = [c \in Containers |-> None]

LInit == LStart({})

Create(c) ==
    /\ c \notin up
    /\ up' = up \cup {c}
    /\ UNCHANGED <<adminKey, keyFile, genesis, linked, services, block>>

\* set_admin_key: the first key ever given to the process stays.
AdminKeyAfterMutLast(key) == key
AdminKeyAfter(key) == IF adminKey = None THEN key ELSE adminKey

\* The genesis is signed with the key file, and sawset (external) adds the signer
\* to the user keys that may change the settings.
MakeGenesis(c, validatorKeys, userKeys) ==
    LET key == AdminKeyAfter(c) IN
    /\ c \in up
    /\ adminKey' = key
    /\ keyFile' = [keyFile EXCEPT ![c] = key]
    /\ genesis' = [genesis EXCEPT ![c] = [members |-> validatorKeys,
                                          admins |-> userKeys \cup {key}]]
    /\ UNCHANGED <<up, linked, services, block>>

\* neighbours_ips without the container's own address
PeersGivenMutNobody(c, ips) == {}
PeersGiven(c, ips) == ips \ {c}

\* start_sawtooth, when join_sawtooth's assertion of four addresses has passed; a
\* validator that finds a genesis at its start makes the block.
JoinSawtooth(c, ips) ==
    /\ c \in up /\ Cardinality(ips) >= 4
    /\ linked' = [linked EXCEPT ![c] = PeersGiven(c, ips)]
    /\ keyFile' = [keyFile EXCEPT ![c] = AdminKeyAfter(None)]
    /\ adminKey' = AdminKeyAfter(None)
    /\ services' = services \cup {c}
    /\ block' = [block EXCEPT ![c] = IF genesis[c] # NoGenesis /\ @ = None THEN c ELSE @]
    /\ UNCHANGED <<up, genesis>>

Linked(c, d) == d \in linked[c] \/ c \in linked[d]

\* A validator takes the chain of one it is linked to and that runs.
Sync(c) ==
    /\ c \in services /\ block[c] = None
    /\ \E d \in services :
         /\ Linked(c, d) /\ block[d] # None
         /\ block' = [block EXCEPT ![c] = block[d]]
    /\ UNCHANGED <<up, adminKey, keyFile, genesis, linked, services>>

\* __del__ stops the container, and with it its services.
Stop(cs) ==
    /\ up' = up \ cs
    /\ services' = services \ cs
    /\ UNCHANGED <<adminKey, keyFile, genesis, linked, block>>
-----------------------------------------------------------------------------
(* Properties *)

\* update_committee signs with the container's key file, and set_admin_key fills
\* it with the first key of the process: that key is one the genesis of the
\* container's own committee admitted, also in the committees made later.
AdminCanReconfigure ==
    \A c \in services : block[c] # None => keyFile[c] \in genesis[block[c]].admins

=============================================================================
