--------------------------- MODULE CommitteeRoster ---------------------------
(***************************************************************************)
(* What one committee promises about its membership, whoever calls         *)
(* leave_network or update_committee and however the ledger orders the     *)
(* proposals: the roster in force is replaced as a whole by a list that    *)
(* was proposed, and a proposed list is either one the operator gave or a  *)
(* roster that was in force at SOME earlier time, less the one container   *)
(* that asked to leave, and never fewer than four keys.                    *)
(* SawtoothCommittee implements this specification.                        *)
(***************************************************************************)
EXTENDS Naturals, FiniteSets

CONSTANTS
    Containers,     \* the containers, each named by its validator key
    Callers,        \* the containers whose owner calls this interface
    Genesis,        \* the members of the genesis block
    Rosters         \* the key lists an operator may pass to update_committee

VARIABLES
    roster,         \* the members in force
    past,           \* every roster that has ever been in force
    floating        \* the lists proposed and not adopted yet

vars == <<roster, past, floating>>

Init ==
    /\ roster = Genesis
    /\ past = {Genesis}
    /\ floating = {}

Float(list) == floating' = floating \cup {list}

\* A list is proposed: an operator's, or any earlier roster less one caller.
Propose ==
    /\ \/ \E list \in Rosters : Float(list)
       \/ \E old \in past, n \in Callers :
            Cardinality(old \ {n}) >= 4 /\ Float(old \ {n})
    /\ UNCHANGED <<roster, past>>

\* Any floating list may be adopted, also one that is floated twice.
Adopt ==
    /\ roster' \in floating
    /\ past' = past \cup {roster'}
    /\ floating' \in {floating, floating \ {roster'}}

Next == Propose \/ Adopt

Spec == Init /\ [][Next]_vars
=============================================================================
