---------------------------- MODULE TokenLeases ----------------------------
(***************************************************************************)
(* What a store of node tokens (trait NodeTokenStore of                    *)
(* apps/hub-api/src/token_store.rs) promises about one node.  Issuing      *)
(* grants a pair that was never granted before; the access token may be    *)
(* granted first and the refresh token later.  A token that has died stays *)
(* dead.  At most one token of each kind is live, plus one for each time   *)
(* the node's requests were disturbed: when two of them overlapped, or one *)
(* was dropped half way.                                                   *)
(***************************************************************************)
EXTENDS Naturals, FiniteSets

VARIABLES
    issued,   \* number of pairs issued so far; pair i is the i-th
    access,   \* pairs whose access token is live
    refresh,  \* pairs whose refresh token is live
    owed,     \* pairs whose refresh token is still to be granted
    slack     \* how often requests were disturbed

leaseVars == <<issued, access, refresh, owed, slack>>

Init == issued = 0 /\ access = {} /\ refresh = {} /\ owed = {} /\ slack = 0

Few(tokens) == Cardinality(tokens) <= 1 + slack

\* A new pair; whatever else is live may die on the way.
Issue ==
    /\ issued' = issued + 1
    /\ access' \subseteq access \cup {issued'} /\ Few(access')
    /\ refresh' \subseteq refresh \cup {issued'} /\ Few(refresh')
    /\ owed' \subseteq owed \cup {issued'}
    /\ UNCHANGED slack

GrantRefresh ==
    /\ \E i \in owed : refresh' = refresh \cup {i} /\ owed' = owed \ {i}
    /\ Few(refresh')
    /\ UNCHANGED <<issued, access, slack>>

\* Tokens are revoked, replaced or expire.
Retire ==
    /\ access' \subseteq access /\ refresh' \subseteq refresh /\ owed' \subseteq owed
    /\ UNCHANGED <<issued, slack>>

Disturb ==
    /\ slack' = slack + 1
    /\ owed' \subseteq owed
    /\ UNCHANGED <<issued, access, refresh>>

Next == Issue \/ GrantRefresh \/ Retire \/ Disturb

Spec == Init /\ [][Next]_leaseVars

=============================================================================
