----------------------------- MODULE Federation -----------------------------
(***************************************************************************)
(* Both directions of federation.  They meet in the allowlist only, which  *)
(* a delivery asks once, before its row is created; so a behaviour may as  *)
(* well show one direction at a time.                                      *)
(***************************************************************************)
EXTENDS FederationDelivery, FederationInbox

CONSTANT Directions  \* subset of {"out", "in"}

VARIABLE direction

federationVars == <<vars, inboxVars, direction>>

FederationInit == Init /\ InboxInit /\ direction \in Directions

(* enqueue_post_for_federation selects the instances that are allowed.     *)
Outbound ==
    /\ direction = "out"
    /\ Next
    /\ delivery = "absent" => allowed
    /\ UNCHANGED <<inboxVars, direction>>

Inbound ==
    /\ direction = "in"
    /\ InboxNext
    /\ UNCHANGED <<vars, direction>>

FederationSpec == FederationInit /\ [][Outbound \/ Inbound]_federationVars /\ Fairness
=============================================================================
