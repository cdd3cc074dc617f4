---------------------------- MODULE AbuseControl ----------------------------
(***************************************************************************)
(* The abuse control of one actor: how the trust signal is computed, and   *)
(* what toggles do with it.  Engagement begins with a signal that is there *)
(* and throttles or does not, and nothing it changes enters the score; so  *)
(* a behaviour may as well show one of the two at a time.                  *)
(***************************************************************************)
EXTENDS Engagement, TrustScore

CONSTANT Parts  \* subset of {"toggles", "trust"}

VARIABLE part

abuseVars == <<vars, trustVars, part>>

AbuseInit ==
    /\ Init /\ TrustInit
    /\ part \in Parts
    /\ part = "toggles" => history = CHOOSE h \in Unknown : TRUE
    /\ part = "trust" => throttle = "off"

Toggles == part = "toggles" /\ Next /\ UNCHANGED <<trustVars, part>>

Trust == part = "trust" /\ TrustNext /\ UNCHANGED <<vars, part>>

AbuseSpec == AbuseInit /\ [][Toggles \/ Trust]_abuseVars
=============================================================================
