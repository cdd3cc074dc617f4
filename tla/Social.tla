------------------------------- MODULE Social -------------------------------
(***************************************************************************)
(* The social graph, what it lets people see, and the conversations that   *)
(* look at its blocks, in one system.  The requests of both parts draw on  *)
(* the same bound.                                                         *)
(***************************************************************************)
EXTENDS Visibility, DirectChat

SocialInit == Init /\ ChatInit

(* Five minutes: dedupe_seconds and PM_KEY_ROTATION_COOLDOWN_SECONDS.      *)
FiveMinutes ==
    /\ NoticesAge
    /\ Cooled
    /\ UNCHANGED <<active, private, follow, blocks, req, bounds, strays>>
    /\ UNCHANGED <<chat, keyed, legacy, raced>>

(* A process serves one request at a time.                                 *)
OneAtATime == \A s \in Slots : req[s] = Idle \/ chat[s] = Idle

SocialNext ==
    /\ \/ GraphNext /\ UNCHANGED chatVars
       \/ ChatNext /\ UNCHANGED <<tables, req, strays>>
       \/ FiveMinutes
    /\ OneAtATime'

SocialSpec == SocialInit /\ [][SocialNext]_<<vars, chatVars>>

(* The values the state ranges over.                                       *)
TypeOK == GraphTypeOK /\ ChatTypeOK
=============================================================================
