----------------------------- MODULE Moderation -----------------------------
(***************************************************************************)
(* What people publish and what staff does about it, served by the same    *)
(* processes.  The requests of both parts draw on the same bounds.         *)
(***************************************************************************)
EXTENDS ReportWorkflow

ModerationInit == Init /\ ReportInit

(* A process serves one request at a time.                                 *)
OneAtATime == \A s \in Slots : edit[s] = Idle \/ review[s] = Idle

ModerationNext ==
    /\ \/ Next /\ UNCHANGED reportVars
       \/ ReportNext /\ UNCHANGED <<row, history, edit, first, lost>>
    /\ OneAtATime'

ModerationSpec == ModerationInit /\ [][ModerationNext]_<<vars, reportVars>>

(* The values the state ranges over.                                       *)
TypeOK == PublishingTypeOK /\ ReportTypeOK
=============================================================================
