-------------------------- MODULE AccountLifecycle --------------------------
(***************************************************************************)
(* One account from the moment its owner leaves: deactivation, the request *)
(* for deletion, the links that take either back, the links that support   *)
(* sends again, and the scheduled purge (apps/accounts: models.py,         *)
(* services.py, views.py, admin.py, tasks.py).                             *)
(*                                                                         *)
(* Requests and the purge run in autocommit: one action per statement, and *)
(* the purge deletes by the ids it collected.  Time is coarse; a request   *)
(* or a purge lasts over at most one tick of the clock.                    *)
(*                                                                         *)
(* Abstracted: the session (only active users have one), the texts of the  *)
(* mails, dry runs of the purge (they change nothing), and staff who edit  *)
(* the dates in the admin form.                                            *)
(***************************************************************************)
EXTENDS Naturals, FiniteSets

CONSTANTS
    Leaves,     \* requests of the owner to leave
    Supports,   \* requests of support to send a link again
    Clicks,     \* visits of a link
    Kind,       \* Kind[r] of a leave or support request: an element of Kinds
    Retention,  \* ACCOUNT_DEACTIVATION_/ACCOUNT_DELETION_RETENTION_DAYS
    MaxTime,    \* bound on the clock
    MaxFaults,  \* bound on processes that die and mails that are lost
    Never       \* a null date

(* Leaving by deactivation is taken back by a token with action REACTIVATE, *)
(* leaving by deletion by one with action CANCEL_DELETION.                  *)
Kinds == {"deactivate", "delete"}

Senders == Leaves \union Supports
Requests == Senders \union Clicks

ASSUME RequestAssumption ==
    /\ Leaves \intersect Supports = {}
    /\ Senders \intersect Clicks = {}
    /\ Never \notin Requests
    /\ Kind \in [Senders -> Kinds]

ASSUME TimeAssumption ==
    /\ Retention \in [Kinds -> Nat]
    /\ MaxTime \in Nat
    /\ MaxFaults \in Nat
    /\ Never \notin Nat

VARIABLES
    now,         \* the clock
    account,     \* the User row
    expires,     \* expires_at of the token a sender created, or Never
    used,        \* tokens with used_at
    mailed,      \* tokens whose link is in the owner's mailbox
    stage,       \* where each request is
    link,        \* the token a click is about, while it is handled
    purge,       \* where the purge is
    picked,      \* whether the purge has collected the account's id
    purgeTime,   \* timezone.now() of the purge while it queries
    late,        \* processes in flight when the clock last ticked
    faults,
    recovered    \* history: the account was recovered, and not too late

requestVars == <<expires, used, mailed, stage, link>>
purgeVars == <<purge, picked, purgeTime>>
vars == <<now, account, requestVars, purgeVars, late, faults, recovered>>

Ended == {"done", "failed"}
Stages == Ended \union {"new", "save", "token", "consume", "recover"}
Dates == Nat \union {Never}

(* deactivated stands for deactivated_at and recoverBy for                 *)
(* deactivation_recovery_deadline_at; deletion_requested_at and            *)
(* deletion_scheduled_for_at are always set and cleared together: deleteAt. *)
Account == [exists : BOOLEAN, active : BOOLEAN, deactivated : BOOLEAN,
            recoverBy : Dates, deleteAt : Dates]

(* The values the state ranges over; a click holds a token exactly while   *)
(* it is being handled.                                                    *)
TypeOK ==
    /\ now \in 0..MaxTime
    /\ account \in Account
    /\ expires \in [Senders -> Dates]
    /\ used \subseteq Senders
    /\ mailed \subseteq Senders
    /\ stage \in [Requests -> Stages]
    /\ link \in [Clicks -> Senders \union {Never}]
    /\ \A c \in Clicks : stage[c] \in {"consume", "recover"} <=> link[c] # Never
    /\ purge \in {"idle", "scan", "remove"}
    /\ picked \in BOOLEAN
    /\ purgeTime \in 0..MaxTime
    /\ late \subseteq Requests \union {"purge"}
    /\ faults \in 0..MaxFaults
    /\ recovered \in BOOLEAN

Init ==
    /\ now = 0
    /\ account = [exists |-> TRUE, active |-> TRUE, deactivated |-> FALSE,
                  recoverBy |-> Never, deleteAt |-> Never]
    /\ expires = [t \in Senders |-> Never]
    /\ used = {}
    /\ mailed = {}
    /\ stage = [r \in Requests |-> "new"]
    /\ link = [c \in Clicks |-> Never]
    /\ purge = "idle"
    /\ picked = FALSE
    /\ purgeTime = 0
    /\ late = {}
    /\ faults = 0
    /\ recovered = FALSE

-----------------------------------------------------------------------------

InFlight == {r \in Requests : stage[r] \notin Ended \union {"new"}}

Goto(r, label) == stage' = [stage EXCEPT ![r] = label]

Larger(a, b) == IF a > b THEN a ELSE b

(* ttl_hours of an action token: max(24, retention_days * 24).             *)
Ttl(k) == Larger(1, Retention[k])

(* Every window the owner can still open ends within the bound.            *)
RoomToLeave ==
    now + Larger(Retention["deactivate"], Retention["delete"]) < MaxTime

(* account_lifecycle_view up to the form: the session of an active user.   *)
Leave(r) ==
    /\ stage[r] = "new"
    /\ account.exists /\ account.active
    /\ RoomToLeave
    /\ Goto(r, "save")
    /\ UNCHANGED <<now, account, expires, used, mailed, link, purgeVars, late,
                   faults, recovered>>

(* deactivate_account and request_account_deletion of the same user object: *)
(* a second request that was let in earlier overwrites its own dates only.  *)
Left(k) ==
    LET gone == [account EXCEPT !.active = FALSE, !.deactivated = TRUE]
    IN  IF k = "deactivate" THEN [gone EXCEPT !.recoverBy = now + Retention[k]]
        ELSE [gone EXCEPT !.deleteAt = now + Retention[k]]

SaveLeave(r) ==
    /\ stage[r] = "save"
    /\ account.exists
    /\ account' = Left(Kind[r])
    /\ recovered' = FALSE
    /\ Goto(r, "token")
    /\ UNCHANGED <<now, expires, used, mailed, link, purgeVars, late, faults>>

(* The admin actions select the users a link makes sense for.              *)
Support(r) ==
    /\ stage[r] = "new"
    /\ account.exists
    /\ IF Kind[r] = "deactivate" THEN ~account.active /\ account.deactivated
       ELSE account.deleteAt # Never
    /\ Goto(r, "token")
    /\ UNCHANGED <<now, account, expires, used, mailed, link, purgeVars, late,
                   faults, recovered>>

(* send_mail(fail_silently=True): the link arrives, or is lost.            *)
SendMail(r) ==
    \/ mailed' = mailed \union {r} /\ UNCHANGED faults
    \/ faults < MaxFaults /\ faults' = faults + 1 /\ UNCHANGED mailed

(* Mutated SendLink: the default lifetime of 24 hours.                     *)
SendLinkDefaultTtl(r) ==
    /\ stage[r] = "token"
    /\ account.exists
    /\ expires' = [expires EXCEPT ![r] = now + 1]
    /\ SendMail(r)
    /\ Goto(r, "done")
    /\ UNCHANGED <<now, account, used, link, purgeVars, late, recovered>>

(* create_action_token and the mail about it; the token is of no use to    *)
(* anybody in between.                                                     *)
SendLink(r) ==
    /\ stage[r] = "token"
    /\ account.exists
    /\ expires' = [expires EXCEPT ![r] = now + Ttl(Kind[r])]
    /\ SendMail(r)
    /\ Goto(r, "done")
    /\ UNCHANGED <<now, account, used, link, purgeVars, late, recovered>>

Usable(t) == expires[t] # Never /\ t \notin used /\ now <= expires[t]

(* reactivate_account_view, cancel_account_deletion_view: the token is     *)
(* read and tested, then marked, then the account is saved.                *)
Click(c) ==
    /\ stage[c] = "new"
    /\ \E t \in mailed : Usable(t) /\ link' = [link EXCEPT ![c] = t]
    /\ Goto(c, "consume")
    /\ UNCHANGED <<now, account, expires, used, mailed, purgeVars, late, faults,
                   recovered>>

Consume(c) ==
    /\ stage[c] = "consume"
    /\ expires[link[c]] # Never
    /\ used' = used \union {link[c]}
    /\ Goto(c, "recover")
    /\ UNCHANGED <<now, account, expires, mailed, link, purgeVars, late, faults,
                   recovered>>

(* Mutated Restored: reactivation leaves the scheduled deletion alone.     *)
RestoredKeepingDeletion(k) ==
    LET back == [account EXCEPT !.active = TRUE]
    IN  IF k = "delete" THEN [back EXCEPT !.deleteAt = Never]
        ELSE [back EXCEPT !.deactivated = FALSE, !.recoverBy = Never]

(* cancel_deletion_request leaves deactivated_at and its deadline alone.   *)
Restored(k) ==
    LET back == [account EXCEPT !.active = TRUE, !.deleteAt = Never]
    IN  IF k = "delete" THEN back
        ELSE [back EXCEPT !.deactivated = FALSE, !.recoverBy = Never]

Recover(c) ==
    /\ stage[c] = "recover"
    /\ account.exists
    /\ account' = Restored(Kind[link[c]])
    /\ recovered' = ~picked
    /\ link' = [link EXCEPT ![c] = Never]
    /\ Goto(c, "done")
    /\ UNCHANGED <<now, expires, used, mailed, purgeVars, late, faults>>

(* A statement about a row the purge has deleted raises.                   *)
Fail(r) ==
    /\ stage[r] \in {"save", "token", "consume", "recover"}
    /\ ~account.exists
    /\ link' = [c \in Clicks |-> IF c = r THEN Never ELSE link[c]]
    /\ Goto(r, "failed")
    /\ UNCHANGED <<now, account, expires, used, mailed, purgeVars, late, faults,
                   recovered>>

(* The process that serves a request dies.                                 *)
Die(r) ==
    /\ r \in InFlight
    /\ faults < MaxFaults
    /\ faults' = faults + 1
    /\ link' = [c \in Clicks |-> IF c = r THEN Never ELSE link[c]]
    /\ Goto(r, "failed")
    /\ UNCHANGED <<now, account, expires, used, mailed, purgeVars, late, recovered>>

-----------------------------------------------------------------------------

Due(date) == date # Never /\ date <= purgeTime

(* purge_expired_accounts: one clock reading and the query on deletions,   *)
PickDeletions ==
    /\ purge = "idle"
    /\ purge' = "scan"
    /\ purgeTime' = now
    /\ picked' = (account.exists /\ account.deleteAt # Never
                                 /\ account.deleteAt <= now)
    /\ late' = late \ {"purge"}
    /\ UNCHANGED <<now, account, requestVars, faults, recovered>>

(* Mutated Abandoned: without is_active=False.                             *)
AbandonedOrActive ==
    /\ account.exists
    /\ account.deleteAt = Never
    /\ Due(account.recoverBy)

(* deactivation_qs: no deletion is scheduled, and the window is over.      *)
Abandoned ==
    /\ account.exists /\ ~account.active
    /\ account.deleteAt = Never
    /\ Due(account.recoverBy)

(* Mutated PickDeactivations: the ids are replaced, not added.             *)
PickDeactivationsOnly ==
    /\ purge = "scan"
    /\ picked' = Abandoned
    /\ purge' = IF picked' THEN "remove" ELSE "idle"
    /\ purgeTime' = 0
    /\ UNCHANGED <<now, account, requestVars, late, faults, recovered>>

(* the query on deactivations, whose ids are added,                        *)
PickDeactivations ==
    /\ purge = "scan"
    /\ picked' = (picked \/ Abandoned)
    /\ purge' = IF picked' THEN "remove" ELSE "idle"
    /\ purgeTime' = 0
    /\ UNCHANGED <<now, account, requestVars, late, faults, recovered>>

(* and the deletion by id, which takes the tokens with it.                 *)
Remove ==
    /\ purge = "remove"
    /\ account' = [account EXCEPT !.exists = FALSE]
    /\ expires' = [t \in Senders |-> Never]
    /\ picked' = FALSE
    /\ purge' = "idle"
    /\ UNCHANGED <<now, used, mailed, stage, link, purgeTime, late, faults, recovered>>

PurgeDies ==
    /\ purge # "idle"
    /\ faults < MaxFaults
    /\ faults' = faults + 1
    /\ purge' = "idle"
    /\ picked' = FALSE
    /\ purgeTime' = 0
    /\ UNCHANGED <<now, account, requestVars, late, recovered>>

Running == InFlight \union (IF purge = "idle" THEN {} ELSE {"purge"})

Tick ==
    /\ now < MaxTime
    /\ late \intersect Running = {}
    /\ now' = now + 1
    /\ late' = Running
    /\ UNCHANGED <<account, requestVars, purgeVars, faults, recovered>>

-----------------------------------------------------------------------------

Continue(r) ==
    \/ r \in Leaves /\ SaveLeave(r)
    \/ r \in Senders /\ SendLink(r)
    \/ r \in Clicks /\ (Consume(r) \/ Recover(r))
    \/ Fail(r)

Purge == PickDeletions \/ PickDeactivations \/ Remove

Next ==
    \/ \E r \in Leaves : Leave(r)
    \/ \E r \in Supports : Support(r)
    \/ \E c \in Clicks : Click(c)
    \/ \E r \in Requests : Continue(r) \/ Die(r)
    \/ Purge \/ PurgeDies \/ Tick

(* Handlers go on, time goes on, and the purge is scheduled every day.     *)
Fairness ==
    /\ WF_vars(Tick)
    /\ WF_vars(Purge)
    /\ \A r \in Requests : WF_vars(Continue(r))

Spec == Init /\ [][Next]_vars

FairSpec == Spec /\ Fairness

-----------------------------------------------------------------------------

(***************************************************************************)
(* "Scheduled for 30 days and can be cancelled before then": an account    *)
(* whose owner took the leaving back is not deleted by the purge, unless   *)
(* the purge had collected its id before that (which it does only once the *)
(* deadline is over).  However requests to leave and links overlap, no     *)
(* date is left behind that a later purge would act on.                    *)
(***************************************************************************)
RecoveredIsSpared ==
    [][account.exists /\ ~account'.exists => ~recovered]_vars

(* The date the purge goes by.                                             *)
Deadline ==
    IF account.deleteAt # Never THEN account.deleteAt ELSE account.recoverBy

(* A leave request that still has to send its link, or a link in use.      *)
LinkUnderWay ==
    \/ \E r \in Leaves : stage[r] = "token"
    \/ \E c \in Clicks : stage[c] = "recover"

(***************************************************************************)
(* The account "can be recovered within 12 months": until the date the     *)
(* purge goes by, the owner has a link that works, unless a process died   *)
(* or a mail was lost.  The lifetime of a link is computed apart from the  *)
(* deadline, and links are used up while others are being made.            *)
(***************************************************************************)
RecoverableInTime ==
    account.exists /\ ~account.active /\ faults = 0 /\ now <= Deadline
        => LinkUnderWay \/ \E t \in mailed : Usable(t)

(***************************************************************************)
(* An account that was left does not stay left for ever: it is recovered   *)
(* or purged, also when processes die at any point.                        *)
(***************************************************************************)
LeavingEnds ==
    account.exists /\ ~account.active ~> account.active \/ ~account.exists
=============================================================================
