--------------------------- MODULE ReportWorkflow ---------------------------
(***************************************************************************)
(* Reports, from filing to decision: who is on call, which evidence a      *)
(* decision needs, and how long it may take (apps/moderation/models.py,    *)
(* signals.py, views.py, api_views.py).                                    *)
(*                                                                         *)
(* A moderator's request loads the report, looks at it and saves some of   *)
(* its fields; others get in between.  It takes place in the slots of      *)
(* Publishing and draws on the same bounds.                                *)
(*                                                                         *)
(* Abstracted: notes stands for a note or an internal note with text; an   *)
(* evidence hash is there or is not; responded_at likewise; times are      *)
(* minutes; a report is assigned when first_assigned_at is set.            *)
(* Left out: the rows of ModerationAction and ModerationNote, which        *)
(* nothing reads back, statuses that are not one (nothing is saved), and   *)
(* the admin, but for sla_target_minutes.                                  *)
(***************************************************************************)
EXTENDS Publishing, Integers

CONSTANTS
    Reports,
    Reasons,   \* the reasons reports are filed for
    Statuses,  \* the statuses moderators set
    Times      \* the minutes at which anything happens

AllReasons == {"dmca_ip", "minor_safety", "graphic_death_injury",
               "non_consensual_intimate_media", "impersonation", "harassment",
               "spam_scam", "other"}

AllStatuses == {"open", "reviewing", "under_review", "resolved", "dismissed", "actioned"}

ASSUME ReportAssumption ==
    /\ Reasons \subseteq AllReasons
    /\ Statuses \subseteq AllStatuses
    /\ Times \subseteq Nat
    /\ 0 \in Times

VARIABLES
    report,  \* the table Report
    review,  \* what the process in a slot is doing
    now,     \* minutes
    bare     \* history: severe reports without evidence that were decided by a
             \* way that does not ask for it, or had it overwritten

reportVars == <<report, review, now, bare>>

(* severity_for_reason and sla_target_for_severity                         *)
Severity(reason) ==
    CASE reason \in {"minor_safety", "non_consensual_intimate_media"} -> "critical"
      [] reason \in {"dmca_ip", "graphic_death_injury", "impersonation"} -> "high"
      [] reason = "spam_scam" -> "low"
      [] OTHER -> "medium"

SlaTarget(severity) ==
    CASE severity = "low" -> 24 * 60
      [] severity = "medium" -> 8 * 60
      [] severity = "high" -> 2 * 60
      [] severity = "critical" -> 30

Severe(reason) == Severity(reason) \in {"high", "critical"}

Never == -1

Absent == [status |-> "none"]

Report == [status : AllStatuses, reason : AllReasons, evidence : BOOLEAN, created : Nat,
           assigned : Nat \union {Never}, responded : BOOLEAN, target : Nat]

Kinds == {"update", "action", "status", "quick"}

(* loaded: the instance the request works on, with what it has set in it.  *)
Reviewing == [pc : Kinds, id : Reports, loaded : Report, to : AllStatuses]

Escalating == [pc : {"escalate"}, id : Reports]

ReportTypeOK ==
    /\ report \in [Reports -> Report \union {Absent}]
    /\ review \in [Slots -> Reviewing \union Escalating \union {Idle}]
    /\ now \in Times
    /\ bare \subseteq Reports
    /\ \A s \in Slots : review[s] # Idle => report[review[s].id] # Absent

ReportInit ==
    /\ report = [r \in Reports |-> Absent]
    /\ review = [s \in Slots |-> Idle]
    /\ now = 0
    /\ bare = {}

-----------------------------------------------------------------------------

Reviews(s, kind) == review[s].pc = kind

Decided(s) == review' = [review EXCEPT ![s] = Idle]

Filed(reason) ==
    [status |-> "open", reason |-> reason, evidence |-> FALSE, created |-> now,
     assigned |-> Never, responded |-> FALSE, target |-> SlaTarget(Severity(reason))]

(* report_view and report_actor_view; the automatic report of abuse        *)
(* control is filed the same way.                                          *)
File(s, r, reason) ==
    /\ Reviews(s, "idle")
    /\ report[r] = Absent
    /\ Count
    /\ report' = [report EXCEPT ![r] = Filed(reason)]
    /\ IF Severity(reason) = "critical"
       THEN review' = [review EXCEPT ![s] = [pc |-> "escalate", id |-> r]]
       ELSE UNCHANGED review
    /\ UNCHANGED <<now, bare>>

(* auto_assign_critical_reports, after the report has been saved; nothing  *)
(* when there is no staff.                                                 *)
Escalate(s) ==
    /\ Reviews(s, "escalate")
    /\ LET r == review[s].id
       IN  \/ report' = [report EXCEPT
                 ![r].assigned = now, ![r].target = SlaTarget(Severity(report[r].reason))]
           \/ UNCHANGED report
    /\ Decided(s)
    /\ UNCHANGED <<bounds, now, bare>>

-----------------------------------------------------------------------------

(* A moderator's request loads report r.                                   *)
Load(s, r, kind, to, instance) ==
    /\ Reviews(s, "idle")
    /\ Count
    /\ review' = [review EXCEPT ![s] = [pc |-> kind, id |-> r, loaded |-> instance, to |-> to]]
    /\ UNCHANGED <<report, now, bare>>

(* stamp_evidence_hash and the assignment of moderation_report_update_view *)
(* change the instance.                                                    *)
Stamped(instance, notes) == [instance EXCEPT !.evidence = @ \/ notes]

Assigned(instance, assign) ==
    [instance EXCEPT !.assigned = IF assign /\ @ = Never THEN now ELSE @]

(* Mutated BeginUpdate: the notes are taken for evidence but not stamped.  *)
BeginUpdateUnstamped(s, r) ==
    \E to \in Statuses, notes \in BOOLEAN, assign \in BOOLEAN :
        LET R == report[r]
        IN  /\ Severe(R.reason) => R.evidence \/ notes
            /\ Load(s, r, "update", to, Assigned(R, assign))

(* moderation_report_update_view with a status                             *)
BeginUpdate(s, r) ==
    \E to \in Statuses, notes \in BOOLEAN, assign \in BOOLEAN :
        LET R == report[r]
        IN  /\ Severe(R.reason) => R.evidence \/ notes
            /\ Load(s, r, "update", to, Assigned(Stamped(R, notes), assign))

(* The same view with an action only, and create_action of the API: no     *)
(* evidence is asked for.                                                  *)
BeginAction(s, r) ==
    \E notes \in BOOLEAN : Load(s, r, "action", "actioned", Stamped(report[r], notes))

(* update_status of the API                                                *)
BeginStatus(s, r) ==
    /\ Severe(report[r].reason) => report[r].evidence
    /\ \E to \in Statuses : Load(s, r, "status", to, report[r])

(* moderation_quick_status_view: no evidence either.                       *)
BeginQuick(s, r) ==
    \E to \in Statuses : Load(s, r, "quick", to, report[r])

(* save(update_fields=...): each kind of request writes its own fields,    *)
(* and Report.save adds sla_target_minutes to them.                        *)
Saved(R, kind, loaded, to) ==
    [R EXCEPT !.status = to,
              !.target = loaded.target,
              !.responded = @ \/ kind # "quick",
              !.assigned = IF kind = "update" THEN loaded.assigned ELSE @,
              !.evidence = IF kind \in {"update", "action"} THEN loaded.evidence ELSE @]

Decide(s) ==
    LET r == review[s].id
        R == Saved(report[r], review[s].pc, review[s].loaded, review[s].to)
    IN  /\ review[s].pc \in Kinds
        /\ report' = [report EXCEPT ![r] = R]
        /\ bare' = IF R.evidence THEN bare \ {r}
                   ELSE IF review[s].pc \in {"action", "quick"} /\ Severe(R.reason)
                   THEN bare \union {r} ELSE bare
        /\ Decided(s)
        /\ UNCHANGED <<bounds, now>>

(* sla_target_minutes is set in the admin; save puts the default for zero. *)
SetTarget(r) ==
    /\ Count
    /\ \E minutes \in Times :
          report' = [report EXCEPT ![r].target =
              IF minutes = 0 THEN SlaTarget(Severity(report[r].reason)) ELSE minutes]
    /\ UNCHANGED <<review, now, bare>>

(* The process in slot s dies.                                             *)
Drop(s) ==
    /\ ~Reviews(s, "idle")
    /\ died < MaxDeaths
    /\ died' = died + 1
    /\ Decided(s)
    /\ UNCHANGED <<report, started, now, bare>>

(* Before there is a report nobody looks at the time.                      *)
Pass ==
    /\ \E r \in Reports : report[r] # Absent
    /\ now' \in {t \in Times : t > now}
    /\ UNCHANGED <<report, review, bounds, bare>>

FileStep(s) ==
    (\E r \in Reports, reason \in Reasons : File(s, r, reason)) \/ Escalate(s)

ReviewStep(s) ==
    \/ \E r \in Reports :
          /\ report[r] # Absent
          /\ BeginUpdate(s, r) \/ BeginAction(s, r) \/ BeginStatus(s, r) \/ BeginQuick(s, r)
    \/ Decide(s) \/ Drop(s)

ReportNext ==
    \/ \E s \in Slots : FileStep(s) \/ ReviewStep(s)
    \/ \E r \in Reports : report[r] # Absent /\ SetTarget(r)
    \/ Pass

-----------------------------------------------------------------------------
(* What is overdue, twice.                                                 *)

(* Report.sla_breached                                                     *)
SlaBreached(R) ==
    /\ R.target # 0
    /\ ~R.responded
    /\ now > (IF R.assigned # Never THEN R.assigned ELSE R.created) + R.target

(* Mutated SlaDeadline: the dashboard gives critical reports an hour.      *)
SlaDeadlineLate(R) ==
    (IF R.assigned = Never THEN R.created ELSE R.assigned) +
        (CASE Severity(R.reason) = "critical" -> 60
           [] Severity(R.reason) = "high" -> 2 * 60
           [] Severity(R.reason) = "medium" -> 8 * 60
           [] Severity(R.reason) = "low" -> 24 * 60)

(* The annotations of moderation_dashboard_view                            *)
SlaDeadline(R) ==
    (IF R.assigned = Never THEN R.created ELSE R.assigned) +
        (CASE Severity(R.reason) = "critical" -> 30
           [] Severity(R.reason) = "high" -> 2 * 60
           [] Severity(R.reason) = "medium" -> 8 * 60
           [] Severity(R.reason) = "low" -> 24 * 60)

(* and its filter for sla_breached.                                        *)
DashboardBreached(R) == ~R.responded /\ R.target > 0 /\ SlaDeadline(R) < now

(* The counts of moderation_sla_analytics_view and of sla_analytics: the   *)
(* reports that were assigned.                                             *)
AnalyticsBreached ==
    {r \in Reports : /\ report[r] # Absent
                     /\ report[r].assigned # Never
                     /\ SlaBreached(report[r])}

-----------------------------------------------------------------------------

(***************************************************************************)
(* "High-severity reports require evidence notes before status changes"    *)
(* (views.py:215): a high or critical report that is not open any more has *)
(* its evidence hash, whatever moderators save over each other. The only   *)
(* exceptions are the ways that do not ask for it, the quick status change *)
(* and an action without notes, the second of which can also overwrite     *)
(* evidence it had not seen when it loaded the report.                     *)
(***************************************************************************)
EvidenceFirst ==
    \A r \in Reports \ bare :
        report[r] # Absent /\ Severe(report[r].reason) /\ report[r].status # "open"
            => report[r].evidence

(***************************************************************************)
(* The dashboard's query, which has the minutes per severity written into  *)
(* it, finds exactly the reports that sla_breached calls overdue, and the  *)
(* analytics the assigned ones of these: from the moment a report is filed *)
(* until somebody has responded, through late and repeated assignment.     *)
(* The exception is a target that was set in the admin.                    *)
(***************************************************************************)
SlaAgrees ==
    LET Untouched == {r \in Reports : report[r] # Absent
                         /\ report[r].target = SlaTarget(Severity(report[r].reason))}
        Overdue == {r \in Untouched : DashboardBreached(report[r])}
    IN  /\ Overdue = {r \in Untouched : SlaBreached(report[r])}
        /\ AnalyticsBreached \intersect Untouched
              = {r \in Overdue : report[r].assigned # Never}
=============================================================================
