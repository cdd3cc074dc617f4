----------------------------- MODULE Engagement -----------------------------
(***************************************************************************)
(* One actor's like, dislike and repost toggles (apps/social/views.py) and *)
(* the abuse control they pass (apps/moderation/services.py).  Every click *)
(* is a web request, and requests of one actor overlap: the views run in   *)
(* autocommit, one statement per action, and lock nothing.                 *)
(*                                                                         *)
(* The actor's trust signal exists already, and may be throttled; how it   *)
(* is first computed is not part of this module.  Time is coarse: an hour  *)
(* passes, and every row is older than the velocity window.                *)
(*                                                                         *)
(* Abstracted: the permission checks in front of the toggle, which refuse  *)
(* before anything changes; notifications, audit events and answers;       *)
(* ABUSE_VELOCITY_BLOCK_ENABLED and the feature flag are on.               *)
(***************************************************************************)
EXTENDS Naturals, FiniteSets

CONSTANTS
    Requests,    \* toggle requests; a row is named by the request it is from
    Kind,        \* Kind[r] is "like", "dislike" or "repost"
    Post,        \* Post[r] is the post it is about
    Threshold,   \* ABUSE_THRESHOLD_..._PER_HOUR, the same for both buckets
    MaxInFlight, \* bound on requests handled at the same time
    MaxFaults,   \* bound on requests that die half-way
    MaxResolved, \* bound on reports that staff resolve
    NoRow        \* no row of that kind on that post

Kinds == {"like", "dislike", "repost"}
Posts == {Post[r] : r \in Requests}

ASSUME RequestAssumption ==
    /\ IsFiniteSet(Requests)
    /\ NoRow \notin Requests
    /\ Kind \in [Requests -> Kinds]
    /\ DOMAIN Post = Requests
    /\ Threshold \in Nat
    /\ MaxInFlight \in Nat \ {0}
    /\ MaxFaults \in Nat
    /\ MaxResolved \in Nat

VARIABLES
    rows,      \* rows[k][p]: the actor's Like, Dislike or Repost row, or NoRow
    recent,    \* requests that came within the last hour
    counter,   \* the velocity counters of the trust signal
    throttle,  \* "off", "active" or "expired" (throttled_until has passed)
    reports,   \* automatic reports open or under review, by the request that filed them
    resolved,  \* those that staff have resolved or dismissed at some time
    aged,      \* those that are older than REPORT_WINDOW_HOURS
    stage,     \* where each request is
    found,     \* the row a request is about to remove
    count,     \* the number of recent rows a request is about to save
    faults

vars == <<rows, recent, counter, throttle, reports, resolved, aged, stage, found, count, faults>>

(* likes and dislikes share the counter likes_last_hour.                   *)
Buckets == {"reaction", "repost"}
Bucket(k) == IF k = "repost" THEN "repost" ELSE "reaction"

Ended == {"done", "denied", "dead"}
Stages == Ended \union {"new", "remove", "evaluate", "escalate", "file",
                        "undo", "create", "clear", "count", "save"}

(* The values the state ranges over.                                       *)
TypeOK ==
    /\ rows \in [Kinds -> [Posts -> Requests \union {NoRow}]]
    /\ recent \subseteq Requests
    /\ counter \in [Buckets -> 0..Cardinality(Requests)]
    /\ throttle \in {"off", "active", "expired"}
    /\ reports \subseteq Requests
    /\ resolved \subseteq Requests
    /\ aged \subseteq reports \union resolved
    /\ stage \in [Requests -> Stages]
    /\ found \in [Requests -> Requests \union {NoRow}]
    /\ \A r \in Requests : stage[r] = "remove" <=> found[r] # NoRow
    /\ count \in [Requests -> 0..Cardinality(Requests)]
    /\ faults \in 0..MaxFaults

Init ==
    /\ rows = [k \in Kinds |-> [p \in Posts |-> NoRow]]
    /\ recent = {}
    /\ counter = [b \in Buckets |-> 0]
    /\ throttle \in {"off", "active"}
    /\ reports = {}
    /\ resolved = {}
    /\ aged = {}
    /\ stage = [r \in Requests |-> "new"]
    /\ found = [r \in Requests |-> NoRow]
    /\ count = [r \in Requests |-> 0]
    /\ faults = 0

-----------------------------------------------------------------------------

InFlight == {r \in Requests : stage[r] \notin Ended \union {"new"}}

Goto(r, label) == stage' = [stage EXCEPT ![r] = label]

(* The actor's row of kind k on the post of r.                             *)
Row(k, r) == rows[k][Post[r]]

Insert(r) == rows' = [rows EXCEPT ![Kind[r]][Post[r]] = r]

(* instance.delete() deletes by primary key: nothing when the row is gone. *)
Delete(row, r) ==
    rows' = IF Row(Kind[r], r) = row
            THEN [rows EXCEPT ![Kind[r]][Post[r]] = NoRow] ELSE rows

(* like_toggle_view, dislike_toggle_view: get_or_create of the row itself. *)
(* repost_toggle_view: only the test whether there is one.                 *)
Toggle(r) ==
    /\ stage[r] = "new"
    /\ Cardinality(InFlight) < MaxInFlight
    /\ recent' = recent \union {r}
    /\ \/ /\ Row(Kind[r], r) # NoRow
          /\ found' = [found EXCEPT ![r] = Row(Kind[r], r)]
          /\ Goto(r, "remove")
          /\ UNCHANGED rows
       \/ /\ Row(Kind[r], r) = NoRow
          /\ IF Kind[r] = "repost" THEN UNCHANGED rows ELSE Insert(r)
          /\ Goto(r, "evaluate")
          /\ UNCHANGED found
    /\ UNCHANGED <<counter, throttle, reports, resolved, aged, count, faults>>

(* The toggle found a row: it is taken back, with no abuse control.        *)
Remove(r) ==
    /\ stage[r] = "remove"
    /\ Delete(found[r], r)
    /\ found' = [found EXCEPT ![r] = NoRow]
    /\ Goto(r, "done")
    /\ UNCHANGED <<recent, counter, throttle, reports, resolved, aged, count, faults>>

Anomaly(r) == counter[Bucket(Kind[r])] > Threshold

(* evaluate_action on the trust signal as it is read now: an expired       *)
(* throttle is lifted, an active one or a burst denies the request.        *)
Evaluate(r) ==
    /\ stage[r] = "evaluate"
    /\ throttle' = IF throttle = "expired" THEN "off" ELSE throttle
    /\ IF throttle = "active" \/ Anomaly(r) THEN Goto(r, "escalate")
       ELSE Goto(r, IF Kind[r] = "repost" THEN "create" ELSE "clear")
    /\ UNCHANGED <<rows, recent, counter, reports, resolved, aged, found, count, faults>>

(* Mutated Escalate: reports without looking for an open report.           *)
EscalateAlways(r) ==
    /\ stage[r] = "escalate"
    /\ Goto(r, "file")
    /\ UNCHANGED <<rows, recent, counter, throttle, reports, resolved, aged, found, count, faults>>

(* The automatic reports that _escalate_actor finds.                       *)
Standing == reports \ aged

(* _escalate_actor: one SELECT for an open automatic report of the last 24 *)
(* hours, one INSERT.                                                      *)
Escalate(r) ==
    /\ stage[r] = "escalate"
    /\ Goto(r, IF Standing # {} THEN "undo" ELSE "file")
    /\ UNCHANGED <<rows, recent, counter, throttle, reports, resolved, aged, found, count, faults>>

FileReport(r) ==
    /\ stage[r] = "file"
    /\ reports' = reports \union {r}
    /\ Goto(r, "undo")
    /\ UNCHANGED <<rows, recent, counter, throttle, resolved, aged, found, count, faults>>

(* Mutated Undo: the denied row stays.                                     *)
UndoNothing(r) ==
    /\ stage[r] = "undo"
    /\ Goto(r, "denied")
    /\ UNCHANGED <<rows, recent, counter, throttle, reports, resolved, aged, found, count, faults>>

(* A denied reaction is deleted again; a denied repost was never created.  *)
Undo(r) ==
    /\ stage[r] = "undo"
    /\ Delete(r, r)
    /\ Goto(r, "denied")
    /\ UNCHANGED <<recent, counter, throttle, reports, resolved, aged, found, count, faults>>

(* The allowed repost: get_or_create again, another request may have won.  *)
CreateRepost(r) ==
    /\ stage[r] = "create"
    /\ \/ Row("repost", r) = NoRow /\ Insert(r) /\ Goto(r, "count")
       \/ Row("repost", r) # NoRow /\ UNCHANGED rows /\ Goto(r, "done")
    /\ UNCHANGED <<recent, counter, throttle, reports, resolved, aged, found, count, faults>>

Opposite(k) == IF k = "like" THEN "dislike" ELSE "like"

(* Mutated ClearOpposite: only a like excludes a dislike.                  *)
ClearOppositeOfLike(r) ==
    /\ stage[r] = "clear"
    /\ rows' = IF Kind[r] = "like"
               THEN [rows EXCEPT !["dislike"][Post[r]] = NoRow] ELSE rows
    /\ Goto(r, "count")
    /\ UNCHANGED <<recent, counter, throttle, reports, resolved, aged, found, count, faults>>

(* The allowed reaction deletes whatever opposite one there is now.        *)
ClearOpposite(r) ==
    /\ stage[r] = "clear"
    /\ rows' = [rows EXCEPT ![Opposite(Kind[r])][Post[r]] = NoRow]
    /\ Goto(r, "count")
    /\ UNCHANGED <<recent, counter, throttle, reports, resolved, aged, found, count, faults>>

(* The actor's rows of kind k that were created within the last hour.      *)
RecentRows(k) == {q \in recent : \E p \in Posts : rows[k][p] = q}

(* record_like, record_dislike, record_repost: COUNT of the rows of the    *)
(* request's own kind, then UPDATE of the counter.                         *)
CountRows(r) ==
    /\ stage[r] = "count"
    /\ count' = [count EXCEPT ![r] = Cardinality(RecentRows(Kind[r]))]
    /\ Goto(r, "save")
    /\ UNCHANGED <<rows, recent, counter, throttle, reports, resolved, aged, found, faults>>

SaveCounter(r) ==
    /\ stage[r] = "save"
    /\ counter' = [counter EXCEPT ![Bucket(Kind[r])] = count[r]]
    /\ count' = [count EXCEPT ![r] = 0]
    /\ Goto(r, "done")
    /\ UNCHANGED <<rows, recent, throttle, reports, resolved, aged, found, faults>>

(* The process serving the request dies between two statements.            *)
Die(r) ==
    /\ r \in InFlight
    /\ faults < MaxFaults
    /\ faults' = faults + 1
    /\ Goto(r, "dead")
    /\ found' = [found EXCEPT ![r] = NoRow]
    /\ count' = [count EXCEPT ![r] = 0]
    /\ UNCHANGED <<rows, recent, counter, throttle, reports, resolved, aged>>

(* An hour passes between two requests: no row is recent any more, and a   *)
(* throttle may run out.                                                   *)
HourPasses ==
    /\ InFlight = {}
    /\ recent # {}
    /\ recent' = {}
    /\ throttle' \in IF throttle = "active" THEN {"active", "expired"} ELSE {throttle}
    /\ UNCHANGED <<rows, counter, reports, resolved, aged, stage, found, count, faults>>

(* Staff set the status of a report: resolved or dismissed,                *)
ResolveReport(r) ==
    /\ r \in reports
    /\ reports' = reports \ {r}
    /\ resolved' = resolved \union {r}
    /\ Cardinality(resolved') <= MaxResolved
    /\ UNCHANGED <<rows, recent, counter, throttle, aged, stage, found, count, faults>>

(* or open again, which asks for no other report.                          *)
ReopenReport(r) ==
    /\ r \in resolved \ reports
    /\ reports' = reports \union {r}
    /\ UNCHANGED <<rows, recent, counter, throttle, resolved, aged, stage, found, count, faults>>

(* The window of 24 hours goes past a report: it stays open, but the next  *)
(* escalation does not find it.  Its request came more than an hour ago.   *)
WindowEnds(r) ==
    /\ r \in (reports \union resolved) \ (aged \union recent)
    /\ aged' = aged \union {r}
    /\ UNCHANGED <<rows, recent, counter, throttle, reports, resolved, stage, found, count, faults>>

-----------------------------------------------------------------------------

Step(r) ==
    \/ Toggle(r) \/ Remove(r) \/ Evaluate(r) \/ Escalate(r) \/ FileReport(r)
    \/ Undo(r) \/ CreateRepost(r) \/ ClearOpposite(r) \/ CountRows(r)
    \/ SaveCounter(r) \/ Die(r)

Next ==
    \/ HourPasses
    \/ \E r \in Requests : Step(r) \/ ResolveReport(r) \/ ReopenReport(r) \/ WindowEnds(r)

Spec == Init /\ [][Next]_vars

-----------------------------------------------------------------------------

(* A request that has created its reaction and not deleted the other yet.  *)
Settling(p) ==
    {r \in InFlight : /\ Post[r] = p
                      /\ Kind[r] # "repost"
                      /\ stage[r] \notin {"remove", "count", "save"}}

(***************************************************************************)
(* "A post cannot be both liked and disliked by the same actor": however   *)
(* the requests overlap, both rows exist only while a request is still     *)
(* about to delete one of them, unless a request died half-way.            *)
(***************************************************************************)
OneReaction ==
    faults = 0 => \A p \in Posts :
        rows["like"][p] # NoRow /\ rows["dislike"][p] # NoRow
            => Settling(p) # {}

(***************************************************************************)
(* A denied request has no lasting effect: its row is gone, even if the    *)
(* actor toggled the same post again while it was being evaluated.         *)
(***************************************************************************)
DeniedLeavesNothing ==
    \A r \in Requests, k \in Kinds, p \in Posts :
        stage[r] = "denied" => rows[k][p] # r

(***************************************************************************)
(* Denied requests do not flood the moderation queue: of the automatic     *)
(* reports of the last 24 hours there are never more open than requests    *)
(* that escalate at the same time, although the test for one and its       *)
(* insertion are two statements.  Not counted are those that staff have    *)
(* resolved and opened again, which may stand beside a later one.  Older   *)
(* ones stay open beside them all: an actor throttled for days is reported *)
(* every day.                                                              *)
(***************************************************************************)
NoReportFlood == Cardinality(Standing \ resolved) <= MaxInFlight

-----------------------------------------------------------------------------

(***************************************************************************)
(* "Action rate temporarily limited due to unusual activity": the velocity *)
(* control denies a request only if the actor's recent rows of that bucket *)
(* are indeed beyond the threshold.                                        *)
(***************************************************************************)
LimitIsTemporary ==
    [][\A r \in Requests :
        stage[r] = "evaluate" /\ stage'[r] = "escalate" /\ throttle # "active"
            => \E k \in Kinds : Bucket(k) = Bucket(Kind[r])
                   /\ Cardinality(RecentRows(k)) > Threshold]_vars
=============================================================================
