----------------------------- MODULE TrustScore -----------------------------
(***************************************************************************)
(* The trust signal of an actor (TrustSignalService of apps/moderation/    *)
(* services.py): a score out of what is known of the account, and a        *)
(* throttle out of the score.  It is computed when it is first asked for   *)
(* and never again; afterwards only an expired throttle is lifted.         *)
(*                                                                         *)
(* Abstracted: dates (a throttle has a length, the counts are those of     *)
(* their window), email_verified_at, and the velocity counters that later  *)
(* actions write into the signal (see Engagement).  Rows withdrawn within  *)
(* their hour stay in the counts.  One request computes the score, from    *)
(* what it reads at one moment.                                            *)
(***************************************************************************)
EXTENDS Integers

CONSTANTS
    Settings,    \* the ABUSE_... settings; thresholds, bonuses and hours
    Traits,      \* what counts in favour of the actor; bounds a run
    Ages,        \* ages of an account in days
    MaxReports,  \* bounds on what moderators do
    MaxActions,
    MaxBurst     \* bound on what an actor does in an hour

AllTraits == {"verified", "avatar", "bio", "posts", "liked", "followers", "following"}
Deeds == {"posts", "follows", "likes", "reposts"}
Reasons == {"recent_moderation_actions", "recent_reports", "posting_velocity",
            "low_trust_score"}

ASSUME SettingsAssumption ==
    /\ Settings.bonus \in [AllTraits -> Nat]
    /\ Settings.limit \in [Deeds -> Nat]
    /\ Settings.hours \in [Reasons -> Nat]
    /\ Settings.minimumAge \in Nat
    /\ Settings.perReport \in Nat /\ Settings.perAction \in Nat
    /\ Settings.reports \in Nat /\ Settings.actions \in Nat
    /\ Settings.threshold \in Nat

ASSUME BoundsAssumption ==
    /\ Traits \subseteq AllTraits /\ Ages \subseteq Nat
    /\ MaxReports \in Nat /\ MaxActions \in Nat /\ MaxBurst \in Nat

(* Holds for the defaults: the more serious the reason, the longer.        *)
WindowsAssumption ==
    /\ Settings.hours["recent_moderation_actions"] >= Settings.hours["recent_reports"]
    /\ Settings.hours["recent_reports"] >= Settings.hours["posting_velocity"]
    /\ Settings.hours["recent_reports"] >= Settings.hours["low_trust_score"]

History ==
    [age : Ages, traits : SUBSET Traits, deeds : [Deeds -> 0..MaxBurst],
     reports : 0..MaxReports, actions : 0..MaxActions]

-----------------------------------------------------------------------------

AgeScore(age) ==
    IF age < Settings.minimumAge THEN -15
    ELSE IF age \div 3 < 20 THEN age \div 3 ELSE 20

Bonus(h, trait) == IF trait \in h.traits THEN Settings.bonus[trait] ELSE 0

Verification(h) ==
    IF "verified" \in h.traits THEN Settings.bonus["verified"] ELSE -10

Completeness(h) ==
    Bonus(h, "avatar") + Bonus(h, "bio") + Bonus(h, "posts") + Bonus(h, "liked")
        + Bonus(h, "followers") + Bonus(h, "following")

Penalty(h) == h.reports * Settings.perReport + h.actions * Settings.perAction

Burst(h, deed) == h.deeds[deed] >= Settings.limit[deed]

VelocityPenalty(h) ==
    (IF Burst(h, "posts") THEN 20 ELSE 0) + (IF Burst(h, "follows") THEN 15 ELSE 0)
        + (IF Burst(h, "likes") THEN 10 ELSE 0) + (IF Burst(h, "reposts") THEN 15 ELSE 0)

Clamped(score) == IF score < 0 THEN 0 ELSE IF score > 100 THEN 100 ELSE score

Score(h) ==
    Clamped(50 + AgeScore(h.age) + Verification(h) + Completeness(h)
               - Penalty(h) - VelocityPenalty(h))

Throttled(h) == Score(h) < Settings.threshold

(* Mutated Reason: reports are looked at first.                            *)
ReasonReportsFirst(h) ==
    IF h.reports >= Settings.reports THEN "recent_reports"
    ELSE IF h.actions >= Settings.actions THEN "recent_moderation_actions"
    ELSE IF Burst(h, "posts") THEN "posting_velocity"
    ELSE "low_trust_score"

Reason(h) ==
    IF h.actions >= Settings.actions THEN "recent_moderation_actions"
    ELSE IF h.reports >= Settings.reports THEN "recent_reports"
    ELSE IF Burst(h, "posts") THEN "posting_velocity"
    ELSE "low_trust_score"

Hours(h) == Settings.hours[Reason(h)]

-----------------------------------------------------------------------------

VARIABLES
    history,   \* what is known of the actor now
    row,       \* the TrustSignal row: "none", "created" with its defaults, "computed"
    score,     \* what it says
    throttled,
    hours,
    moved      \* history: something else than a report or an action since

trustVars == <<history, row, score, throttled, hours, moved>>
signal == <<row, score, throttled, hours>>

(* Nothing has been done by the actor, or about it.                        *)
Unknown == {h \in History : h.reports = 0 /\ h.actions = 0
                            /\ h.deeds = [d \in Deeds |-> 0]}

TrustInit ==
    /\ history \in Unknown
    /\ row = "none"
    /\ score = 50
    /\ throttled = FALSE
    /\ hours = 0
    /\ moved = FALSE

(* Somebody reports the actor, moderators act on the report.               *)
Reported ==
    /\ history.reports < MaxReports
    /\ history' = [history EXCEPT !.reports = @ + 1]
    /\ UNCHANGED <<signal, moved>>

Sanctioned ==
    /\ history.actions < MaxActions
    /\ history' = [history EXCEPT !.actions = @ + 1]
    /\ UNCHANGED <<signal, moved>>

(* The actor posts, follows, likes or reposts.                             *)
Does(deed) ==
    /\ history.deeds[deed] < MaxBurst
    /\ history' = [history EXCEPT !.deeds[deed] = @ + 1]
    /\ moved' = (row = "computed")
    /\ UNCHANGED signal

(* A trait is gained or lost: a follower, a bio, the last post deleted.    *)
Changes ==
    /\ history' \in {[history EXCEPT !.traits = s] : s \in SUBSET Traits \ {history.traits}}
    /\ moved' = (row = "computed")
    /\ UNCHANGED signal

(* Days pass; a month may have passed.                                     *)
TimePasses ==
    /\ \E a \in {b \in Ages : b > history.age}, forgiven \in BOOLEAN :
          history' = [history EXCEPT
              !.age = a,
              !.deeds = [d \in Deeds |-> 0],
              !.reports = IF forgiven THEN 0 ELSE @,
              !.actions = IF forgiven THEN 0 ELSE @]
    /\ moved' = (row = "computed")
    /\ UNCHANGED signal

(* get_trust_signal of an actor that has none: get_or_create inserts a row *)
(* with defaults, and the score follows, if the process lives.             *)
Create ==
    /\ row = "none"
    /\ row' = "created"
    /\ UNCHANGED <<history, score, throttled, hours, moved>>

Compute ==
    /\ row = "created"
    /\ row' = "computed"
    /\ score' = Score(history)
    /\ throttled' = Throttled(history)
    /\ hours' = IF Throttled(history) THEN Hours(history) ELSE 0
    /\ UNCHANGED <<history, moved>>

(* should_throttle finds throttled_until in the past.                      *)
Lift ==
    /\ throttled
    /\ throttled' = FALSE
    /\ hours' = 0
    /\ UNCHANGED <<history, row, score, moved>>

TrustNext ==
    \/ Reported \/ Sanctioned \/ Changes \/ TimePasses \/ Create \/ Compute \/ Lift
    \/ \E deed \in Deeds : Does(deed)

TrustSpec == TrustInit /\ [][TrustNext]_trustVars

-----------------------------------------------------------------------------

(***************************************************************************)
(* A stale signal errs in favour of the actor: what has been reported and  *)
(* decided since it was computed would not raise the score, lift the       *)
(* throttle or shorten it if the signal were computed now.                 *)
(***************************************************************************)
StaleIsLenient ==
    row = "computed" /\ ~moved =>
        /\ Score(history) <= score
        /\ throttled => Throttled(history) /\ Hours(history) >= hours
=============================================================================
