-------------------------- MODULE GuardianControls --------------------------
(***************************************************************************)
(* A profile with a guardian: the owner edits it on the web and sets its   *)
(* visibility over the API, and the guardian verifies the address,         *)
(* approves or rejects changes of locked fields, and keeps settings of     *)
(* their own (apps/profiles: views.py, forms.py, api_views.py,             *)
(* serializers.py).                                                        *)
(*                                                                         *)
(* The views load the profile, decide, and save later what they loaded,    *)
(* in autocommit.  A request is therefore several actions; what it read is *)
(* kept in original[r].                                                    *)
(*                                                                         *)
(* Abstracted: private stands for the four visibility switches, basic for  *)
(* bio, location and website, lockBasic for the guardian's settings;       *)
(* parental_controls_enabled is read by nobody, and the two other locks    *)
(* add nothing to what a minor profile has anyway; addresses are in lower  *)
(* case.  A link that has expired is one that nobody visits.  Staff who    *)
(* edit the row in the admin are left out.                                 *)
(***************************************************************************)
EXTENDS Naturals, FiniteSets

CONSTANTS
    Edits,       \* requests of the owner to change the profile
    Visits,      \* requests of guardians
    Signup,      \* the request that signed the account up
    Addresses,   \* e-mail addresses of guardians
    NoGuardian,  \* a blank guardian_email
    Forms,       \* what edits may submit
    MaxInFlight  \* bound on requests handled at the same time

Requests == Edits \union Visits
Senders == Requests \union {Signup}
Guardians == Addresses \union {NoGuardian}

(* The fields of ProfileForm.                                              *)
Form == [minor : BOOLEAN, guardian : Guardians, private : BOOLEAN, basic : BOOLEAN]

(* verified is guardian_email_verified_at.                                 *)
Profile == [minor : BOOLEAN, guardian : Guardians, private : BOOLEAN,
            basic : BOOLEAN, verified : BOOLEAN, lockBasic : BOOLEAN]

ASSUME GuardianAssumption ==
    /\ Edits \intersect Visits = {}
    /\ Signup \notin Requests
    /\ NoGuardian \notin Addresses
    /\ Forms \subseteq Form
    /\ MaxInFlight \in Nat

VARIABLES
    profile,      \* the Profile row
    stage,        \* where each request is
    original,     \* the profile as a request has read it
    form,         \* what an edit submits
    target,       \* the request whose link a visit has followed
    invited,      \* the address that got a verification link from a request
    used,         \* requests whose verification link has used_at
    managers,     \* addresses that were given a management link
    change,       \* change[e]: the ParentalControlChangeRequest of an edit
    misdirected   \* history: a verification was saved for another address

linkVars == <<invited, used, managers, change>>
vars == <<profile, stage, original, form, target, linkVars, misdirected>>

Stages == {"new", "done", "save", "patch", "invite", "ask", "use", "verify",
           "access", "apply", "mark", "reject", "manage"}

(* open: neither used_at nor rejected_at; applied: used_at.                *)
Change == [to : Guardians, form : Form,
           status : {"none", "open", "applied", "rejected"}]

(* The values the state ranges over; whoever handles a link has followed   *)
(* one for the address that was in the profile then.                       *)
TypeOK ==
    /\ profile \in Profile
    /\ stage \in [Requests -> Stages]
    /\ original \in [Requests -> Profile]
    /\ form \in [Edits -> Form]
    /\ target \in [Visits -> Senders]
    /\ invited \in [Senders -> Guardians]
    /\ used \subseteq Senders
    /\ managers \subseteq Addresses
    /\ change \in [Edits -> Change]
    /\ misdirected \in BOOLEAN
    /\ \A v \in Visits :
          /\ stage[v] \in {"use", "verify"} =>
                /\ original[v].guardian \in Addresses
                /\ invited[target[v]] = original[v].guardian
          /\ stage[v] \in {"apply", "mark", "reject", "invite"} =>
                /\ target[v] \in Edits
                /\ original[v].guardian \in Addresses

Blank == [minor |-> FALSE, guardian |-> NoGuardian, private |-> FALSE, basic |-> FALSE]

NewProfile == [minor |-> FALSE, guardian |-> NoGuardian, private |-> FALSE,
               basic |-> FALSE, verified |-> FALSE, lockBasic |-> FALSE]

(* An account of an adult, or one that initialize_minor_profile_for_signup *)
(* has prepared, whose verification link has arrived or not.               *)
Init ==
    /\ \E g \in Guardians, arrived \in BOOLEAN :
          /\ profile = [NewProfile EXCEPT !.minor = (g # NoGuardian), !.guardian = g]
          /\ invited = [s \in Senders |-> IF s = Signup /\ arrived THEN g ELSE NoGuardian]
    /\ stage = [r \in Requests |-> "new"]
    /\ original = [r \in Requests |-> NewProfile]
    /\ form = [e \in Edits |-> Blank]
    /\ target = [v \in Visits |-> Signup]
    /\ used = {}
    /\ managers = {}
    /\ change = [e \in Edits |-> [to |-> NoGuardian, form |-> Blank, status |-> "none"]]
    /\ misdirected = FALSE

-----------------------------------------------------------------------------

(* _guardian_request_ready: such a profile has locked fields.              *)
Guarded(p) == p.minor /\ p.guardian # NoGuardian

(* locked_field_changes is not empty.                                      *)
Queued(p, f) ==
    Guarded(p) /\ \/ f.minor # p.minor
                  \/ f.guardian # p.guardian
                  \/ f.private # p.private
                  \/ p.lockBasic /\ f.basic # p.basic

(* What the form makes of the profile.                                     *)
Filled(p, f) == [p EXCEPT !.minor = f.minor, !.guardian = f.guardian,
                          !.private = f.private, !.basic = f.basic]

(* Mutated Edited: the locks are looked up after form.is_valid(), which    *)
(* has already changed the instance.                                       *)
EditedAfterValidation(p, f) ==
    IF Guarded(Filled(p, f))
    THEN [p EXCEPT !.basic = IF p.lockBasic THEN p.basic ELSE f.basic]
    ELSE [Filled(p, f) EXCEPT !.verified = p.verified /\ f.guardian = p.guardian]

(* The instance edit_profile_view saves: locked fields are put back, and a *)
(* new address is not verified.                                            *)
Edited(p, f) ==
    IF Guarded(p)
    THEN [p EXCEPT !.basic = IF p.lockBasic THEN p.basic ELSE f.basic]
    ELSE [Filled(p, f) EXCEPT !.verified = p.verified /\ f.guardian = p.guardian]

(* Mutated Approved: a new address inherits the verification of the old.   *)
ApprovedStillVerified(p, f) == Filled(p, f)

(* What the approve path makes of the profile.                             *)
Approved(p, f) ==
    [Filled(p, f) EXCEPT !.verified = p.verified /\ f.guardian = p.guardian]

-----------------------------------------------------------------------------

Goto(r, label) == stage' = [stage EXCEPT ![r] = label]

InFlight == {r \in Requests : stage[r] \notin {"new", "done"}}

(* A view loads the profile.                                               *)
Read(r, label) ==
    /\ stage[r] = "new"
    /\ Cardinality(InFlight) < MaxInFlight
    /\ original' = [original EXCEPT ![r] = profile]
    /\ Goto(r, label)

(* _issue_guardian_verification to address g: send_mail may fail.          *)
Invite(r, g) ==
    /\ \/ invited' = [invited EXCEPT ![r] = g]
       \/ UNCHANGED invited
    /\ Goto(r, "done")
    /\ UNCHANGED <<profile, original, form, target, used, managers, change, misdirected>>

(* edit_profile_view with a valid form.                                    *)
Edit(e) ==
    /\ Read(e, "save")
    /\ \E f \in Forms : form' = [form EXCEPT ![e] = f]
    /\ UNCHANGED <<profile, target, linkVars, misdirected>>

(* updated_profile.save(): the whole row.                                  *)
Save(e) ==
    /\ stage[e] = "save"
    /\ profile' = Edited(original[e], form[e])
    /\ Goto(e, IF Queued(original[e], form[e]) THEN "ask"
               ELSE IF form[e].guardian \notin {original[e].guardian, NoGuardian}
                    THEN "invite" ELSE "done")
    /\ UNCHANGED <<original, form, target, linkVars, misdirected>>

(* MyProfilePrivacyAPIView, PUT or PATCH: the serializer takes the         *)
(* visibility switches, and nobody asks for the locks.                     *)
Patch(e) ==
    /\ Read(e, "patch")
    /\ \E private \in BOOLEAN : form' = [form EXCEPT ![e].private = private]
    /\ UNCHANGED <<profile, target, linkVars, misdirected>>

(* serializer.save(): the whole row.                                       *)
SavePatch(e) ==
    /\ stage[e] = "patch"
    /\ profile' = [original[e] EXCEPT !.private = form[e].private]
    /\ Goto(e, "done")
    /\ UNCHANGED <<original, form, target, linkVars, misdirected>>

InviteNew(e) == stage[e] = "invite" /\ Invite(e, form[e].guardian)

(* _issue_parental_change_approval to the guardian in the saved instance;  *)
(* a request whose mail failed is in nobody's reach: status none.          *)
Ask(e) ==
    /\ stage[e] = "ask"
    /\ \E status \in {"open", "none"} :
          change' = [change EXCEPT ![e] = [to |-> Edited(original[e], form[e]).guardian,
                                           form |-> form[e], status |-> status]]
    /\ Goto(e, "done")
    /\ UNCHANGED <<profile, original, form, target, invited, used, managers, misdirected>>

-----------------------------------------------------------------------------

(* verify_guardian_email_view: an unused link for the current address,     *)
VisitVerify(v) ==
    /\ Read(v, "use")
    /\ profile.guardian # NoGuardian
    /\ \E s \in Senders \ used :
          /\ invited[s] = profile.guardian
          /\ target' = [target EXCEPT ![v] = s]
    /\ UNCHANGED <<profile, form, linkVars, misdirected>>

(* is marked as used,                                                      *)
Use(v) ==
    /\ stage[v] = "use"
    /\ used' = used \union {target[v]}
    /\ Goto(v, "verify")
    /\ UNCHANGED <<profile, original, form, target, invited, managers, change, misdirected>>

(* the profile is verified, whatever address it has by now,                *)
Verify(v) ==
    /\ stage[v] = "verify"
    /\ profile' = [profile EXCEPT !.verified = TRUE]
    /\ misdirected' = (misdirected \/ profile.guardian # original[v].guardian)
    /\ Goto(v, "access")
    /\ UNCHANGED <<original, form, target, linkVars>>

(* and the visitor is sent on to a management link.                        *)
GiveAccess(v) ==
    /\ stage[v] = "access"
    /\ managers' = managers \union ({original[v].guardian} \ {NoGuardian})
    /\ Goto(v, "done")
    /\ UNCHANGED <<profile, original, form, target, invited, used, change, misdirected>>

-----------------------------------------------------------------------------

(* approve_parental_change_view, POST: a usable request that was sent to   *)
(* the current address.                                                    *)
VisitChange(v) ==
    /\ \E label \in {"apply", "reject"} : Read(v, label)
    /\ profile.guardian # NoGuardian
    /\ \E e \in Edits :
          /\ change[e].status = "open" /\ change[e].to = profile.guardian
          /\ target' = [target EXCEPT ![v] = e]
    /\ UNCHANGED <<profile, form, linkVars, misdirected>>

(* profile.save(update_fields=...): all but the guardian's settings.       *)
Apply(v) ==
    /\ stage[v] = "apply"
    /\ profile' = [Approved(original[v], change[target[v]].form)
                     EXCEPT !.lockBasic = profile.lockBasic]
    /\ Goto(v, "mark")
    /\ UNCHANGED <<original, form, target, linkVars, misdirected>>

Settle(v, status) ==
    change' = [change EXCEPT ![target[v]].status = status]

(* used_at; a new guardian is invited next.                                *)
Mark(v) ==
    /\ stage[v] = "mark"
    /\ Settle(v, "applied")
    /\ Goto(v, IF change[target[v]].form.guardian \notin
                    {original[v].guardian, NoGuardian} THEN "invite" ELSE "done")
    /\ UNCHANGED <<profile, original, form, target, invited, used, managers, misdirected>>

InviteNext(v) ==
    stage[v] = "invite" /\ Invite(v, change[target[v]].form.guardian)

Reject(v) ==
    /\ stage[v] = "reject"
    /\ Settle(v, "rejected")
    /\ Goto(v, "done")
    /\ UNCHANGED <<profile, original, form, target, invited, used, managers, misdirected>>

-----------------------------------------------------------------------------

(* guardian_manage_minor_view with a management link, and                  *)
(* guardian_manage_linked_minor_view for a verified guardian's account.    *)
VisitManage(v) ==
    /\ Read(v, "manage")
    /\ profile.guardian # NoGuardian
    /\ profile.guardian \in managers \/ profile.verified
    /\ UNCHANGED <<profile, form, target, linkVars, misdirected>>

(* GuardianMinorSettingsForm.apply, profile.save(update_fields=...).       *)
Manage(v) ==
    /\ stage[v] = "manage"
    /\ \E lock \in BOOLEAN : profile' = [profile EXCEPT !.lockBasic = lock]
    /\ Goto(v, "done")
    /\ UNCHANGED <<original, form, target, linkVars, misdirected>>

(* The process that serves a request dies.                                 *)
Die(r) ==
    /\ r \in InFlight
    /\ Goto(r, "done")
    /\ UNCHANGED <<profile, original, form, target, linkVars, misdirected>>

EditStep(e) == Edit(e) \/ Save(e) \/ Patch(e) \/ SavePatch(e) \/ InviteNew(e) \/ Ask(e)

VerifyStep(v) == VisitVerify(v) \/ Use(v) \/ Verify(v) \/ GiveAccess(v)

ChangeStep(v) ==
    VisitChange(v) \/ Apply(v) \/ Mark(v) \/ InviteNext(v) \/ Reject(v)

ManageStep(v) == VisitManage(v) \/ Manage(v)

Next ==
    \/ \E e \in Edits : EditStep(e)
    \/ \E v \in Visits : VerifyStep(v) \/ ChangeStep(v) \/ ManageStep(v)
    \/ \E r \in Requests : Die(r)

Spec == Init /\ [][Next]_vars

-----------------------------------------------------------------------------

Confirmed == {invited[s] : s \in used}

(***************************************************************************)
(* A guardian's address counts as verified only if somebody followed a     *)
(* link sent to that address: edits, approvals and stale saves of either   *)
(* never carry the verification of one address over to another.  The only  *)
(* save that can is that of verify_guardian_email_view, when the address   *)
(* was changed after the view had read it (views.py:308).                  *)
(***************************************************************************)
VerifiedByLink ==
    profile.verified /\ ~misdirected => profile.guardian \in Confirmed

(* A guardian who was the one in the profile applies a change sent to them. *)
ApprovedStep ==
    \E v \in Visits :
        /\ stage[v] = "apply" /\ stage'[v] = "mark"
        /\ change[target[v]].to = original[v].guardian

ManagedStep == \E v \in Visits : stage[v] = "manage" /\ stage'[v] = "done"

SavedFrom(e, label) == stage[e] = label /\ stage'[e] # label

(* The row q is protected as the row p is.                                 *)
SameProtections(p, q) ==
    /\ q.minor = p.minor /\ q.guardian = p.guardian
    /\ q.lockBasic = p.lockBasic
    /\ p.lockBasic => q.basic = p.basic

(***************************************************************************)
(* What a request of the owner can do to a guarded profile.  One that read *)
(* the row while it was guarded puts every lock and locked field back as   *)
(* it was read, however stale that is, and never what its form says; only  *)
(* the API sets the visibility, and asks no guardian (api_views.py:7,      *)
(* although views.py:184 says of these fields that one has to approve).    *)
(* It may overwrite what the guardian has changed meanwhile, and one that  *)
(* read the row before it was guarded saves its form (views.py:247).       *)
(* Whatever else becomes of the protections is a change that the guardian  *)
(* approved, or a setting of the guardian.                                 *)
(***************************************************************************)
ProtectionsHold ==
    [][Guarded(profile) =>
         \/ ApprovedStep
         \/ ManagedStep /\ profile' = [profile EXCEPT !.lockBasic = profile'.lockBasic]
         \/ SameProtections(profile, profile') /\ profile'.private = profile.private
         \/ \E e \in Edits :
               /\ SavedFrom(e, "save") \/ SavedFrom(e, "patch")
               /\ Guarded(original[e]) =>
                     /\ SameProtections(original[e], profile')
                     /\ profile'.private # original[e].private => SavedFrom(e, "patch")
      ]_vars
=============================================================================
