------------------------------- MODULE SignIn -------------------------------
(***************************************************************************)
(* How the owner of the account gets in: sessions, the authenticator and   *)
(* its recovery codes, and the verification of the e-mail address          *)
(* (apps/accounts: views.py, models.py, services.py).                      *)
(*                                                                         *)
(* No view uses a transaction: one action per statement.  A visit stands   *)
(* for a request of any of these kinds; it holds the rows it has read.     *)
(*                                                                         *)
(* Abstracted: passwords and the six digits (right or wrong), the secret   *)
(* of a device, the audit log, rate limits, and wrong input, which changes *)
(* nothing.                                                                *)
(***************************************************************************)
EXTENDS AccountLifecycle

CONSTANTS
    Visits,    \* requests of this module
    Browsers,  \* one session each
    Tokens,    \* EmailVerificationToken rows
    PerSet     \* recovery codes in a set: 8

ASSUME VisitAssumption == Never \notin Visits \union Browsers \union Tokens

(* A code is known by the visit that made its set and its place in it.     *)
Codes == Visits \X (1..PerSet)

VARIABLES
    device,    \* the verified TOTPDevice row, by the visit that created it
    codes,     \* codes[c]: the RecoveryCode row
    session,   \* who the browser is
    shown,     \* the set of codes waiting in a session to be displayed
    state,     \* User.state
    verified,  \* email_verified_at is set
    tokens,    \* tokens[t]: the verification token
    job,       \* job[v]: what the visit asked for
    at,        \* at[v]: the next statement of the visit
    browser,   \* browser[v]: where it came from
    held,      \* held[v]: the row it has read
    saw,       \* saw[v]: the User.state it has read
    ended      \* ended[v]: the visits that had ended when it began

visitVars == <<job, at, browser, held, saw, ended>>
signInVars == <<device, codes, session, shown, state, verified, tokens, visitVars>>

Jobs == {"enrol", "regenerate", "disable", "confirm", "verify", "reset"}
States == {"pending_verification", "active", "limited", "suspended"}

SignInInit ==
    /\ device = Never
    /\ codes = [c \in Codes |-> "absent"]
    /\ session = [s \in Browsers |-> "out"]
    /\ shown = [s \in Browsers |-> Never]
    /\ state = "pending_verification"
    /\ verified = FALSE
    /\ tokens = [t \in Tokens |-> "none"]
    /\ job = [v \in Visits |-> Never]
    /\ at = [v \in Visits |-> "new"]
    /\ browser = [v \in Visits |-> Never]
    /\ held = [v \in Visits |-> Never]
    /\ saw = [v \in Visits |-> Never]
    /\ ended = [v \in Visits |-> {}]

-----------------------------------------------------------------------------

(* An authenticated request: the backend knows active users only.          *)
SignedIn(s) == session[s] = "in" /\ account.exists /\ account.active

Over(v) == at[v] \in Ended

Begin(v, what, s, row, next) ==
    /\ at[v] = "new"
    /\ job' = [job EXCEPT ![v] = what]
    /\ at' = [at EXCEPT ![v] = next]
    /\ browser' = [browser EXCEPT ![v] = s]
    /\ held' = [held EXCEPT ![v] = row]
    /\ ended' = [ended EXCEPT ![v] = {u \in Visits : Over(u)}]

(* The visit goes on with row in hand; when it ends it holds what it held. *)
GoOn(v, next, row) ==
    /\ at' = [at EXCEPT ![v] = next]
    /\ held' = [held EXCEPT ![v] = row]
    /\ browser' = [browser EXCEPT ![v] = IF next \in Ended THEN Never ELSE @]
    /\ UNCHANGED <<job, saw, ended>>

End(v) == GoOn(v, "done", held[v])

(* The right password; with a device the second step is still to come.     *)
Login(s) ==
    /\ account.exists /\ account.active
    /\ session[s] # "in"
    /\ session' = [session EXCEPT ![s] = IF device = Never THEN "in" ELSE "pending"]
    /\ UNCHANGED <<device, codes, shown, state, verified, tokens, visitVars>>

(* Logging out flushes the session.                                        *)
Logout(s) ==
    /\ session[s] # "out"
    /\ session' = [session EXCEPT ![s] = "out"]
    /\ shown' = [shown EXCEPT ![s] = Never]
    /\ UNCHANGED <<device, codes, state, verified, tokens, visitVars>>

(* enroll_totp_view with the right code for the secret of the form.        *)
Enrol(v) ==
    /\ device = Never
    /\ \E s \in Browsers : SignedIn(s) /\ Begin(v, "enrol", s, Never, "device")
    /\ UNCHANGED <<device, codes, session, shown, state, verified, tokens, saw>>

(* update_or_create keeps the row another enrolment has created.           *)
StoreDevice(v) ==
    /\ at[v] = "device" /\ account.exists
    /\ device' = IF device = Never THEN v ELSE device
    /\ GoOn(v, "clear", Never)
    /\ UNCHANGED <<codes, session, shown, state, verified, tokens>>

Regenerate(v) ==
    /\ device # Never
    /\ \E s \in Browsers : SignedIn(s) /\ Begin(v, "regenerate", s, Never, "clear")
    /\ UNCHANGED <<device, codes, session, shown, state, verified, tokens, saw>>

Disable(v) ==
    /\ device # Never
    /\ \E s \in Browsers : SignedIn(s) /\ Begin(v, "disable", s, device, "clear")
    /\ UNCHANGED <<device, codes, session, shown, state, verified, tokens, saw>>

(* Mutated Clear: used codes are kept for the record, unused ones as well.  *)
ClearUsedOnly(v) ==
    /\ at[v] = "clear"
    /\ codes' = [c \in Codes |-> IF codes[c] = "used" THEN "absent" ELSE codes[c]]
    /\ GoOn(v, IF job[v] = "disable" THEN "drop" ELSE "write", held[v])
    /\ UNCHANGED <<device, session, shown, state, verified, tokens>>

(* The deletion of all codes, in replace_codes_for_user and when disabling. *)
Clear(v) ==
    /\ at[v] = "clear"
    /\ codes' = [c \in Codes |-> "absent"]
    /\ GoOn(v, IF job[v] = "disable" THEN "drop" ELSE "write", held[v])
    /\ UNCHANGED <<device, session, shown, state, verified, tokens>>

(* bulk_create, and the plain codes go into the session of the browser.    *)
WriteCodes(v) ==
    /\ at[v] = "write" /\ account.exists
    /\ codes' = [c \in Codes |-> IF c[1] = v THEN "fresh" ELSE codes[c]]
    /\ shown' = [shown EXCEPT ![browser[v]] = v]
    /\ End(v)
    /\ UNCHANGED <<device, session, state, verified, tokens>>

(* recovery_codes_view pops the codes it displays.                         *)
Display(s) ==
    /\ SignedIn(s) /\ device # Never
    /\ shown[s] # Never
    /\ shown' = [shown EXCEPT ![s] = Never]
    /\ UNCHANGED <<device, codes, session, state, verified, tokens, visitVars>>

(* device.delete() removes the row it has read, if that is still there.    *)
DropDevice(v) ==
    /\ at[v] = "drop"
    /\ device' = IF device = held[v] THEN Never ELSE device
    /\ shown' = [shown EXCEPT ![browser[v]] = Never]
    /\ End(v)
    /\ UNCHANGED <<codes, session, state, verified, tokens>>

-----------------------------------------------------------------------------

(* totp_confirm_login_view reads the device; the digits of the app will do, *)
ConfirmByApp(v) ==
    /\ device # Never
    /\ \E s \in Browsers :
          /\ session[s] = "pending"
          /\ Begin(v, "confirm", Never, Never, "done")
          /\ session' = [session EXCEPT ![s] = "in"]
    /\ UNCHANGED <<device, codes, shown, state, verified, tokens, saw>>

(* and anything else is compared with the codes that are left.             *)
ConfirmByCode(v) ==
    /\ device # Never
    /\ \E s \in Browsers :
          session[s] = "pending" /\ Begin(v, "confirm", s, Never, "find")
    /\ UNCHANGED <<device, codes, session, shown, state, verified, tokens, saw>>

(* Mutated FindCode: used_at is not looked at.                             *)
FindAnyCode(v) ==
    /\ at[v] = "find"
    /\ \/ \E c \in Codes : codes[c] # "absent" /\ GoOn(v, "mark", c)
       \/ GoOn(v, "failed", Never)
    /\ UNCHANGED <<device, codes, session, shown, state, verified, tokens>>

FindCode(v) ==
    /\ at[v] = "find"
    /\ \/ \E c \in Codes : codes[c] = "fresh" /\ GoOn(v, "mark", c)
       \/ GoOn(v, "failed", Never)
    /\ UNCHANGED <<device, codes, session, shown, state, verified, tokens>>

(* mark_used, whatever has become of the row, and the session is in; an    *)
(* update of a row that is gone raises.                                    *)
MarkUsed(v) ==
    /\ at[v] = "mark"
    /\ IF codes[held[v]] = "absent" \/ ~account.exists
       THEN GoOn(v, "failed", Never) /\ UNCHANGED <<codes, session>>
       ELSE /\ codes' = [codes EXCEPT ![held[v]] = "used"]
            /\ session' = [session EXCEPT ![browser[v]] = "in"]
            /\ End(v)
    /\ UNCHANGED <<device, shown, state, verified, tokens>>

-----------------------------------------------------------------------------

(* send_verification_email made a token and the mail arrived.              *)
MailToken(t) ==
    /\ tokens[t] = "none" /\ account.exists
    /\ tokens' = [tokens EXCEPT ![t] = "usable"]
    /\ UNCHANGED <<device, codes, session, shown, state, verified, visitVars>>

Expire(t) ==
    /\ tokens[t] = "usable"
    /\ tokens' = [tokens EXCEPT ![t] = "expired"]
    /\ UNCHANGED <<device, codes, session, shown, state, verified, visitVars>>

(* verify_token reads the token together with the user,                    *)
Verify(v) ==
    /\ account.exists
    /\ \E t \in Tokens : tokens[t] = "usable" /\ Begin(v, "verify", Never, t, "use")
    /\ saw' = [saw EXCEPT ![v] = state]
    /\ UNCHANGED <<device, codes, session, shown, state, verified, tokens>>

(* marks the token,                                                        *)
UseToken(v) ==
    /\ at[v] = "use" /\ account.exists
    /\ tokens' = [tokens EXCEPT ![held[v]] = "used"]
    /\ GoOn(v, "verified", held[v])
    /\ UNCHANGED <<device, codes, session, shown, state, verified>>

(* Mutated StateOnceVerified: a verified account is an active one.         *)
StateAlwaysActive(seen) == "active"

(* mark_email_verified: only an account that waits for it becomes active.  *)
StateOnceVerified(seen) == IF seen = "pending_verification" THEN "active" ELSE seen

(* and saves the state it has read, along with the date.                   *)
SaveVerified(v) ==
    /\ at[v] = "verified" /\ account.exists
    /\ verified' = TRUE
    /\ state' = StateOnceVerified(saw[v])
    /\ End(v)
    /\ UNCHANGED <<device, codes, session, shown, tokens>>

(* A moderator or the admin sets the state of the account.                 *)
SetState(x) ==
    /\ account.exists /\ state # x
    /\ state' = x
    /\ UNCHANGED <<device, codes, session, shown, verified, tokens, visitVars>>

(* A statement about a row the purge has deleted raises.                   *)
FailVisit(v) ==
    /\ at[v] \in {"device", "write", "use", "verified"} /\ ~account.exists
    /\ GoOn(v, "failed", Never)
    /\ UNCHANGED <<device, codes, session, shown, state, verified, tokens>>

(* The purge takes the rows that belong to the account with it.            *)
Cascade ==
    /\ device' = Never
    /\ codes' = [c \in Codes |-> "absent"]
    /\ tokens' = [t \in Tokens |-> IF tokens[t] = "none" THEN "none" ELSE "expired"]
    /\ UNCHANGED <<session, shown, state, verified, visitVars>>

Continues(v) ==
    \/ StoreDevice(v) \/ Clear(v) \/ WriteCodes(v) \/ DropDevice(v)
    \/ FindCode(v) \/ MarkUsed(v) \/ UseToken(v) \/ SaveVerified(v)
    \/ FailVisit(v)

Arrives(v) ==
    \/ Enrol(v) \/ Regenerate(v) \/ Disable(v)
    \/ ConfirmByApp(v) \/ ConfirmByCode(v) \/ Verify(v)

UseBrowser(s) == Login(s) \/ Logout(s) \/ Display(s)

Mail(t) == MailToken(t) \/ Expire(t)
=============================================================================
