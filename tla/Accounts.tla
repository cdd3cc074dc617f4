------------------------------ MODULE Accounts ------------------------------
(***************************************************************************)
(* Signing in and leaving, on one account.  Two things tie them together:  *)
(* the purge deletes whatever belongs to the account, and a password reset *)
(* saves the whole User row it has read, twice, over what the statements   *)
(* of the other requests have changed in the meantime.                     *)
(***************************************************************************)
EXTENDS SignIn

CONSTANTS
    Staff,     \* stands for decisions of staff about the account's state
    Scenarios  \* what may arrive in one behaviour: requests, mails, decisions

VARIABLES
    arriving,  \* the scenario of this behaviour
    read,      \* read[v]: the User row a password reset has read
    restored,  \* history: a reset wrote back an older row
    undone     \* history: one that was left, over a recovered account

accountsVars == <<vars, signInVars, arriving, read, restored, undone>>

UserRow == [account |-> account, state |-> state, verified |-> verified]

AccountsInit ==
    /\ Init
    /\ SignInInit
    /\ arriving \in Scenarios
    /\ read = [v \in Visits |-> UserRow]
    /\ restored = FALSE
    /\ undone = FALSE

-----------------------------------------------------------------------------

(* PasswordResetConfirmView reads the user of a link, active or not.       *)
Reset(v) ==
    /\ account.exists
    /\ Begin(v, "reset", Never, Never, "password")
    /\ read' = [read EXCEPT ![v] = UserRow]
    /\ UNCHANGED <<vars, device, codes, session, shown, state, verified, tokens, saw,
                   arriving, restored, undone>>

(* form.save() in form_valid of Django's view, and once more in this one.  *)
(* Saving a row that is gone inserts it again.  A new password ends the    *)
(* sessions.  An older row that is written back counts as a fault; it may  *)
(* be one that the owner had left, written over the recovery.              *)
SavePassword(v) ==
    /\ at[v] \in {"password", "again"}
    /\ \/ read[v] = UserRow /\ UNCHANGED <<faults, restored, undone>>
       \/ /\ read[v] # UserRow
          /\ faults < MaxFaults
          /\ faults' = faults + 1
          /\ restored' = TRUE
          /\ undone' = (undone \/ (recovered /\ ~read[v].account.active))
    /\ account' = read[v].account
    /\ state' = read[v].state
    /\ verified' = read[v].verified
    /\ session' = [s \in Browsers |-> IF session[s] = "in" THEN "out" ELSE session[s]]
    /\ GoOn(v, IF at[v] = "password" THEN "again" ELSE "done", held[v])
    /\ UNCHANGED <<now, requestVars, purgeVars, late, recovered, device, codes, shown,
                   tokens, arriving, read>>

-----------------------------------------------------------------------------

(* A link back saves the account.                                          *)
Recovers == \E c \in Clicks : stage[c] = "recover" /\ stage'[c] = "done"

(* What the purge deletes takes along what belongs to it.                  *)
Around ==
    /\ IF account.exists /\ ~account'.exists THEN Cascade ELSE UNCHANGED signInVars
    /\ undone' = (undone /\ ~Recovers)
    /\ UNCHANGED <<arriving, read, restored>>

(* The clock and the purge are of interest once the owner may leave.       *)
Leaving == Leaves \intersect arriving # {}

Lifecycle ==
    /\ \/ \E r \in Leaves \intersect arriving : Leave(r)
       \/ \E r \in Supports \intersect arriving : Support(r)
       \/ \E c \in Clicks \intersect arriving : Click(c)
       \/ \E r \in Requests \intersect arriving : Continue(r) \/ Die(r)
       \/ Leaving /\ (Purge \/ PurgeDies \/ Tick)
    /\ Around

(* Visits are alike: any of those to come stands for the next one.         *)
Expected == {v \in Visits \intersect arriving : at[v] = "new"}
NextVisit == CHOOSE v \in Expected : TRUE

(* Browsers matter only to visits.                                         *)
Access ==
    /\ \/ Expected # {} /\ Arrives(NextVisit)
       \/ \E v \in Visits \intersect arriving : Continues(v)
       \/ Visits \intersect arriving # {} /\ \E s \in Browsers : UseBrowser(s)
       \/ \E t \in Tokens \intersect arriving : Mail(t)
       \/ Staff \in arriving /\ \E x \in States : SetState(x)
    /\ UNCHANGED <<vars, arriving, read, restored, undone>>

AccountsNext ==
    \/ Lifecycle
    \/ Access
    \/ Expected # {} /\ Reset(NextVisit)
    \/ \E v \in Visits \intersect arriving : SavePassword(v)

AccountsFairness ==
    /\ WF_accountsVars(Leaving /\ Tick /\ Around)
    /\ WF_accountsVars(Leaving /\ Purge /\ Around)
    /\ \A r \in Requests : WF_accountsVars(Continue(r) /\ Around)

AccountsSpec == AccountsInit /\ [][AccountsNext]_accountsVars /\ AccountsFairness

-----------------------------------------------------------------------------

(***************************************************************************)
(* RecoveredIsSpared with everybody at work on the account: an account     *)
(* whose owner took the leaving back is not purged.  The one exception is  *)
(* a password reset that had read the account while it was left and saves  *)
(* that row after the recovery; only another recovery mends that.          *)
(***************************************************************************)
SparedUnlessUndone ==
    [][account.exists /\ ~account'.exists => ~recovered \/ undone]_accountsVars

(* The visit signed in with a recovery code.                               *)
SignedInBy(v) == job[v] = "confirm" /\ at[v] = "done" /\ held[v] # Never

(***************************************************************************)
(* "One-time recovery codes": a code that let somebody in does not let     *)
(* anybody in again, unless the two confirmations overlapped (the codes    *)
(* are compared before one of them is marked, without a lock).             *)
(***************************************************************************)
SpentOnce ==
    \A u, v \in Visits :
        u # v /\ SignedInBy(u) /\ SignedInBy(v) /\ held[u] = held[v]
            => u \notin ended[v] /\ v \notin ended[u]

(***************************************************************************)
(* "The old codes no longer work": once new codes were made or two-factor  *)
(* sign-in was disabled, no code is left of a set that was complete        *)
(* before.  Sets whose making overlaps may both stay.                      *)
(***************************************************************************)
OldCodesGone ==
    \A v \in Visits : job[v] \in {"enrol", "regenerate", "disable"} /\ at[v] = "done" =>
        \A c \in Codes : c[1] \in ended[v] => codes[c] = "absent"

(***************************************************************************)
(* A suspension ends by a decision of staff: verifying the address never   *)
(* lifts it, except by a verification or a password reset that had read    *)
(* the account before it was suspended and saves what it read.             *)
(***************************************************************************)
SuspensionHolds ==
    [][state = "suspended" /\ state' # "suspended" =>
          \/ \E x \in States : SetState(x)
          \/ restored'
          \/ \E v \in Visits : at[v] = "verified" /\ Over(v)' /\ saw[v] # "suspended"
      ]_accountsVars
=============================================================================
