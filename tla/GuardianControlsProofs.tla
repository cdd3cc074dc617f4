----------------------- MODULE GuardianControlsProofs -----------------------
(***************************************************************************)
(* Theorems about GuardianControls, for any number of requests and         *)
(* addresses and for any forms.                                            *)
(***************************************************************************)
EXTENDS GuardianControls, TLAPS

(* A request sends at most one verification link, as the last thing.       *)
OneInvitation ==
    \A r \in Requests : stage[r] # "done" => invited[r] = NoGuardian

TypeInv == TypeOK /\ OneInvitation

LEMMA FormsFill ==
    ASSUME NEW p \in Profile, NEW f \in Form
    PROVE  Edited(p, f) \in Profile /\ Approved(p, f) \in Profile
BY DEF Profile, Form, Edited, Approved, Filled

(* What is read, and where a request goes on, is well typed.               *)
LEMMA TypeInvariant == Spec => []TypeInv
<1>1. Init => TypeInv
  <2> SUFFICES ASSUME Init PROVE TypeInv
    OBVIOUS
  <2>1. profile \in Profile /\ NewProfile \in Profile
    BY DEF Init, Profile, NewProfile, Guardians
  <2>2. invited \in [Senders -> Guardians]
    BY DEF Init, Guardians
  <2>3. Blank \in Form
    BY DEF Blank, Form, Guardians
  <2>4. change \in [Edits -> Change]
    BY <2>3 DEF Init, Change, Guardians
  <2>5. \A r \in Requests : invited[r] = NoGuardian /\ stage[r] = "new"
    BY GuardianAssumption DEF Init, Senders
  <2> QED
    BY <2>1, <2>2, <2>3, <2>4, <2>5
    DEF Init, TypeInv, TypeOK, OneInvitation, Stages, Senders, Requests
<1>2. TypeInv /\ [Next]_vars => TypeInv'
  <2> SUFFICES ASSUME TypeInv, [Next]_vars PROVE TypeInv'
    OBVIOUS
  <2> USE GuardianAssumption DEF TypeInv, TypeOK, OneInvitation, Goto, Requests, Senders
  <2>1. ASSUME NEW e \in Edits, Edit(e) PROVE TypeInv'
    BY <2>1 DEF Edit, Read, linkVars, Stages
  <2>2. ASSUME NEW e \in Edits, Save(e) PROVE TypeInv'
    <3>1. profile' \in Profile
      BY <2>2, FormsFill DEF Save
    <3>2. stage' \in [Requests -> Stages]
      BY <2>2 DEF Save, Stages
    <3> QED
      BY <2>2, <3>1, <3>2 DEF Save, linkVars
  <2>3. ASSUME NEW r \in Requests, NEW g \in Guardians, stage[r] = "invite", Invite(r, g)
        PROVE  TypeInv'
    <3>1. invited' \in [Senders -> Guardians]
      BY <2>3 DEF Invite
    <3>2. \A s \in Senders : invited[s] # NoGuardian => invited'[s] = invited[s]
      BY <2>3 DEF Invite
    <3>3. \A s \in Senders \ {r} : invited'[s] = invited[s]
      BY <2>3 DEF Invite
    <3>4. stage' = [stage EXCEPT ![r] = "done"]
      BY <2>3 DEF Invite
    <3>5. UNCHANGED <<profile, original, form, target, used, managers, change, misdirected>>
      BY <2>3 DEF Invite
    <3>6. ASSUME NEW v \in Visits, stage'[v] \in {"use", "verify"}
          PROVE  /\ original'[v].guardian \in Addresses
                 /\ invited'[target'[v]] = original'[v].guardian
      <4>1. stage[v] \in {"use", "verify"}
        BY <3>4, <3>6
      <4>2. invited[target[v]] = original[v].guardian /\ original[v].guardian \in Addresses
        BY <4>1
      <4> QED
        BY <4>2, <3>2, <3>5
    <3> QED
      BY <3>1, <3>3, <3>4, <3>5, <3>6 DEF Stages
  <2>4. ASSUME NEW e \in Edits, InviteNew(e) PROVE TypeInv'
    <3>1. form[e].guardian \in Guardians
      BY DEF Form
    <3> QED
      BY <2>3, <2>4, <3>1 DEF InviteNew
  <2>5. ASSUME NEW e \in Edits, Ask(e) PROVE TypeInv'
    <3>1. Edited(original[e], form[e]).guardian \in Guardians
      BY FormsFill DEF Profile
    <3>2. change' \in [Edits -> Change]
      BY <2>5, <3>1 DEF Ask, Change
    <3> QED
      BY <2>5, <3>2 DEF Ask, Stages
  <2>6. ASSUME NEW v \in Visits, VisitVerify(v) PROVE TypeInv'
    <3>1. profile.guardian \in Addresses
      BY <2>6 DEF VisitVerify, Profile, Guardians
    <3> QED
      BY <2>6, <3>1 DEF VisitVerify, Read, linkVars, Stages
  <2>7. ASSUME NEW v \in Visits, Use(v) PROVE TypeInv'
    BY <2>7 DEF Use, Stages
  <2>8. ASSUME NEW v \in Visits, Verify(v) PROVE TypeInv'
    <3>1. profile' \in Profile
      BY <2>8 DEF Verify, Profile
    <3> QED
      BY <2>8, <3>1 DEF Verify, linkVars, Stages
  <2>9. ASSUME NEW v \in Visits, GiveAccess(v) PROVE TypeInv'
    <3>1. managers' \subseteq Addresses
      BY <2>9 DEF GiveAccess, Profile, Guardians
    <3> QED
      BY <2>9, <3>1 DEF GiveAccess, Stages
  <2>10. ASSUME NEW v \in Visits, VisitChange(v) PROVE TypeInv'
    <3>1. profile.guardian \in Addresses
      BY <2>10 DEF VisitChange, Profile, Guardians
    <3> QED
      BY <2>10, <3>1 DEF VisitChange, Read, linkVars, Stages
  <2>11. ASSUME NEW v \in Visits, Apply(v) PROVE TypeInv'
    <3>1. change[target[v]].form \in Form
      BY <2>11 DEF Apply, Change
    <3>2. profile.lockBasic \in BOOLEAN /\ Approved(original[v], change[target[v]].form) \in Profile
      BY <3>1, FormsFill DEF Profile
    <3>3. profile' \in Profile
      BY <2>11, <3>2 DEF Apply, Profile
    <3> QED
      BY <2>11, <3>3 DEF Apply, linkVars, Stages
  <2>12. ASSUME NEW v \in Visits, Mark(v) PROVE TypeInv'
    <3>1. change' \in [Edits -> Change]
      BY <2>12 DEF Mark, Settle, Change
    <3> QED
      BY <2>12, <3>1 DEF Mark, Stages
  <2>13. ASSUME NEW v \in Visits, InviteNext(v) PROVE TypeInv'
    <3>1. change[target[v]].form.guardian \in Guardians
      BY <2>13 DEF InviteNext, Change, Form
    <3> QED
      BY <2>3, <2>13, <3>1 DEF InviteNext
  <2>14. ASSUME NEW v \in Visits, Reject(v) PROVE TypeInv'
    <3>1. change' \in [Edits -> Change]
      BY <2>14 DEF Reject, Settle, Change
    <3> QED
      BY <2>14, <3>1 DEF Reject, Stages
  <2>15. ASSUME NEW v \in Visits, VisitManage(v) PROVE TypeInv'
    BY <2>15 DEF VisitManage, Read, linkVars, Stages
  <2>16. ASSUME NEW v \in Visits, Manage(v) PROVE TypeInv'
    <3>1. profile' \in Profile
      BY <2>16 DEF Manage, Profile
    <3> QED
      BY <2>16, <3>1 DEF Manage, linkVars, Stages
  <2>17. ASSUME NEW r \in Requests, Die(r) PROVE TypeInv'
    BY <2>17 DEF Die, InFlight, linkVars, Stages
  <2>18. CASE UNCHANGED vars
    BY <2>18 DEF vars, linkVars
  <2>19. ASSUME NEW e \in Edits, Patch(e) PROVE TypeInv'
    <3>1. form' \in [Edits -> Form]
      BY <2>19 DEF Patch, Form
    <3> QED
      BY <2>19, <3>1 DEF Patch, Read, linkVars, Stages
  <2>20. ASSUME NEW e \in Edits, SavePatch(e) PROVE TypeInv'
    <3>1. profile' \in Profile
      BY <2>20 DEF SavePatch, Profile, Form
    <3> QED
      BY <2>20, <3>1 DEF SavePatch, linkVars, Stages
  <2> QED
    BY <2>1, <2>2, <2>4, <2>5, <2>6, <2>7, <2>8, <2>9, <2>10, <2>11, <2>12, <2>13,
       <2>14, <2>15, <2>16, <2>17, <2>18, <2>19, <2>20
    DEF Next, EditStep, VerifyStep, ChangeStep, ManageStep
<1> QED
  BY <1>1, <1>2, PTL DEF Spec

(* The state stays in its types, and a visit handles a link for the        *)
(* address that was in the profile it read (the views of apps/profiles).   *)
THEOREM TypeCorrect == Spec => []TypeOK
<1>1. TypeInv => TypeOK
  BY DEF TypeInv
<1> QED
  BY <1>1, TypeInvariant, PTL

-----------------------------------------------------------------------------

ConfirmedIfVerified(p) == p.verified => p.guardian \in Confirmed

(* A used link was sent to somebody.                                       *)
UsedWasSent == \A s \in used : invited[s] # NoGuardian

(* What is in the row, and what requests have read and will save.          *)
LinkInv ==
    /\ UsedWasSent
    /\ ~misdirected =>
          /\ ConfirmedIfVerified(profile)
          /\ \A r \in Requests : ConfirmedIfVerified(original[r])
          /\ \A v \in Visits :
                stage[v] = "verify" => original[v].guardian \in Confirmed

LEMMA FillingKeepsVerification ==
    ASSUME NEW p \in Profile, NEW f \in Form, ConfirmedIfVerified(p)
    PROVE  ConfirmedIfVerified(Edited(p, f)) /\ ConfirmedIfVerified(Approved(p, f))
BY DEF ConfirmedIfVerified, Edited, Approved, Filled, Profile, Form

(* Only an invitation writes a link, and only where there was none.        *)
LEMMA LinksStay ==
    ASSUME TypeInv, [Next]_vars
    PROVE  /\ used \subseteq used'
           /\ \A s \in Senders : invited[s] # NoGuardian => invited'[s] = invited[s]
<1> USE DEF TypeInv, TypeOK, OneInvitation, Requests, Senders
<1>1. ASSUME NEW r \in Requests, NEW g, stage[r] = "invite", Invite(r, g)
      PROVE  /\ used \subseteq used'
             /\ \A s \in Senders : invited[s] # NoGuardian => invited'[s] = invited[s]
  BY <1>1 DEF Invite
<1>2. ASSUME NEW e \in Edits, EditStep(e), ~InviteNew(e)
      PROVE  used' = used /\ invited' = invited
  BY <1>2 DEF EditStep, Edit, Save, Patch, SavePatch, Ask, linkVars
<1>3. ASSUME NEW v \in Visits, VerifyStep(v) \/ ChangeStep(v) \/ ManageStep(v), ~InviteNext(v)
      PROVE  used \subseteq used' /\ invited' = invited
  BY <1>3 DEF VerifyStep, VisitVerify, Use, Verify, GiveAccess, ChangeStep, VisitChange,
              Apply, Mark, Reject, ManageStep, VisitManage, Manage, linkVars
<1>4. ASSUME NEW r \in Requests, Die(r) PROVE used' = used /\ invited' = invited
  BY <1>4 DEF Die, linkVars
<1>5. UNCHANGED vars => used' = used /\ invited' = invited
  BY DEF vars, linkVars
<1> QED
  BY <1>1, <1>2, <1>3, <1>4, <1>5 DEF Next, InviteNew, InviteNext

LEMMA ConfirmedGrows ==
    ASSUME TypeInv, UsedWasSent, [Next]_vars
    PROVE  Confirmed \subseteq Confirmed'
<1>1. \A s \in used : s \in used' /\ invited'[s] = invited[s]
  BY LinksStay DEF TypeInv, TypeOK, UsedWasSent
<1> QED
  BY <1>1 DEF Confirmed

(* A step that leaves row, reads and links alone keeps LinkInv, unless it  *)
(* is about to verify.                                                     *)
LEMMA LinkInvKept ==
    ASSUME LinkInv, Confirmed \subseteq Confirmed', UsedWasSent',
           UNCHANGED <<profile, original, misdirected>>,
           \A v \in Visits : stage'[v] = "verify" => stage[v] = "verify"
    PROVE  LinkInv'
BY DEF LinkInv, ConfirmedIfVerified

LEMMA LinkInvariant == Spec => []LinkInv
<1>1. Init => LinkInv
  <2> SUFFICES ASSUME Init PROVE LinkInv
    OBVIOUS
  <2>1. ~profile.verified /\ \A r \in Requests : ~original[r].verified /\ stage[r] = "new"
    BY DEF Init, NewProfile
  <2>2. used = {}
    BY DEF Init
  <2> QED
    BY <2>1, <2>2 DEF LinkInv, ConfirmedIfVerified, UsedWasSent, Requests
<1>2. LinkInv /\ TypeInv /\ TypeInv' /\ [Next]_vars => LinkInv'
  <2> SUFFICES ASSUME LinkInv, TypeInv, TypeInv', [Next]_vars PROVE LinkInv'
    OBVIOUS
  <2>1. Confirmed \subseteq Confirmed' /\ UsedWasSent
    BY ConfirmedGrows DEF LinkInv
  <2>2. UsedWasSent'
    <3>1. ASSUME NEW s \in used PROVE invited'[s] # NoGuardian
      BY <2>1, LinksStay DEF TypeInv, TypeOK, UsedWasSent
    <3>2. ASSUME NEW v \in Visits, Use(v)
          PROVE  used' = used \union {target[v]} /\ invited'[target[v]] # NoGuardian
      BY <3>2, GuardianAssumption DEF Use, TypeInv, TypeOK
    <3>3. (\A v \in Visits : ~Use(v)) => used' = used
      BY DEF Next, EditStep, Edit, Save, Patch, SavePatch, InviteNew, Invite, Ask, VerifyStep, VisitVerify,
             Verify, GiveAccess, ChangeStep, VisitChange, Apply, Mark, InviteNext, Reject,
             ManageStep, VisitManage, Manage, Die, vars, linkVars
    <3> QED
      BY <3>1, <3>2, <3>3 DEF UsedWasSent
  <2> USE DEF TypeInv, TypeOK, Goto
  <2>3. ASSUME NEW r \in Requests, NEW label \in Stages, Read(r, label), label # "verify",
               UNCHANGED <<profile, misdirected>>
        PROVE  LinkInv'
    <3>1. original' = [original EXCEPT ![r] = profile]
      BY <2>3 DEF Read
    <3>2. \A v \in Visits : stage'[v] = "verify" => stage[v] = "verify" /\ v # r
      BY <2>3 DEF Read, Requests
    <3> QED
      BY <2>1, <2>2, <2>3, <3>1, <3>2 DEF LinkInv, ConfirmedIfVerified, Requests
  <2>4. ASSUME NEW e \in Edits, Edit(e) \/ Patch(e) PROVE LinkInv'
    BY <2>3, <2>4 DEF Edit, Patch, Requests, Stages
  <2>5. ASSUME NEW v \in Visits, VisitVerify(v) \/ VisitChange(v) \/ VisitManage(v)
        PROVE  LinkInv'
    BY <2>3, <2>5 DEF VisitVerify, VisitChange, VisitManage, Requests, Stages
  <2>6. ASSUME NEW p \in Profile, profile' = p, UNCHANGED <<original, misdirected>>,
               ~misdirected => ConfirmedIfVerified(p),
               \A v \in Visits : stage'[v] = "verify" => stage[v] = "verify"
        PROVE  LinkInv'
    BY <2>1, <2>2, <2>6 DEF LinkInv, ConfirmedIfVerified
  <2>7. ASSUME NEW e \in Edits, Save(e) PROVE LinkInv'
    <3>1. ~misdirected => ConfirmedIfVerified(Edited(original[e], form[e]))
      BY FillingKeepsVerification DEF LinkInv, Requests
    <3>2. \A v \in Visits : stage'[v] = "verify" => stage[v] = "verify"
      BY <2>7, GuardianAssumption DEF Save, Requests
    <3>3. Edited(original[e], form[e]) \in Profile
      BY FormsFill DEF Requests
    <3> QED
      BY <2>6, <2>7, <3>1, <3>2, <3>3 DEF Save
  <2>8. ASSUME NEW v \in Visits, Apply(v) PROVE LinkInv'
    <3> DEFINE filled == Approved(original[v], change[target[v]].form)
    <3>1. change[target[v]].form \in Form /\ original[v] \in Profile
      BY <2>8 DEF Apply, Change, Requests
    <3>2. filled \in Profile /\ (~misdirected => ConfirmedIfVerified(filled))
      BY <3>1, FormsFill, FillingKeepsVerification DEF LinkInv, Requests
    <3>3. profile' = [filled EXCEPT !.lockBasic = profile.lockBasic]
      BY <2>8 DEF Apply
    <3> HIDE DEF filled
    <3>4. ~misdirected => ConfirmedIfVerified(profile')
      BY <3>2, <3>3 DEF ConfirmedIfVerified, Profile
    <3>5. \A w \in Visits : stage'[w] = "verify" => stage[w] = "verify"
      BY <2>8 DEF Apply, Requests
    <3> QED
      BY <2>6, <2>8, <3>4, <3>5 DEF Apply
  <2>9. ASSUME NEW v \in Visits, Manage(v) PROVE LinkInv'
    <3>1. profile'.verified = profile.verified /\ profile'.guardian = profile.guardian
      BY <2>9 DEF Manage, Profile
    <3>2. \A w \in Visits : stage'[w] = "verify" => stage[w] = "verify"
      BY <2>9 DEF Manage, Requests
    <3> QED
      BY <2>6, <2>9, <3>1, <3>2 DEF Manage, LinkInv, ConfirmedIfVerified
  <2>10. ASSUME NEW v \in Visits, Use(v) PROVE LinkInv'
    <3>1. original[v].guardian \in Confirmed'
      BY <2>10 DEF Use, Confirmed
    <3>2. \A w \in Visits : stage'[w] = "verify" => stage[w] = "verify" \/ w = v
      BY <2>10 DEF Use, Requests
    <3> QED
      BY <2>1, <2>2, <2>10, <3>1, <3>2 DEF LinkInv, ConfirmedIfVerified, Use
  <2>11. ASSUME NEW v \in Visits, Verify(v) PROVE LinkInv'
    <3>1. ~misdirected' => ~misdirected /\ profile.guardian = original[v].guardian
      BY <2>11 DEF Verify
    <3>2. profile'.guardian = profile.guardian
      BY <2>11 DEF Verify, Profile
    <3>3. ~misdirected' => profile'.guardian \in Confirmed'
      BY <2>1, <2>11, <3>1, <3>2 DEF LinkInv, Verify
    <3>4. \A w \in Visits : stage'[w] = "verify" => stage[w] = "verify"
      BY <2>11 DEF Verify, Requests
    <3> QED
      BY <2>1, <2>2, <2>11, <3>1, <3>3, <3>4 DEF LinkInv, ConfirmedIfVerified, Verify
  <2>12. ASSUME NEW e \in Edits, InviteNew(e) \/ Ask(e) PROVE LinkInv'
    BY <2>1, <2>2, <2>12, LinkInvKept, GuardianAssumption
    DEF InviteNew, Invite, Ask, Requests
  <2>13. ASSUME NEW v \in Visits, GiveAccess(v) \/ Mark(v) \/ InviteNext(v) \/ Reject(v)
         PROVE  LinkInv'
    BY <2>1, <2>2, <2>13, LinkInvKept DEF GiveAccess, Mark, InviteNext, Invite, Reject, Requests
  <2>14. ASSUME NEW r \in Requests, Die(r) PROVE LinkInv'
    BY <2>1, <2>2, <2>14, LinkInvKept DEF Die, Requests
  <2>15. CASE UNCHANGED vars
    BY <2>1, <2>2, <2>15, LinkInvKept DEF vars
  <2>16. ASSUME NEW e \in Edits, SavePatch(e) PROVE LinkInv'
    <3>1. profile' = [original[e] EXCEPT !.private = form[e].private]
      BY <2>16 DEF SavePatch
    <3>2. /\ profile'.verified = original[e].verified
          /\ profile'.guardian = original[e].guardian
      BY <3>1 DEF Profile, Requests
    <3>3. ~misdirected => ConfirmedIfVerified(profile')
      BY <3>2 DEF LinkInv, ConfirmedIfVerified, Requests
    <3>4. \A v \in Visits : stage'[v] = "verify" => stage[v] = "verify"
      BY <2>16, GuardianAssumption DEF SavePatch, Requests
    <3> QED
      BY <2>6, <2>16, <3>3, <3>4 DEF SavePatch
  <2> QED
    BY <2>4, <2>5, <2>7, <2>8, <2>9, <2>10, <2>11, <2>12, <2>13, <2>14, <2>15, <2>16
    DEF Next, EditStep, VerifyStep, ChangeStep, ManageStep
<1> QED
  BY <1>1, <1>2, TypeInvariant, PTL DEF Spec

(* However edits, approvals and verifications overlap, an address counts   *)
(* as verified only if a link sent to it was followed                      *)
(* (guardian_email_verified_at in apps/profiles/views.py).                 *)
THEOREM VerificationIsEarned == Spec => []VerifiedByLink
<1>1. LinkInv => VerifiedByLink
  BY DEF LinkInv, VerifiedByLink, ConfirmedIfVerified
<1> QED
  BY <1>1, LinkInvariant, PTL

-----------------------------------------------------------------------------

(* A change request is written once, and is in the hands of the guardian   *)
(* it was sent to.                                                         *)
ChangeInv ==
    /\ \A e \in Edits : stage[e] # "done" => change[e].status = "none"
    /\ \A v \in Visits :
          stage[v] \in {"apply", "mark", "reject"} =>
             /\ change[target[v]].status # "none"
             /\ change[target[v]].to = original[v].guardian

LEMMA ChangeInvariant == Spec => []ChangeInv
<1>1. Init => ChangeInv
  BY DEF Init, ChangeInv, Requests
<1>2. ChangeInv /\ TypeInv /\ [Next]_vars => ChangeInv'
  <2> SUFFICES ASSUME ChangeInv, TypeInv, [Next]_vars PROVE ChangeInv'
    OBVIOUS
  <2> USE GuardianAssumption DEF ChangeInv, TypeInv, TypeOK, Goto, Requests
  <2>1. ASSUME NEW e \in Edits, Edit(e) \/ Save(e) \/ Patch(e) \/ SavePatch(e)
        PROVE  ChangeInv'
    BY <2>1 DEF Edit, Read, Save, Patch, SavePatch, linkVars
  <2>2. ASSUME NEW e \in Edits, Ask(e) PROVE ChangeInv'
    <3>1. \A v \in Visits : stage[v] \in {"apply", "mark", "reject"} => target[v] # e
      BY <2>2 DEF Ask
    <3>2. \A d \in Edits \ {e} : change'[d] = change[d]
      BY <2>2 DEF Ask
    <3> QED
      BY <2>2, <3>1, <3>2 DEF Ask
  <2>3. ASSUME NEW r \in Requests, NEW g, Invite(r, g) PROVE ChangeInv'
    BY <2>3 DEF Invite
  <2>4. ASSUME NEW v \in Visits, VerifyStep(v) PROVE ChangeInv'
    BY <2>4 DEF VerifyStep, VisitVerify, Read, Use, Verify, GiveAccess, linkVars
  <2>5. ASSUME NEW v \in Visits, VisitChange(v) PROVE ChangeInv'
    BY <2>5 DEF VisitChange, Read, linkVars
  <2>6. ASSUME NEW v \in Visits, Apply(v) PROVE ChangeInv'
    BY <2>6 DEF Apply, linkVars
  <2>7. ASSUME NEW v \in Visits, Mark(v) \/ Reject(v) PROVE ChangeInv'
    <3>1. PICK status \in {"applied", "rejected"} :
             change' = [change EXCEPT ![target[v]].status = status]
      BY <2>7 DEF Mark, Reject, Settle
    <3>2. target[v] \in Edits /\ change[target[v]] \in Change /\ stage[target[v]] = "done"
      BY <2>7 DEF Mark, Reject
    <3>3. change'[target[v]].status = status /\ change'[target[v]].to = change[target[v]].to
      BY <3>1, <3>2 DEF Change
    <3>4. \A e \in Edits \ {target[v]} : change'[e] = change[e]
      BY <3>1
    <3>5. UNCHANGED <<target, original>>
      BY <2>7 DEF Mark, Reject
    <3>6. PICK label \in {"invite", "done"} : stage' = [stage EXCEPT ![v] = label]
      BY <2>7 DEF Mark, Reject
    <3>7. ASSUME NEW e \in Edits, stage'[e] # "done" PROVE change'[e].status = "none"
      BY <3>2, <3>4, <3>6, <3>7
    <3>8. ASSUME NEW w \in Visits, stage'[w] \in {"apply", "mark", "reject"}
          PROVE  /\ change'[target'[w]].status # "none"
                 /\ change'[target'[w]].to = original'[w].guardian
      BY <3>3, <3>4, <3>5, <3>6, <3>8
    <3> QED
      BY <3>7, <3>8
  <2>8. ASSUME NEW r \in Requests, Die(r) PROVE ChangeInv'
    BY <2>8 DEF Die, linkVars
  <2>9. CASE UNCHANGED vars
    BY <2>9 DEF vars, linkVars
  <2>10. ASSUME NEW v \in Visits, ManageStep(v) PROVE ChangeInv'
    BY <2>10 DEF ManageStep, VisitManage, Read, Manage, linkVars
  <2> QED
    BY <2>1, <2>2, <2>3, <2>4, <2>5, <2>6, <2>7, <2>8, <2>9, <2>10
    DEF Next, EditStep, InviteNew, ChangeStep, InviteNext
<1> QED
  BY <1>1, <1>2, TypeInvariant, PTL DEF Spec

(* What a step does to a guarded profile.                                  *)
Protected ==
    Guarded(profile) =>
      \/ ApprovedStep
      \/ ManagedStep /\ profile' = [profile EXCEPT !.lockBasic = profile'.lockBasic]
      \/ SameProtections(profile, profile') /\ profile'.private = profile.private
      \/ \E e \in Edits :
            /\ SavedFrom(e, "save") \/ SavedFrom(e, "patch")
            /\ Guarded(original[e]) =>
                  /\ SameProtections(original[e], profile')
                  /\ profile'.private # original[e].private => SavedFrom(e, "patch")

(* The owner's requests put the locks of a guarded profile back as they    *)
(* read them, whatever their forms say and however requests overlap; the   *)
(* rest is the guardian's (edit_profile_view and                           *)
(* approve_parental_change_view in apps/profiles/views.py, and             *)
(* MyProfilePrivacyAPIView).                                               *)
THEOREM LocksHold == Spec => ProtectionsHold
<1>1. TypeInv /\ ChangeInv /\ [Next]_vars => Protected \/ UNCHANGED vars
  <2> SUFFICES ASSUME TypeInv, ChangeInv, Next, Guarded(profile) PROVE Protected
    BY DEF Protected
  <2> USE DEF TypeInv, TypeOK, Goto, Requests
  <2>1. CASE profile' = profile
    BY <2>1 DEF Protected, SameProtections
  <2>2. ASSUME NEW e \in Edits, Save(e) PROVE Protected
    <3>1. SavedFrom(e, "save")
      BY <2>2 DEF Save, SavedFrom
    <3>2. ASSUME Guarded(original[e])
          PROVE  SameProtections(original[e], profile')
                 /\ profile'.private = original[e].private
      <4>1. profile' = [original[e] EXCEPT
               !.basic = IF original[e].lockBasic THEN original[e].basic ELSE form[e].basic]
        BY <2>2, <3>2 DEF Save, Edited
      <4> QED
        BY <4>1 DEF SameProtections, Profile
    <3> QED
      BY <3>1, <3>2 DEF Protected
  <2>3. ASSUME NEW e \in Edits, SavePatch(e) PROVE Protected
    <3>1. SavedFrom(e, "patch")
      BY <2>3 DEF SavePatch, SavedFrom
    <3>2. SameProtections(original[e], profile')
      BY <2>3 DEF SavePatch, SameProtections, Profile
    <3> QED
      BY <3>1, <3>2 DEF Protected
  <2>4. ASSUME NEW v \in Visits, Verify(v) PROVE Protected
    <3>1. SameProtections(profile, profile') /\ profile'.private = profile.private
      BY <2>4 DEF Verify, SameProtections, Profile
    <3> QED
      BY <3>1 DEF Protected
  <2>5. ASSUME NEW v \in Visits, Apply(v) PROVE Protected
    <3>1. stage[v] = "apply" /\ stage'[v] = "mark"
      BY <2>5 DEF Apply
    <3>2. ApprovedStep
      BY <3>1 DEF ApprovedStep, ChangeInv
    <3> QED
      BY <3>2 DEF Protected
  <2>6. ASSUME NEW v \in Visits, Manage(v) PROVE Protected
    <3>1. ManagedStep
      BY <2>6 DEF Manage, ManagedStep
    <3>2. profile' = [profile EXCEPT !.lockBasic = profile'.lockBasic]
      BY <2>6 DEF Manage, Profile
    <3> QED
      BY <3>1, <3>2 DEF Protected
  <2> QED
    BY <2>1, <2>2, <2>3, <2>4, <2>5, <2>6
    DEF Next, EditStep, Edit, Patch, InviteNew, Invite, Ask, VerifyStep, VisitVerify,
        Use, GiveAccess, ChangeStep, VisitChange, Mark, InviteNext, Reject, ManageStep,
        VisitManage, Die
<1>2. TypeInv /\ ChangeInv /\ [Next]_vars => [Protected]_vars
  BY <1>1
<1> QED
  BY <1>2, TypeInvariant, ChangeInvariant, PTL DEF Spec, ProtectionsHold, Protected
=============================================================================
