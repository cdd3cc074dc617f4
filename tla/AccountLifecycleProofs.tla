----------------------- MODULE AccountLifecycleProofs -----------------------
(***************************************************************************)
(* Theorems about AccountLifecycle and, from AccountsCases on, about its   *)
(* composition with sign-in, for any number of requests, links, visits,    *)
(* browsers and codes in a set, any retention windows and any scenarios.   *)
(***************************************************************************)
EXTENDS Accounts, TLAPS

LEMMA TypeInit == Init => TypeOK
<1>1. Init => account \in Account
  BY DEF Init, Account, Dates
<1>2. Init => expires \in [Senders -> Dates]
  BY DEF Init, Dates
<1>3. Init => /\ stage \in [Requests -> Stages]
              /\ link \in [Clicks -> Senders \union {Never}]
              /\ \A c \in Clicks :
                    stage[c] \in {"consume", "recover"} <=> link[c] # Never
  BY DEF Init, Stages, Ended, Requests
<1>4. Init => /\ now \in 0..MaxTime
              /\ purgeTime \in 0..MaxTime
              /\ faults \in 0..MaxFaults
  BY TimeAssumption DEF Init
<1> QED
  BY <1>1, <1>2, <1>3, <1>4 DEF Init, TypeOK

LEMMA TypeStep ==
    TypeOK /\ [Next]_vars => TypeOK'
<1> SUFFICES ASSUME TypeOK, [Next]_vars PROVE TypeOK'
  OBVIOUS
<1> USE RequestAssumption, TimeAssumption
    DEF TypeOK, Stages, Ended, Requests, Senders, Goto
<1>1. ASSUME NEW r \in Leaves, Leave(r) PROVE TypeOK'
  BY <1>1 DEF Leave, purgeVars
<1>2. ASSUME NEW r \in Supports, Support(r) PROVE TypeOK'
  BY <1>2 DEF Support, purgeVars
<1>3. ASSUME NEW r \in Leaves, SaveLeave(r) PROVE TypeOK'
  <2>1. Kind[r] \in Kinds /\ now + Retention[Kind[r]] \in Nat
    BY DEF Kinds
  <2>2. account' \in Account
    BY <1>3, <2>1 DEF SaveLeave, Left, Account, Dates
  <2> QED
    BY <1>3, <2>2 DEF SaveLeave, purgeVars
<1>4. ASSUME NEW r \in Senders, SendLink(r) PROVE TypeOK'
  <2>1. now + Ttl(Kind[r]) \in Dates
    BY DEF Ttl, Larger, Dates, Kinds
  <2>2. /\ expires' \in [Senders -> Dates]
        /\ mailed' \subseteq Senders
        /\ faults' \in 0..MaxFaults
    BY <1>4, <2>1 DEF SendLink, SendMail
  <2> QED
    BY <1>4, <2>2 DEF SendLink, purgeVars
<1>5. ASSUME NEW c \in Clicks, Click(c) PROVE TypeOK'
  BY <1>5 DEF Click, purgeVars
<1>6. ASSUME NEW c \in Clicks, Consume(c) PROVE TypeOK'
  BY <1>6 DEF Consume, purgeVars
<1>7. ASSUME NEW c \in Clicks, Recover(c) PROVE TypeOK'
  <2>1. account' \in Account
    BY <1>7 DEF Recover, Restored, Account, Dates
  <2> QED
    BY <1>7, <2>1 DEF Recover, purgeVars
<1>8. ASSUME NEW r \in Requests, Fail(r) PROVE TypeOK'
  BY <1>8 DEF Fail, purgeVars
<1>9. ASSUME NEW r \in Requests, Die(r) PROVE TypeOK'
  BY <1>9 DEF Die, InFlight, purgeVars
<1>10. CASE PickDeletions
  BY <1>10 DEF PickDeletions, requestVars
<1>11. CASE PickDeactivations
  <2>1. picked' \in BOOLEAN
    BY <1>11 DEF PickDeactivations
  <2> QED
    BY <1>11, <2>1 DEF PickDeactivations, requestVars
<1>12. CASE Remove
  <2>1. account' \in Account
    BY <1>12 DEF Remove, Account
  <2>2. expires' \in [Senders -> Dates]
    BY <1>12 DEF Remove, Dates
  <2>3. UNCHANGED <<now, used, mailed, stage, link, purgeTime, late, faults,
                    recovered>>
    BY <1>12 DEF Remove
  <2>4. purge' \in {"idle", "scan", "remove"} /\ picked' \in BOOLEAN
    BY <1>12 DEF Remove
  <2> HIDE DEF Stages, Ended, Requests, Senders
  <2> QED
    BY <2>1, <2>2, <2>3, <2>4
<1>13. CASE PurgeDies
  <2>1. picked' \in BOOLEAN
    BY <1>13 DEF PurgeDies
  <2>2. purgeTime' \in 0..MaxTime /\ faults' \in 0..MaxFaults
    BY <1>13 DEF PurgeDies
  <2> QED
    BY <1>13, <2>1, <2>2 DEF PurgeDies, requestVars
<1>14. CASE Tick
  BY <1>14 DEF Tick, Running, InFlight, requestVars, purgeVars
<1>15. CASE UNCHANGED vars
  BY <1>15 DEF vars, requestVars, purgeVars
<1> QED
  BY <1>1, <1>2, <1>3, <1>4, <1>5, <1>6, <1>7, <1>8, <1>9, <1>10, <1>11,
     <1>12, <1>13, <1>14, <1>15 DEF Next, Continue, Purge

(* The state stays in its types, and a click holds a token exactly while   *)
(* it is handled (the objects the views of apps/accounts hold).            *)
THEOREM TypeCorrect == Spec => []TypeOK
<1>1. Init => TypeOK
  BY TypeInit
<1>2. TypeOK /\ [Next]_vars => TypeOK'
  BY TypeStep
<1> QED
  BY <1>1, <1>2, PTL DEF Spec

-----------------------------------------------------------------------------

(***************************************************************************)
(* What the purge relies on: an account in use has no date of deletion (a  *)
(* deactivation date it may have), and the ids it holds are never those of *)
(* an account that was recovered before they were collected.               *)
(***************************************************************************)
PurgeDates ==
    /\ account.exists /\ account.active => account.deleteAt = Never
    /\ purge = "remove" => picked
    /\ purge = "idle" => ~picked

PurgeInv ==
    /\ PurgeDates
    /\ recovered => account.active /\ ~picked

LEMMA DatesStep ==
    TypeOK /\ PurgeDates /\ [Next]_vars => PurgeDates'
<1> SUFFICES ASSUME TypeOK, PurgeDates, [Next]_vars PROVE PurgeDates'
  OBVIOUS
<1> USE DEF PurgeDates
<1>1. ASSUME NEW r \in Leaves, SaveLeave(r) PROVE PurgeDates'
  BY <1>1 DEF SaveLeave, Left, purgeVars, TypeOK, Account
<1>2. ASSUME NEW c \in Clicks, Recover(c) PROVE PurgeDates'
  BY <1>2 DEF Recover, Restored, purgeVars, TypeOK, Account
<1>3. CASE PickDeletions
  BY <1>3 DEF PickDeletions
<1>4. CASE PickDeactivations
  BY <1>4 DEF PickDeactivations
<1>5. CASE Remove
  BY <1>5 DEF Remove, TypeOK, Account
<1>6. CASE PurgeDies
  BY <1>6 DEF PurgeDies
<1>7. ASSUME UNCHANGED <<account, purge, picked>> PROVE PurgeDates'
  BY <1>7
<1> QED
  BY <1>1, <1>2, <1>3, <1>4, <1>5, <1>6, <1>7
  DEF Next, Continue, Purge, vars, purgeVars, Leave, Support, SendLink, Click,
      Consume, Fail, Die, Tick

LEMMA PurgeStep ==
    TypeOK /\ PurgeInv /\ [Next]_vars => PurgeInv'
<1> SUFFICES ASSUME TypeOK, PurgeInv, [Next]_vars PROVE PurgeInv'
  OBVIOUS
<1> USE DEF PurgeInv
<1>0. PurgeDates'
  BY DatesStep
<1>1. ASSUME NEW r \in Leaves, SaveLeave(r) PROVE PurgeInv'
  BY <1>0, <1>1 DEF SaveLeave, Left, purgeVars, TypeOK, Account
<1>2. ASSUME NEW c \in Clicks, Recover(c) PROVE PurgeInv'
  BY <1>0, <1>2 DEF Recover, Restored, purgeVars, TypeOK, Account
<1>3. CASE PickDeletions
  BY <1>0, <1>3 DEF PurgeDates, PickDeletions, requestVars, TypeOK
<1>4. CASE PickDeactivations
  BY <1>0, <1>4 DEF PurgeDates, PickDeactivations, Abandoned, requestVars, TypeOK
<1>5. CASE Remove
  BY <1>0, <1>5 DEF Remove, TypeOK, Account
<1>6. CASE PurgeDies
  BY <1>0, <1>6 DEF PurgeDies, requestVars
<1>7. ASSUME UNCHANGED <<account, recovered, purge, picked>> PROVE PurgeInv'
  BY <1>0, <1>7
<1> QED
  BY <1>1, <1>2, <1>3, <1>4, <1>5, <1>6, <1>7
  DEF Next, Continue, Purge, vars, purgeVars, Leave, Support, SendLink, Click,
      Consume, Fail, Die, Tick

THEOREM PurgeInvariant == Spec => []PurgeInv
<1>1. Init => PurgeInv
  BY DEF Init, PurgeInv, PurgeDates
<1>2. TypeOK /\ PurgeInv /\ [Next]_vars => PurgeInv'
  BY PurgeStep
<1> QED
  BY <1>1, <1>2, TypeCorrect, PTL DEF Spec

LEMMA SparedStep ==
    TypeOK /\ PurgeInv /\ [Next]_vars
      => [account.exists /\ ~account'.exists => ~recovered]_vars
<1> SUFFICES ASSUME TypeOK, PurgeInv, Next, account.exists, ~account'.exists
             PROVE  ~recovered
  OBVIOUS
<1>1. CASE Remove
  BY <1>1 DEF Remove, PurgeInv, PurgeDates
<1>2. ASSUME NEW r \in Leaves, SaveLeave(r) PROVE account'.exists
  BY <1>2 DEF SaveLeave, Left, TypeOK, Account
<1>3. ASSUME NEW c \in Clicks, Recover(c) PROVE account'.exists
  BY <1>3 DEF Recover, Restored, TypeOK, Account
<1> QED
  BY <1>1, <1>2, <1>3
  DEF Next, Continue, Purge, Leave, Support, SendLink, Click, Consume, Fail, Die,
      PickDeletions, PickDeactivations, PurgeDies, Tick

(* The purge spares an account whose owner took the leaving back in time   *)
(* (purge_expired_accounts in apps/accounts/services.py).                  *)
THEOREM PurgeSparesTheRecovered == Spec => RecoveredIsSpared
  BY SparedStep, TypeCorrect, PurgeInvariant, PTL DEF Spec, RecoveredIsSpared

-----------------------------------------------------------------------------

(* A link is used only after it was mailed, and mailed only by a request    *)
(* that is done: what a request still sends is a link nobody has used.     *)
LinkInv ==
    /\ used \subseteq mailed
    /\ \A c \in Clicks : link[c] # Never => link[c] \in mailed
    /\ \A t \in mailed : stage[t] = "done"

LEMMA LinkStep ==
    TypeOK /\ LinkInv /\ [Next]_vars => LinkInv'
<1> SUFFICES ASSUME TypeOK, LinkInv, [Next]_vars PROVE LinkInv'
  OBVIOUS
<1> USE RequestAssumption DEF TypeOK, LinkInv, Requests, Senders, Goto
<1>1. ASSUME NEW r \in Leaves, Leave(r) PROVE LinkInv'
  BY <1>1 DEF Leave
<1>2. ASSUME NEW r \in Supports, Support(r) PROVE LinkInv'
  BY <1>2 DEF Support
<1>3. ASSUME NEW r \in Leaves, SaveLeave(r) PROVE LinkInv'
  BY <1>3 DEF SaveLeave
<1>4. ASSUME NEW r \in Senders, SendLink(r) PROVE LinkInv'
  BY <1>4 DEF SendLink, SendMail
<1>5. ASSUME NEW c \in Clicks, Click(c) PROVE LinkInv'
  BY <1>5 DEF Click
<1>6. ASSUME NEW c \in Clicks, Consume(c) PROVE LinkInv'
  BY <1>6 DEF Consume
<1>7. ASSUME NEW c \in Clicks, Recover(c) PROVE LinkInv'
  BY <1>7 DEF Recover
<1>8. ASSUME NEW r \in Requests, Fail(r) PROVE LinkInv'
  BY <1>8 DEF Fail
<1>9. ASSUME NEW r \in Requests, Die(r) PROVE LinkInv'
  BY <1>9 DEF Die, InFlight, Ended
<1>10. ASSUME UNCHANGED <<used, mailed, link, stage>> PROVE LinkInv'
  BY <1>10
<1> QED
  BY <1>1, <1>2, <1>3, <1>4, <1>5, <1>6, <1>7, <1>8, <1>9, <1>10
  DEF Next, Continue, Purge, vars, requestVars, PickDeletions,
      PickDeactivations, Remove, PurgeDies, Tick

THEOREM LinkInvariant == Spec => []LinkInv
<1>1. Init => LinkInv
  BY DEF Init, LinkInv
<1>2. TypeOK /\ LinkInv /\ [Next]_vars => LinkInv'
  BY LinkStep
<1> QED
  BY <1>1, <1>2, TypeCorrect, PTL DEF Spec

(* The way back from leaving by k before the date d: a request about to    *)
(* send a link that lasts long enough, such a link, or one being used.     *)
WayBack(k, d) ==
    \/ \E r \in Leaves : stage[r] = "token" /\ Kind[r] = k
                                            /\ d <= now + Retention[k]
    \/ \E t \in mailed \ used : expires[t] # Never /\ d <= expires[t]
    \/ \E c \in Clicks : stage[c] = "recover"

(***************************************************************************)
(* Of an account that was left, the kind of leaving whose date the purge   *)
(* goes by has a way back.  A second leaving of the other kind, an unused  *)
(* date that a cancelled deletion left behind and links that are used up   *)
(* at the same time are what makes this stronger than RecoverableInTime.   *)
(***************************************************************************)
RecoveryInv ==
    account.exists /\ ~account.active /\ faults = 0 =>
        IF account.deleteAt # Never THEN WayBack("delete", account.deleteAt)
        ELSE account.recoverBy # Never /\ WayBack("deactivate", account.recoverBy)

(* A step that keeps the account, the links and the requests about to send *)
(* one or to recover keeps the way back.                                   *)
LEMMA WayBackKept ==
    ASSUME TypeOK, NEW k \in Kinds, NEW d \in Nat, WayBack(k, d),
           now' \in Nat, now <= now',
           \A r \in Leaves : stage[r] = "token" => stage'[r] = "token",
           \A c \in Clicks : stage[c] = "recover" => stage'[c] = "recover",
           mailed' = mailed, expires' = expires,
           \A t \in used' \ used : \E c \in Clicks : stage'[c] = "recover"
    PROVE  WayBack(k, d)'
<1>1. CASE \E r \in Leaves : stage[r] = "token" /\ Kind[r] = k
                                               /\ d <= now + Retention[k]
  BY <1>1, TimeAssumption DEF WayBack, TypeOK
<1>2. CASE \E t \in mailed \ used : expires[t] # Never /\ d <= expires[t]
  BY <1>2 DEF WayBack
<1>3. CASE \E c \in Clicks : stage[c] = "recover"
  BY <1>3 DEF WayBack
<1> QED
  BY <1>1, <1>2, <1>3 DEF WayBack

LEMMA RecoveryKept ==
    ASSUME TypeOK, RecoveryInv, account' = account, faults = 0,
           now' \in Nat, now <= now',
           \A r \in Leaves : stage[r] = "token" => stage'[r] = "token",
           \A c \in Clicks : stage[c] = "recover" => stage'[c] = "recover",
           mailed' = mailed, expires' = expires,
           \A t \in used' \ used : \E c \in Clicks : stage'[c] = "recover"
    PROVE  RecoveryInv'
<1> SUFFICES ASSUME account.exists, ~account.active
             PROVE  RecoveryInv'
  BY DEF RecoveryInv
<1>1. CASE account.deleteAt # Never
  <2>1. PICK d \in Nat : d = account.deleteAt
    BY <1>1 DEF TypeOK, Account, Dates
  <2>2. WayBack("delete", d)
    BY <1>1, <2>1 DEF RecoveryInv
  <2>3. WayBack("delete", d)'
    BY <2>2, WayBackKept DEF Kinds
  <2> QED
    BY <1>1, <2>1, <2>3 DEF RecoveryInv
<1>2. CASE account.deleteAt = Never
  <2>1. account.recoverBy # Never
    BY <1>2 DEF RecoveryInv
  <2>2. PICK d \in Nat : d = account.recoverBy
    BY <2>1 DEF TypeOK, Account, Dates
  <2>3. WayBack("deactivate", d)
    BY <1>2, <2>2 DEF RecoveryInv
  <2>4. WayBack("deactivate", d)'
    BY <2>3, WayBackKept DEF Kinds
  <2> QED
    BY <1>2, <2>1, <2>2, <2>4 DEF RecoveryInv
<1> QED
  BY <1>1, <1>2

(* The link a leaving sends replaces the request as the way back.          *)
LEMMA WayBackSent ==
    ASSUME TypeOK, NEW k \in Kinds, NEW d \in Nat, WayBack(k, d),
           NEW r \in Senders, SendLink(r), faults' = faults, LinkInv
    PROVE  WayBack(k, d)'
<1> USE RequestAssumption, TimeAssumption DEF TypeOK, Requests, Senders, Goto
<1>1. /\ mailed' = mailed \union {r}
      /\ used' = used
      /\ now' = now
      /\ expires' = [expires EXCEPT ![r] = now + Ttl(Kind[r])]
      /\ stage' = [stage EXCEPT ![r] = "done"]
  BY DEF SendLink, SendMail
<1>2. /\ Retention[Kind[r]] \in Nat
      /\ now + Ttl(Kind[r]) \in Nat
      /\ now + Retention[Kind[r]] <= now + Ttl(Kind[r])
  BY DEF Ttl, Larger, Kinds
<1>3. ASSUME NEW q \in Leaves, stage[q] = "token", Kind[q] = k,
             d <= now + Retention[k]
      PROVE  WayBack(k, d)'
  <2>1. CASE q = r
    <3>1. r \notin used
      BY <1>3, <2>1 DEF LinkInv
    <3>2. r \in mailed' \ used'
      BY <1>1, <3>1
    <3>3. expires'[r] = now + Ttl(Kind[r])
      BY <1>1
    <3>4. expires'[r] # Never /\ d <= expires'[r]
      BY <1>2, <1>3, <2>1, <3>3
    <3> QED
      BY <3>2, <3>4 DEF WayBack
  <2>2. CASE q # r
    BY <1>1, <1>3, <2>2 DEF WayBack
  <2> QED
    BY <2>1, <2>2
<1>4. ASSUME NEW t \in mailed \ used, expires[t] # Never, d <= expires[t]
      PROVE  WayBack(k, d)'
  <2>1. t # r
    BY DEF LinkInv, SendLink
  <2> QED
    BY <1>1, <1>4, <2>1 DEF WayBack
<1>5. ASSUME NEW c \in Clicks, stage[c] = "recover" PROVE WayBack(k, d)'
  BY <1>1, <1>5 DEF WayBack
<1> QED
  BY <1>3, <1>4, <1>5 DEF WayBack

LEMMA RecoveryStep ==
    TypeOK /\ PurgeDates /\ LinkInv /\ RecoveryInv /\ [Next]_vars => RecoveryInv'
<1> SUFFICES ASSUME TypeOK, PurgeDates, LinkInv, RecoveryInv, [Next]_vars,
                    account'.exists, ~account'.active, faults' = 0
             PROVE  RecoveryInv'
  BY DEF RecoveryInv
<1> USE RequestAssumption DEF Requests, Senders
<1>1. ASSUME NEW r \in Leaves, SaveLeave(r) PROVE RecoveryInv'
  <2>1. /\ account.exists
        /\ account' = Left(Kind[r])
        /\ stage' = [stage EXCEPT ![r] = "token"]
        /\ UNCHANGED <<now, mailed, used, expires, faults>>
    BY <1>1 DEF SaveLeave, Goto
  <2>2. Kind[r] \in Kinds /\ now + Retention[Kind[r]] \in Nat
    BY TimeAssumption DEF TypeOK, Kinds
  <2>3. WayBack(Kind[r], now + Retention[Kind[r]])'
    BY <2>1, <2>2 DEF WayBack, TypeOK
  <2>4. CASE Kind[r] = "delete"
    <3>1. account'.deleteAt = now + Retention[Kind[r]]
      BY <2>1, <2>4 DEF Left, TypeOK, Account
    <3> QED
      BY <2>1, <2>2, <2>3, <2>4, <3>1, TimeAssumption DEF RecoveryInv
  <2>5. CASE Kind[r] = "deactivate" /\ account.deleteAt = Never
    <3>1. /\ account'.deleteAt = Never
          /\ account'.recoverBy = now + Retention[Kind[r]]
      BY <2>1, <2>5 DEF Left, TypeOK, Account
    <3> QED
      BY <2>1, <2>2, <2>3, <2>5, <3>1, TimeAssumption DEF RecoveryInv
  <2>6. CASE Kind[r] = "deactivate" /\ account.deleteAt # Never
    <3>1. account'.deleteAt = account.deleteAt
      BY <2>1, <2>6 DEF Left, TypeOK, Account
    <3>2. ~account.active
      BY <2>1, <2>6 DEF PurgeDates
    <3>3. PICK d \in Nat : d = account.deleteAt
      BY <2>6 DEF TypeOK, Account, Dates
    <3>4. WayBack("delete", d)
      BY <2>1, <2>6, <3>2, <3>3 DEF RecoveryInv
    <3>5. WayBack("delete", d)'
      <4>1. \A q \in Leaves : stage[q] = "token" => stage'[q] = "token"
        BY <2>1 DEF TypeOK
      <4>2. \A c \in Clicks : stage[c] = "recover" => stage'[c] = "recover"
        BY <2>1 DEF TypeOK
      <4> QED
        BY <2>1, <3>4, <4>1, <4>2, WayBackKept DEF TypeOK, Kinds
    <3> QED
      BY <2>6, <3>1, <3>3, <3>5 DEF RecoveryInv
  <2> QED
    BY <2>2, <2>4, <2>5, <2>6 DEF Kinds
<1>2. ASSUME NEW r \in Senders, SendLink(r) PROVE RecoveryInv'
  <2>1. account' = account /\ faults = 0 /\ faults' = faults
    BY <1>2 DEF SendLink, SendMail, TypeOK
  <2>2. CASE account.deleteAt # Never
    <3>1. PICK d \in Nat : d = account.deleteAt
      BY <2>2 DEF TypeOK, Account, Dates
    <3>2. WayBack("delete", d)
      BY <2>1, <2>2, <3>1 DEF RecoveryInv
    <3>3. WayBack("delete", d)'
      BY <1>2, <2>1, <3>2, WayBackSent DEF Kinds
    <3> QED
      BY <2>1, <2>2, <3>1, <3>3 DEF RecoveryInv
  <2>3. CASE account.deleteAt = Never
    <3>1. account.recoverBy # Never
      BY <2>1, <2>3 DEF RecoveryInv
    <3>2. PICK d \in Nat : d = account.recoverBy
      BY <3>1 DEF TypeOK, Account, Dates
    <3>3. WayBack("deactivate", d)
      BY <2>1, <2>3, <3>2 DEF RecoveryInv
    <3>4. WayBack("deactivate", d)'
      BY <1>2, <2>1, <3>3, WayBackSent DEF Kinds
    <3> QED
      BY <2>1, <2>3, <3>1, <3>2, <3>4 DEF RecoveryInv
  <2> QED
    BY <2>2, <2>3
<1>3. ASSUME NEW r \in Leaves, Leave(r) PROVE RecoveryInv'
  BY <1>3, RecoveryKept DEF Leave, Goto, TypeOK
<1>4. ASSUME NEW r \in Supports, Support(r) PROVE RecoveryInv'
  BY <1>4, RecoveryKept DEF Support, Goto, TypeOK
<1>5. ASSUME NEW c \in Clicks, Click(c) PROVE RecoveryInv'
  BY <1>5, RecoveryKept DEF Click, Goto, TypeOK
<1>6. ASSUME NEW c \in Clicks, Consume(c) PROVE RecoveryInv'
  BY <1>6, RecoveryKept DEF Consume, Goto, TypeOK
<1>7. ASSUME NEW c \in Clicks, Recover(c) PROVE RecoveryInv'
  BY <1>7 DEF Recover, Restored, TypeOK, Account
<1>8. ASSUME NEW r \in Requests, Fail(r) PROVE RecoveryInv'
  BY <1>8 DEF Fail
<1>9. ASSUME NEW r \in Requests, Die(r) PROVE RecoveryInv'
  BY <1>9 DEF Die, TypeOK
<1>10. CASE Remove
  BY <1>10 DEF Remove, TypeOK, Account
<1>11. CASE PurgeDies
  BY <1>11 DEF PurgeDies, TypeOK
<1>12. CASE PickDeletions \/ PickDeactivations \/ Tick \/ UNCHANGED vars
  <2>1. /\ now' \in Nat /\ now <= now'
        /\ UNCHANGED <<account, stage, mailed, used, expires, faults>>
    BY <1>12 DEF PickDeletions, PickDeactivations, Tick, vars, requestVars, TypeOK
  <2> QED
    BY <2>1, RecoveryKept
<1> QED
  BY <1>1, <1>2, <1>3, <1>4, <1>5, <1>6, <1>7, <1>8, <1>9, <1>10, <1>11, <1>12
  DEF Next, Continue, Purge

THEOREM RecoveryInvariant == Spec => []RecoveryInv
<1>1. Init => RecoveryInv
  BY DEF Init, RecoveryInv
<1>2. TypeOK /\ PurgeInv /\ LinkInv /\ RecoveryInv /\ [Next]_vars => RecoveryInv'
  BY RecoveryStep DEF PurgeInv
<1> QED
  BY <1>1, <1>2, TypeCorrect, PurgeInvariant, LinkInvariant, PTL DEF Spec

LEMMA RecoverableFromInv ==
    TypeOK /\ RecoveryInv => RecoverableInTime
<1> SUFFICES ASSUME TypeOK, RecoveryInv, account.exists, ~account.active,
                    faults = 0, now <= Deadline, ~LinkUnderWay
             PROVE  \E t \in mailed : Usable(t)
  BY DEF RecoverableInTime
<1>1. PICK k \in Kinds : Deadline \in Nat /\ WayBack(k, Deadline)
  BY DEF RecoveryInv, Deadline, Kinds, TypeOK, Account, Dates
<1>2. PICK t \in mailed \ used : expires[t] # Never /\ Deadline <= expires[t]
  BY <1>1 DEF WayBack, LinkUnderWay
<1>3. expires[t] \in Nat /\ now \in Nat
  BY <1>2 DEF TypeOK, Dates
<1> QED
  BY <1>1, <1>2, <1>3 DEF Usable

(* The account can be recovered until the date the purge goes by, for any  *)
(* windows and however the owner's requests overlap                        *)
(* (account_lifecycle_view in apps/accounts/views.py).                     *)
THEOREM OwnerCanRecover == Spec => []RecoverableInTime
  BY RecoverableFromInv, TypeCorrect, RecoveryInvariant, PTL

-----------------------------------------------------------------------------
(***************************************************************************)
(* The composition: Accounts.  A step of it leaves the lifecycle alone, or *)
(* is one of its steps, or is a password reset that saves a row it read.   *)
(***************************************************************************)
LEMMA AccountsCases ==
    ASSUME undone \in BOOLEAN, [AccountsNext]_accountsVars
    PROVE  \/ [Next]_vars /\ UNCHANGED read /\ (undone' = undone \/ Recovers)
           \/ \E v \in Visits : Reset(v)
           \/ \E v \in Visits : SavePassword(v)
<1>1. CASE Lifecycle
  BY <1>1 DEF Lifecycle, Around, Next
<1>2. CASE Access
  BY <1>2 DEF Access
<1>3. CASE Expected # {} /\ Reset(NextVisit)
  <2>1. NextVisit \in Visits
    BY <1>3 DEF Expected, NextVisit
  <2> QED
    BY <1>3, <2>1
<1> QED
  BY <1>1, <1>2, <1>3 DEF AccountsNext, accountsVars

(* What a reset may write back: the row of an account that was there.      *)
ReadInv ==
    /\ DOMAIN read = Visits
    /\ \A v \in Visits :
          /\ read[v].account \in Account
          /\ read[v].account.exists
          /\ read[v].account.active => read[v].account.deleteAt = Never

(* What is left of PurgeInv where a reset may undo a recovery.             *)
KeptInv ==
    /\ undone \in BOOLEAN
    /\ recovered /\ ~undone => account.active /\ ~picked

LifecycleInv ==
    TypeOK /\ PurgeDates /\ KeptInv /\ LinkInv /\ RecoveryInv /\ ReadInv

LEMMA ReadStep ==
    ASSUME TypeOK, PurgeDates, KeptInv, ReadInv, [AccountsNext]_accountsVars
    PROVE  ReadInv'
<1>1. ASSUME NEW v \in Visits, Reset(v) PROVE ReadInv'
  <2>1. read' = [read EXCEPT ![v] = UserRow] /\ account.exists
    BY <1>1 DEF Reset
  <2>2. /\ UserRow.account = account /\ account \in Account
        /\ account.active => account.deleteAt = Never
    BY <2>1 DEF UserRow, TypeOK, PurgeDates
  <2> QED
    BY <2>1, <2>2 DEF ReadInv
<1>2. CASE UNCHANGED read
  BY <1>2 DEF ReadInv
<1> QED
  BY <1>1, <1>2, AccountsCases DEF SavePassword, KeptInv

(* Only a link back takes an undone recovery up again, and it makes the    *)
(* account one in use.                                                     *)
LEMMA RecoversOnly ==
    ASSUME TypeOK, [Next]_vars, Recovers
    PROVE  \E c \in Clicks : Recover(c)
<1> USE RequestAssumption DEF TypeOK, Requests, Senders, Goto
<1> SUFFICES ASSUME NEW c \in Clicks, stage[c] = "recover", stage'[c] = "done"
             PROVE  Recover(c)
  BY DEF Recovers
<1>1. ASSUME NEW r \in Requests,
             Fail(r) \/ Die(r) \/ (r \in Leaves /\ (Leave(r) \/ SaveLeave(r)))
               \/ (r \in Supports /\ Support(r)) \/ (r \in Senders /\ SendLink(r))
               \/ (r \in Clicks /\ (Click(r) \/ Consume(r)))
      PROVE  FALSE
  BY <1>1 DEF Fail, Die, Leave, SaveLeave, Support, SendLink, Click, Consume
<1>2. ASSUME NEW d \in Clicks, Recover(d) PROVE Recover(c)
  BY <1>2 DEF Recover
<1>3. ASSUME UNCHANGED stage PROVE FALSE
  BY <1>3
<1> QED
  BY <1>1, <1>2, <1>3
  DEF Next, Continue, Purge, PickDeletions, PickDeactivations, Remove, PurgeDies,
      Tick, vars, requestVars

LEMMA KeptStep ==
    ASSUME TypeOK, PurgeDates, KeptInv, [Next]_vars, undone' = undone \/ Recovers,
           undone' \in BOOLEAN
    PROVE  KeptInv'
<1>1. CASE undone' = undone
  <2>1. CASE undone
    BY <1>1, <2>1 DEF KeptInv
  <2>2. CASE ~undone
    <3>1. PurgeInv
      BY <2>2 DEF KeptInv, PurgeInv
    <3>2. PurgeInv'
      BY <3>1, PurgeStep
    <3> QED
      BY <3>2 DEF KeptInv, PurgeInv
  <2> QED
    BY <2>1, <2>2
<1>2. CASE Recovers
  <2>1. PICK c \in Clicks : Recover(c)
    BY <1>2, RecoversOnly
  <2>2. account'.active /\ recovered' = ~picked /\ picked' = picked
    BY <2>1 DEF Recover, Restored, purgeVars, TypeOK, Account
  <2> QED
    BY <2>2 DEF KeptInv
<1> QED
  BY <1>1, <1>2

LEMMA UndoneType ==
    undone \in BOOLEAN /\ [AccountsNext]_accountsVars => undone' \in BOOLEAN
<1> SUFFICES ASSUME undone \in BOOLEAN, [AccountsNext]_accountsVars
             PROVE  undone' \in BOOLEAN
  OBVIOUS
<1>1. CASE Lifecycle
  BY <1>1 DEF Lifecycle, Around
<1>2. ASSUME NEW v \in Visits, SavePassword(v) PROVE undone' \in BOOLEAN
  BY <1>2 DEF SavePassword
<1>3. CASE UNCHANGED undone
  BY <1>3
<1> QED
  BY <1>1, <1>2, <1>3 DEF AccountsNext, Access, Reset, accountsVars

(* To the lifecycle a reset is a stutter, or it writes an older row back,  *)
(* which is counted as a fault, and as undoing the recovery it overwrites. *)
LEMMA SaveFrame ==
    ASSUME TypeOK, ReadInv, NEW v \in Visits, SavePassword(v)
    PROVE  /\ UNCHANGED <<now, requestVars, purgeVars, late, recovered>>
           /\ account' = read[v].account /\ account'.exists /\ account' \in Account
           /\ \/ account' = account /\ UNCHANGED <<faults, undone>>
              \/ /\ faults' = faults + 1 /\ faults < MaxFaults
                 /\ undone' = (undone \/ (recovered /\ ~account'.active))
<1>1. CASE read[v] = UserRow /\ UNCHANGED <<faults, undone>>
  BY <1>1 DEF SavePassword, UserRow, ReadInv
<1>2. CASE /\ faults < MaxFaults /\ faults' = faults + 1
           /\ undone' = (undone \/ (recovered /\ ~read[v].account.active))
  BY <1>2 DEF SavePassword, ReadInv
<1> QED
  BY <1>1, <1>2 DEF SavePassword

LEMMA SaveKeepsLifecycle ==
    ASSUME LifecycleInv, NEW v \in Visits, SavePassword(v)
    PROVE  TypeOK' /\ PurgeDates' /\ KeptInv' /\ LinkInv' /\ RecoveryInv'
<1> USE SaveFrame DEF LifecycleInv
<1>1. UNCHANGED <<now, expires, used, mailed, stage, link, purge, picked, purgeTime, late,
                  recovered>>
  BY DEF requestVars, purgeVars
<1>2. account' \in Account /\ account' = read[v].account
  OBVIOUS
<1>3. faults \in Nat /\ MaxFaults \in Nat
  BY TimeAssumption DEF TypeOK
<1>4. faults' \in 0..MaxFaults
  <2>1. CASE faults' = faults
    BY <2>1 DEF TypeOK
  <2>2. CASE faults' = faults + 1 /\ faults < MaxFaults
    BY <1>3, <2>2
  <2> QED
    BY <2>1, <2>2
<1>5. TypeOK'
  BY <1>1, <1>2, <1>4 DEF TypeOK
<1>6. PurgeDates'
  BY <1>1, <1>2 DEF PurgeDates, ReadInv
<1>7. KeptInv'
  <2>1. CASE account' = account /\ undone' = undone
    BY <1>1, <2>1 DEF KeptInv
  <2>2. CASE undone' = (undone \/ (recovered /\ ~account'.active))
    <3>1. undone' \in BOOLEAN
      BY <2>2 DEF KeptInv
    <3>2. recovered' /\ ~undone' => recovered /\ ~undone /\ account'.active
      BY <1>1, <2>2
    <3> QED
      BY <1>1, <3>1, <3>2 DEF KeptInv
  <2> QED
    BY <2>1, <2>2
<1>8. LinkInv'
  BY <1>1 DEF LinkInv
<1>9. RecoveryInv'
  <2>1. CASE account' = account /\ faults' = faults
    <3>1. CASE faults = 0
      <4>1. now' \in Nat /\ now <= now'
        BY <1>1 DEF TypeOK
      <4> QED
        BY <1>1, <2>1, <3>1, <4>1, RecoveryKept
    <3>2. CASE faults # 0
      BY <2>1, <3>2 DEF RecoveryInv
    <3> QED BY <3>1, <3>2
  <2>2. CASE faults' = faults + 1
    BY <1>3, <2>2 DEF RecoveryInv
  <2> QED
    BY <2>1, <2>2
<1> QED
  BY <1>5, <1>6, <1>7, <1>8, <1>9

LEMMA ResetKeepsLifecycle ==
    ASSUME NEW v \in Visits, Reset(v)
    PROVE  UNCHANGED <<vars, undone>>
  BY DEF Reset

LEMMA LifecycleStep ==
    LifecycleInv /\ [AccountsNext]_accountsVars => LifecycleInv'
<1> SUFFICES ASSUME LifecycleInv, [AccountsNext]_accountsVars PROVE LifecycleInv'
  OBVIOUS
<1>1. ReadInv' /\ undone \in BOOLEAN /\ undone' \in BOOLEAN
  BY ReadStep, UndoneType DEF LifecycleInv, KeptInv
<1>2. CASE [Next]_vars /\ (undone' = undone \/ Recovers)
  BY <1>1, <1>2, TypeStep, DatesStep, KeptStep, LinkStep, RecoveryStep DEF LifecycleInv
<1>3. ASSUME NEW v \in Visits, Reset(v) PROVE [Next]_vars /\ undone' = undone
  BY <1>3, ResetKeepsLifecycle
<1>4. ASSUME NEW v \in Visits, SavePassword(v) PROVE LifecycleInv'
  BY <1>1, <1>4, SaveKeepsLifecycle DEF LifecycleInv
<1> QED
  BY <1>1, <1>2, <1>3, <1>4, AccountsCases

THEOREM LifecycleInvariant == AccountsSpec => []LifecycleInv
<1>1. Init => TypeOK /\ PurgeDates /\ ~recovered /\ LinkInv /\ RecoveryInv
  BY TypeInit DEF Init, PurgeDates, LinkInv, RecoveryInv
<1>2. AccountsInit => ReadInv
  <2> SUFFICES ASSUME AccountsInit PROVE ReadInv
    OBVIOUS
  <2>1. TypeOK /\ account.exists /\ account.deleteAt = Never
    BY TypeInit DEF AccountsInit, Init
  <2> QED
    BY <2>1 DEF AccountsInit, ReadInv, UserRow, TypeOK
<1>3. AccountsInit => LifecycleInv
  BY <1>1, <1>2 DEF AccountsInit, LifecycleInv, KeptInv
<1> QED
  BY <1>3, LifecycleStep, PTL DEF AccountsSpec

(* The same promise of the purge while the owner signs in and resets the   *)
(* password: what the purge deletes was not recovered, or a reset had put  *)
(* the row of the account back as it was before the recovery.              *)
THEOREM PurgeSparesTheRecoveredVisitor == AccountsSpec => SparedUnlessUndone
<1>1. LifecycleInv /\ [AccountsNext]_accountsVars
      => [account.exists /\ ~account'.exists => ~recovered \/ undone]_accountsVars
  <2> SUFFICES ASSUME LifecycleInv, [AccountsNext]_accountsVars, ~undone,
                      account.exists, ~account'.exists
               PROVE  ~recovered
    OBVIOUS
  <2>1. PurgeInv /\ TypeOK
    BY DEF LifecycleInv, KeptInv, PurgeInv
  <2>2. CASE [Next]_vars
    BY <2>1, <2>2, SparedStep DEF vars
  <2>3. ASSUME NEW v \in Visits, Reset(v) PROVE [Next]_vars
    BY <2>3, ResetKeepsLifecycle
  <2>4. ASSUME NEW v \in Visits, SavePassword(v) PROVE account'.exists
    BY <2>4, SaveFrame DEF LifecycleInv
  <2> QED
    BY <2>2, <2>3, <2>4, AccountsCases DEF LifecycleInv, KeptInv
<1> QED
  BY <1>1, LifecycleInvariant, PTL DEF AccountsSpec, SparedUnlessUndone

(* And the way back stays open beside sign-in and password resets.         *)
THEOREM VisitorCanRecover == AccountsSpec => []RecoverableInTime
  BY RecoverableFromInv, LifecycleInvariant, PTL DEF LifecycleInv

-----------------------------------------------------------------------------
(***************************************************************************)
(* The visits: what they hold, and what becomes of the recovery codes.     *)
(***************************************************************************)
Makers == {"enrol", "regenerate", "disable"}

Places == Ended \union {"new", "device", "clear", "write", "drop", "find", "mark",
                        "use", "verified", "password", "again"}

(* Which statements belong to which job.                                   *)
JobAt(j, p) ==
    /\ p \in {"device", "clear", "write", "drop"} => j \in Makers
    /\ p \in {"find", "mark"} => j = "confirm"
    /\ p \in {"use", "verified"} => j = "verify"
    /\ p \in {"password", "again"} => j = "reset"

VisitTypeOK ==
    /\ job \in [Visits -> Jobs \union {Never}]
    /\ at \in [Visits -> Places]
    /\ ended \in [Visits -> SUBSET Visits]
    /\ held = [v \in Visits |-> held[v]]
    /\ codes \in [Codes -> {"absent", "fresh", "used"}]
    /\ \A v \in Visits : JobAt(job[v], at[v])

NoCodes == [c \in Codes |-> "absent"]

OthersStay(v) ==
    \A u \in Visits \ {v} : /\ job'[u] = job[u] /\ at'[u] = at[u]
                            /\ held'[u] = held[u] /\ ended'[u] = ended[u]

(* A visit arrives.                                                        *)
Begins(v) ==
    /\ at[v] = "new" /\ at'[v] \in Places /\ job'[v] \in Jobs
    /\ JobAt(job'[v], at'[v])
    /\ ended'[v] = {u \in Visits : Over(u)}
    /\ at'[v] = "done" => job'[v] = "confirm" /\ held'[v] = Never
    /\ at'[v] \notin {"mark", "write", "drop", "failed"}
    /\ codes' = codes
    /\ OthersStay(v)

Stays(v) == job'[v] = job[v] /\ ended'[v] = ended[v] /\ OthersStay(v)

(* A visit goes on, without a look at the codes,                           *)
GoesOn(v) ==
    /\ Stays(v)
    /\ codes' = codes
    /\ at'[v] \in Places /\ JobAt(job[v], at'[v])
    /\ at[v] \notin {"new", "done", "failed"}
    /\ at'[v] \notin {"new", "write", "mark"}
    /\ at'[v] = "done" => at[v] = "drop" \/ job[v] \notin Makers \union {"confirm"}
    /\ at'[v] = "drop" => at[v] = "drop"

(* or it removes the codes, writes new ones, finds one, or marks it.       *)
Clears(v) ==
    Stays(v) /\ at[v] = "clear" /\ at'[v] \in {"write", "drop"} /\ codes' = NoCodes
Writes(v) ==
    /\ Stays(v) /\ at[v] = "write" /\ at'[v] = "done"
    /\ codes' = [c \in Codes |-> IF c[1] = v THEN "fresh" ELSE codes[c]]
Finds(v) ==
    /\ Stays(v) /\ at[v] = "find" /\ at'[v] = "mark" /\ codes' = codes
    /\ held'[v] \in Codes /\ codes[held'[v]] = "fresh"
Marks(v) ==
    /\ Stays(v) /\ at[v] = "mark" /\ at'[v] = "done" /\ held'[v] = held[v]
    /\ codes[held[v]] # "absent" /\ codes' = [codes EXCEPT ![held[v]] = "used"]

VisitStep(v) ==
    \/ Begins(v) \/ GoesOn(v)
    \/ Clears(v) \/ Writes(v) \/ Finds(v) \/ Marks(v)

Elsewhere ==
    UNCHANGED <<job, at, held, ended>> /\ codes' \in {codes, NoCodes}

Functions == /\ job' = [v \in Visits |-> job'[v]] /\ at' = [v \in Visits |-> at'[v]]
             /\ held' = [v \in Visits |-> held'[v]] /\ ended' = [v \in Visits |-> ended'[v]]

LEMMA BeginFacts ==
    ASSUME VisitTypeOK, NEW v \in Visits, NEW what, NEW s, NEW row, NEW next,
           Begin(v, what, s, row, next)
    PROVE  /\ Functions /\ OthersStay(v)
           /\ at[v] = "new" /\ at'[v] = next /\ job'[v] = what /\ held'[v] = row
           /\ ended'[v] = {u \in Visits : Over(u)}
  BY DEF VisitTypeOK, Begin, OthersStay, Functions

LEMMA GoOnFacts ==
    ASSUME VisitTypeOK, NEW v \in Visits, NEW next, NEW row, GoOn(v, next, row)
    PROVE  Functions /\ Stays(v) /\ at'[v] = next /\ held'[v] = row
  BY DEF VisitTypeOK, GoOn, OthersStay, Stays, Functions

LEMMA ArrivalCases ==
    ASSUME VisitTypeOK, NEW v \in Visits, Arrives(v) \/ Reset(v)
    PROVE  Functions /\ Begins(v)
<1> USE BeginFacts DEF Begins, JobAt, Jobs, Makers, Places, Ended
<1>1. CASE Enrol(v)
  BY <1>1 DEF Enrol
<1>2. CASE Regenerate(v)
  BY <1>2 DEF Regenerate
<1>3. CASE Disable(v)
  BY <1>3 DEF Disable
<1>4. CASE ConfirmByApp(v)
  BY <1>4 DEF ConfirmByApp
<1>5. CASE ConfirmByCode(v)
  BY <1>5 DEF ConfirmByCode
<1>6. CASE Verify(v)
  BY <1>6 DEF Verify
<1>7. CASE Reset(v)
  BY <1>7 DEF Reset, signInVars, visitVars
<1> QED
  BY <1>1, <1>2, <1>3, <1>4, <1>5, <1>6, <1>7 DEF Arrives

LEMMA ContinueCases ==
    ASSUME VisitTypeOK, NEW v \in Visits, Continues(v) \/ SavePassword(v)
    PROVE  Functions /\ VisitStep(v)
<1>0. JobAt(job[v], at[v])
  BY DEF VisitTypeOK
<1> USE <1>0, GoOnFacts DEF VisitStep, JobAt, Places, Ended, Makers, End
<1>1. CASE StoreDevice(v)
  BY <1>1 DEF StoreDevice, GoesOn
<1>2. CASE Clear(v)
  BY <1>2 DEF Clear, Clears, NoCodes
<1>3. CASE WriteCodes(v)
  BY <1>3 DEF WriteCodes, Writes
<1>4. CASE DropDevice(v)
  BY <1>4 DEF DropDevice, GoesOn
<1>5. CASE FindCode(v)
  BY <1>5 DEF FindCode, Finds, GoesOn
<1>6. CASE MarkUsed(v)
  BY <1>6 DEF MarkUsed, Marks, GoesOn
<1>7. CASE UseToken(v)
  BY <1>7 DEF UseToken, GoesOn
<1>8. CASE SaveVerified(v)
  BY <1>8 DEF SaveVerified, GoesOn
<1>9. CASE FailVisit(v)
  BY <1>9 DEF FailVisit, GoesOn
<1>10. CASE SavePassword(v)
  BY <1>10 DEF SavePassword, GoesOn
<1> QED
  BY <1>1, <1>2, <1>3, <1>4, <1>5, <1>6, <1>7, <1>8, <1>9, <1>10 DEF Continues

LEMMA VisitCases ==
    ASSUME VisitTypeOK, [AccountsNext]_accountsVars
    PROVE  Elsewhere \/ \E v \in Visits : Functions /\ VisitStep(v)
<1>1. CASE Lifecycle
  BY <1>1 DEF Lifecycle, Around, Cascade, signInVars, visitVars, Elsewhere, NoCodes
<1>2. CASE Access
  <2>1. ASSUME NEW v \in Visits, Arrives(v) \/ Continues(v)
        PROVE  Functions /\ VisitStep(v)
    BY <2>1, ArrivalCases, ContinueCases DEF VisitStep
  <2>2. Expected # {} => NextVisit \in Visits
    BY DEF Expected, NextVisit
  <2>3. ASSUME NEW s \in Browsers, UseBrowser(s) PROVE Elsewhere
    BY <2>3 DEF UseBrowser, Login, Logout, Display, visitVars, Elsewhere
  <2>4. ASSUME NEW t \in Tokens, Mail(t) PROVE Elsewhere
    BY <2>4 DEF Mail, MailToken, Expire, visitVars, Elsewhere
  <2>5. ASSUME NEW x \in States, SetState(x) PROVE Elsewhere
    BY <2>5 DEF SetState, visitVars, Elsewhere
  <2> QED
    BY <1>2, <2>1, <2>2, <2>3, <2>4, <2>5 DEF Access
<1>3. CASE Expected # {} /\ Reset(NextVisit)
  BY <1>3, ArrivalCases DEF VisitStep, Expected, NextVisit
<1>4. ASSUME NEW v \in Visits, SavePassword(v) PROVE Functions /\ VisitStep(v)
  BY <1>4, ContinueCases
<1>5. CASE UNCHANGED accountsVars
  BY <1>5 DEF accountsVars, signInVars, visitVars, Elsewhere
<1> QED
  BY <1>1, <1>2, <1>3, <1>4, <1>5 DEF AccountsNext

LEMMA VisitTypeStep ==
    ASSUME VisitTypeOK, [AccountsNext]_accountsVars
    PROVE  VisitTypeOK'
<1> USE DEF VisitTypeOK
<1>1. CASE Elsewhere
  BY <1>1 DEF Elsewhere, NoCodes
<1>2. ASSUME NEW v \in Visits, Functions, VisitStep(v) PROVE VisitTypeOK'
  <2>1. codes' \in [Codes -> {"absent", "fresh", "used"}]
    BY <1>2 DEF VisitStep, Begins, GoesOn, Clears, Writes, Finds, Marks, NoCodes
  <2>2. /\ job'[v] \in Jobs \union {Never} /\ at'[v] \in Places
        /\ ended'[v] \subseteq Visits /\ JobAt(job'[v], at'[v])
    BY <1>2 DEF VisitStep, Begins, GoesOn, Clears, Writes, Finds, Marks, Stays, Places,
       Ended, JobAt, Makers
  <2>3. OthersStay(v)
    BY <1>2 DEF VisitStep, Begins, GoesOn, Clears, Writes, Finds, Marks, Stays
  <2>4. \A u \in Visits : /\ job'[u] \in Jobs \union {Never} /\ at'[u] \in Places
                          /\ ended'[u] \in SUBSET Visits /\ JobAt(job'[u], at'[u])
    BY <2>2, <2>3 DEF OthersStay
  <2> QED
    BY <1>2, <2>1, <2>4 DEF Functions
<1> QED
  BY <1>1, <1>2, VisitCases

(***************************************************************************)
(* What the rows of codes show.  A code is there only after its set was    *)
(* written, which happens once; a code that let somebody in is never       *)
(* fresh; and no visit that came later holds it.  Of the sets that were    *)
(* complete when a visit began, nothing is left after its deletion.        *)
(***************************************************************************)
Spent(u) == SignedInBy(u) => /\ held[u] \in Codes
                             /\ codes[held[u]] # "fresh"
                             /\ at[held[u][1]] = "done"

Holds(v) == job[v] = "confirm" /\ at[v] \in {"mark", "done"}

Cleared(v) == job[v] \in Makers /\ at[v] \in {"write", "drop", "done"}

CodesInv ==
    /\ \A v \in Visits : \A u \in ended[v] : Over(u)
    /\ \A c \in Codes : codes[c] # "absent" => at[c[1]] = "done"
    /\ \A v \in Visits : at[v] = "mark" => held[v] \in Codes
    /\ \A u \in Visits : Spent(u)
    /\ \A v \in Visits : \A u \in ended[v] :
          SignedInBy(u) /\ Holds(v) => held[v] # held[u]
    /\ \A v \in Visits : Cleared(v) =>
          \A c \in Codes : c[1] \in ended[v] => codes[c] = "absent"

LEMMA CodeMaker == \A c \in Codes : c[1] \in Visits
  BY DEF Codes

(* The step of a visit by which its set is written, or a code is marked,   *)
(* is the last one of that visit; what is over stays as it is.             *)
LEMMA OverStays ==
    ASSUME VisitTypeOK, NEW v \in Visits, VisitStep(v), NEW u \in Visits, Over(u)
    PROVE  u # v /\ job'[u] = job[u] /\ at'[u] = at[u] /\ held'[u] = held[u]
           /\ ended'[u] = ended[u]
<1>1. u # v
  BY DEF VisitStep, Begins, GoesOn, Clears, Writes, Finds, Marks, Over, Ended
<1>2. OthersStay(v)
  BY DEF VisitStep, Begins, GoesOn, Clears, Writes, Finds, Marks, Stays
<1> QED
  BY <1>1, <1>2 DEF OthersStay

(* A visit that has just ended was not over when another one began.        *)
LEMMA EndedFacts ==
    ASSUME VisitTypeOK, CodesInv, NEW v \in Visits, VisitStep(v),
           NEW w \in Visits, NEW u \in ended'[w]
    PROVE  /\ u \in Visits /\ Over(u)
           /\ w # v => u \in ended[w]
           /\ ~Begins(v) => u \in ended[w]
<1>1. CASE w = v /\ Begins(v)
  BY <1>1 DEF Begins
<1>2. CASE ~(w = v /\ Begins(v))
  <2>1. ended'[w] = ended[w]
    BY <1>2 DEF VisitStep, Begins, GoesOn, Clears, Writes, Finds, Marks, Stays, OthersStay
  <2> QED
    BY <2>1 DEF VisitTypeOK, CodesInv
<1> QED
  BY <1>1, <1>2

LEMMA CodesStep ==
    ASSUME VisitTypeOK, CodesInv, [AccountsNext]_accountsVars
    PROVE  CodesInv'
<1>1. CASE Elsewhere
  <2>1. UNCHANGED <<job, at, held, ended>>
    BY <1>1 DEF Elsewhere
  <2>2. \A c \in Codes : codes'[c] = codes[c] \/ codes'[c] = "absent"
    BY <1>1 DEF Elsewhere, NoCodes
  <2>3. \A u \in Visits : Spent(u)'
    BY <2>1, <2>2 DEF CodesInv, Spent, SignedInBy
  <2> QED
    BY <2>1, <2>2, <2>3 DEF CodesInv, Over, SignedInBy, Holds, Cleared
<1>2. ASSUME NEW v \in Visits, Functions, VisitStep(v) PROVE CodesInv'
  <2>0. \A u \in Visits : Over(u) => u # v /\ at'[u] = at[u] /\ held'[u] = held[u]
                                     /\ job'[u] = job[u] /\ ended'[u] = ended[u]
    BY <1>2, OverStays
  <2>a. \A w \in Visits : \A u \in ended'[w] : u \in Visits /\ Over(u)
    BY <1>2, EndedFacts
  <2>b. OthersStay(v)
    BY <1>2 DEF VisitStep, Begins, GoesOn, Clears, Writes, Finds, Marks, Stays
  <2>1. (\A w \in Visits : \A u \in ended[w] : Over(u))'
    BY <2>0, <2>a DEF Over
  <2>2. ASSUME NEW c \in Codes, codes'[c] # "absent" PROVE at'[c[1]] = "done"
    <3>1. CASE Writes(v) /\ c[1] = v
      BY <3>1 DEF Writes
    <3>2. CASE ~(Writes(v) /\ c[1] = v)
      <4>1. codes[c] # "absent"
        <5>1. CASE Marks(v)
          BY <2>2, <5>1 DEF Marks, VisitTypeOK, CodesInv
        <5>2. CASE ~Marks(v)
          BY <1>2, <2>2, <3>2, <5>2 DEF VisitStep, Begins, GoesOn, Clears, Writes, Finds,
             NoCodes
        <5> QED BY <5>1, <5>2
      <4>2. at[c[1]] = "done"
        BY <4>1 DEF CodesInv
      <4> QED
        BY <2>0, <4>2, CodeMaker DEF Over, Ended
    <3> QED
      BY <3>1, <3>2
  <2>3. ASSUME NEW w \in Visits, at'[w] = "mark" PROVE held'[w] \in Codes
    <3>1. CASE w # v
      BY <2>3, <2>b, <3>1 DEF OthersStay, CodesInv
    <3>2. CASE w = v
      BY <1>2, <2>3, <3>2 DEF VisitStep, Begins, GoesOn, Clears, Writes, Finds, Marks
    <3> QED BY <3>1, <3>2
  <2>4. ASSUME NEW u \in Visits PROVE Spent(u)'
    <3> SUFFICES ASSUME SignedInBy(u)'
                 PROVE  held'[u] \in Codes /\ codes'[held'[u]] # "fresh"
                        /\ at'[held'[u][1]] = "done"
      BY DEF Spent
    <3>1. CASE u # v
      <4>1. SignedInBy(u) /\ held'[u] = held[u]
        BY <2>b, <3>1 DEF SignedInBy, OthersStay
      <4>2. held[u] \in Codes /\ codes[held[u]] # "fresh" /\ at[held[u][1]] = "done"
        BY <4>1 DEF CodesInv, Spent
      <4>3. held[u][1] # v /\ at'[held[u][1]] = "done"
        BY <2>0, <4>2, CodeMaker DEF Over, Ended
      <4>4. codes'[held[u]] # "fresh"
        BY <1>2, <4>2, <4>3 DEF VisitStep, Begins, GoesOn, Clears, Writes, Finds, Marks,
           NoCodes, VisitTypeOK, CodesInv
      <4> QED
        BY <4>1, <4>2, <4>3, <4>4
    <3>2. CASE u = v
      <4>1. Marks(v)
        BY <1>2, <3>2 DEF VisitStep, Begins, GoesOn, Clears, Writes, Finds, SignedInBy,
           Stays, JobAt, VisitTypeOK, Makers
      <4>2. held[v] \in Codes /\ held'[v] = held[v]
        BY <4>1 DEF Marks, CodesInv
      <4>3. at[held[v][1]] = "done" /\ held[v][1] \in Visits
        BY <4>1, <4>2, CodeMaker DEF Marks, CodesInv
      <4>4. at'[held[v][1]] = "done"
        BY <2>0, <4>3 DEF Over, Ended
      <4>5. codes'[held[v]] = "used"
        BY <4>1, <4>2 DEF Marks, VisitTypeOK
      <4> QED
        BY <3>2, <4>2, <4>4, <4>5
    <3> QED BY <3>1, <3>2
  <2>5. ASSUME NEW w \in Visits, NEW u \in ended'[w], SignedInBy(u)', Holds(w)'
        PROVE  held'[w] # held'[u]
    <3>1. u \in Visits /\ Over(u) /\ SignedInBy(u) /\ held'[u] = held[u]
      BY <2>0, <2>5, <2>a DEF SignedInBy
    <3>2. held[u] \in Codes /\ codes[held[u]] # "fresh"
      BY <3>1 DEF CodesInv, Spent
    <3>3. CASE w # v
      <4>1. u \in ended[w] /\ Holds(w) /\ held'[w] = held[w]
        BY <1>2, <2>5, <2>b, <3>3, EndedFacts DEF Holds, OthersStay
      <4> QED
        BY <3>1, <4>1 DEF CodesInv
    <3>4. CASE w = v /\ Begins(v)
      <4>1. held'[v] = Never
        BY <2>5, <3>4 DEF Begins, Holds
      <4>2. held[u] # Never
        BY <3>1 DEF SignedInBy
      <4> QED
        BY <3>1, <3>4, <4>1, <4>2
    <3>5. CASE w = v /\ Finds(v)
      BY <3>1, <3>2, <3>5 DEF Finds
    <3>6. CASE w = v /\ Marks(v)
      <4>1. u \in ended[w]
        BY <1>2, <2>5, <3>6, EndedFacts DEF Marks, Begins
      <4>2. Holds(w) /\ held'[w] = held[w]
        BY <3>6 DEF Marks, Holds, VisitTypeOK, JobAt
      <4> QED
        BY <3>1, <4>1, <4>2 DEF CodesInv
    <3>7. CASE w = v /\ (GoesOn(v) \/ Clears(v) \/ Writes(v))
      BY <2>5, <3>7 DEF GoesOn, Clears, Writes, Holds, Stays, JobAt, VisitTypeOK, Makers
    <3> QED
      BY <1>2, <3>3, <3>4, <3>5, <3>6, <3>7 DEF VisitStep
  <2>6. ASSUME NEW w \in Visits, Cleared(w)', NEW c \in Codes, c[1] \in ended'[w]
        PROVE  codes'[c] = "absent"
    <3>1. c[1] \in Visits /\ Over(c[1]) /\ c[1] # v
      BY <2>0, <2>6, <2>a
    <3>2. CASE Clears(v)
      BY <3>2 DEF Clears, NoCodes
    <3>3. CASE ~Clears(v)
      <4>1. Cleared(w) /\ c[1] \in ended[w]
        <5>1. CASE w # v
          BY <1>2, <2>6, <2>b, <5>1, EndedFacts DEF Cleared, OthersStay
        <5>2. CASE w = v
          <6>1. ~Begins(v)
            BY <2>6, <5>2 DEF Begins, Cleared, Makers
          <6>2. c[1] \in ended[w]
            BY <1>2, <2>6, <6>1, EndedFacts
          <6>3. Cleared(w)
            BY <1>2, <2>6, <3>3, <5>2, <6>1 DEF VisitStep, GoesOn, Writes, Finds, Marks,
               Stays, Cleared, JobAt, VisitTypeOK, Makers
          <6> QED BY <6>2, <6>3
        <5> QED BY <5>1, <5>2
      <4>2. codes[c] = "absent"
        BY <4>1 DEF CodesInv
      <4> QED
        BY <1>2, <3>1, <3>3, <4>2 DEF VisitStep, Begins, GoesOn, Writes, Finds, Marks,
           VisitTypeOK, CodesInv
    <3> QED BY <3>2, <3>3
  <2>7. (\A w \in Visits : \A u \in ended[w] : SignedInBy(u) /\ Holds(w)
            => held[w] # held[u])'
    BY <2>5
  <2>8. (\A w \in Visits : Cleared(w) =>
            \A c \in Codes : c[1] \in ended[w] => codes[c] = "absent")'
    BY <2>6
  <2> QED
    BY <2>1, <2>2, <2>3, <2>4, <2>7, <2>8 DEF CodesInv
<1> QED
  BY <1>1, <1>2, VisitCases

LEMMA VisitInit == AccountsInit => VisitTypeOK /\ CodesInv
<1> SUFFICES ASSUME SignInInit PROVE VisitTypeOK /\ CodesInv
  BY DEF AccountsInit
<1>1. VisitTypeOK
  BY DEF SignInInit, VisitTypeOK, JobAt, Places, Makers, Ended
<1>2. CodesInv
  BY DEF SignInInit, CodesInv, Spent, SignedInBy, Holds, Cleared, Over
<1> QED
  BY <1>1, <1>2

THEOREM VisitInvariant == AccountsSpec => [](VisitTypeOK /\ CodesInv)
  BY VisitInit, VisitTypeStep, CodesStep, PTL DEF AccountsSpec

(* A recovery code lets somebody in once: a visit that begins after the    *)
(* code was used never ends by it (RecoveryCode.mark_used and the codes    *)
(* totp_confirm_login_view compares), for any number of visits, browsers   *)
(* and codes in a set.                                                     *)
THEOREM CodesAreSpentOnce == AccountsSpec => []SpentOnce
<1>1. VisitTypeOK /\ CodesInv => SpentOnce
  BY DEF CodesInv, SpentOnce, SignedInBy, Holds
<1> QED
  BY <1>1, VisitInvariant, PTL

(* After new codes were made, or the authenticator was removed, nothing is *)
(* left of a set that was complete before (replace_codes_for_user).        *)
THEOREM ClearedCodesAreGone == AccountsSpec => []OldCodesGone
<1>1. VisitTypeOK /\ CodesInv => OldCodesGone
  BY DEF CodesInv, OldCodesGone, Cleared, Makers
<1> QED
  BY <1>1, VisitInvariant, PTL

(* Who may end a suspension (mark_email_verified, and the two saves of a   *)
(* password reset).                                                        *)
THEOREM SuspensionsHold == AccountsSpec => SuspensionHolds
<1> DEFINE Allowed == \/ \E x \in States : SetState(x)
                      \/ restored'
                      \/ \E v \in Visits : at[v] = "verified" /\ Over(v)' /\ saw[v] # "suspended"
<1>1. ASSUME VisitTypeOK, [AccountsNext]_accountsVars, state = "suspended", state' # "suspended"
      PROVE  Allowed
  <2>1. ASSUME NEW v \in Visits, Continues(v) PROVE Allowed
    <3>1. SaveVerified(v)
      BY <1>1, <2>1 DEF Continues, StoreDevice, Clear, WriteCodes, DropDevice, FindCode,
         MarkUsed, UseToken, FailVisit
    <3>2. at[v] = "verified" /\ state' = StateOnceVerified(saw[v]) /\ GoOn(v, "done", held[v])
      BY <3>1 DEF SaveVerified, End
    <3>3. saw[v] # "suspended"
      BY <1>1, <3>2 DEF StateOnceVerified
    <3>4. Over(v)'
      BY <1>1, <3>2, GoOnFacts DEF Over, Ended
    <3> QED
      BY <3>2, <3>3, <3>4
  <2>2. ASSUME NEW v \in Visits, SavePassword(v) PROVE Allowed
    BY <1>1, <2>2 DEF SavePassword, UserRow
  <2>3. ASSUME NEW v \in Visits, Arrives(v) \/ Reset(v) PROVE FALSE
    BY <1>1, <2>3 DEF Arrives, Enrol, Regenerate, Disable, ConfirmByApp, ConfirmByCode,
       Verify, Reset
  <2>4. ASSUME NEW s \in Browsers, UseBrowser(s) PROVE FALSE
    BY <1>1, <2>4 DEF UseBrowser, Login, Logout, Display
  <2>5. ASSUME NEW t \in Tokens, Mail(t) PROVE FALSE
    BY <1>1, <2>5 DEF Mail, MailToken, Expire
  <2>6. CASE Lifecycle
    BY <1>1, <2>6 DEF Lifecycle, Around, Cascade, signInVars
  <2>7. Expected # {} => NextVisit \in Visits
    BY DEF Expected, NextVisit
  <2>8. CASE UNCHANGED accountsVars
    BY <1>1, <2>8 DEF accountsVars, signInVars
  <2> HIDE DEF Allowed
  <2>9. CASE Access
    <3>1. ASSUME NEW x \in States, SetState(x) PROVE Allowed
      BY <3>1 DEF Allowed
    <3> QED
      BY <2>9, <2>1, <2>3, <2>4, <2>5, <2>7, <3>1 DEF Access
  <2> QED
    BY <1>1, <2>2, <2>3, <2>6, <2>7, <2>8, <2>9 DEF AccountsNext
<1>2. VisitTypeOK /\ [AccountsNext]_accountsVars
      => [state = "suspended" /\ state' # "suspended" => Allowed]_accountsVars
  <2> HIDE DEF Allowed
  <2> QED BY <1>1
<1> QED
  BY <1>2, VisitInvariant, PTL DEF AccountsSpec, SuspensionHolds
=============================================================================
