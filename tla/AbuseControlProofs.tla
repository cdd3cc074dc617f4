------------------------- MODULE AbuseControlProofs -------------------------
(***************************************************************************)
(* Theorems about AbuseControl.                                            *)
(*                                                                         *)
(* Reports and actions never work in favour of an actor, whatever the      *)
(* settings are: the score is monotone in them, and so are the throttle    *)
(* and, if more serious reasons throttle for longer, its length.           *)
(*                                                                         *)
(* Toggles settle, whatever overlaps: a row belongs to the request that    *)
(* has created it and has not been denied, and of two opposite rows one is *)
(* of a request that has not cleared the other yet.                        *)
(***************************************************************************)
EXTENDS AbuseControl, FiniteSetTheorems, TLAPS

(* The actor of g is the actor of h with more reports or actions.          *)
Worse(g, h) ==
    /\ g.age = h.age /\ g.traits = h.traits /\ g.deeds = h.deeds
    /\ g.reports >= h.reports /\ g.actions >= h.actions

TrustTypeOK ==
    /\ history \in History
    /\ row \in {"none", "created", "computed"}
    /\ score \in Int
    /\ throttled \in BOOLEAN
    /\ hours \in Nat
    /\ moved \in BOOLEAN

-----------------------------------------------------------------------------

(* Products with a factor in Nat are monotone.                             *)
LEMMA ProductMonotone ==
    ASSUME NEW a \in Nat, NEW b \in Nat, NEW p \in Nat, a >= b
    PROVE  a * p \in Nat /\ b * p \in Nat /\ a * p >= b * p
<1>1. PICK d \in Nat : a = b + d
  <2>1. a - b \in Nat /\ a = b + (a - b)
    OBVIOUS
  <2> QED BY <2>1
<1>2. a * p = b * p + d * p
  BY <1>1
<1>3. b * p \in Nat /\ d * p \in Nat
  BY <1>1
<1> QED BY <1>2, <1>3

(* The parts of the score are integers.                                    *)
LEMMA ScoreParts ==
    ASSUME NEW h \in History
    PROVE  /\ AgeScore(h.age) \in Int
           /\ Verification(h) \in Int
           /\ Completeness(h) \in Int
           /\ VelocityPenalty(h) \in Int
           /\ Penalty(h) \in Nat
<1>1. h.age \in Nat /\ h.reports \in Nat /\ h.actions \in Nat
  <2>1. h.age \in Ages
    BY DEF History
  <2>2. h.reports \in 0..MaxReports /\ h.actions \in 0..MaxActions
    BY DEF History
  <2>3. h.age \in Nat
    BY <2>1, BoundsAssumption, Zenon
  <2>4. 0..MaxReports \subseteq Nat /\ 0..MaxActions \subseteq Nat
    BY BoundsAssumption
  <2> QED BY <2>2, <2>3, <2>4, Zenon
<1> USE SettingsAssumption, BoundsAssumption
<1>2. AgeScore(h.age) \in Int
  BY <1>1 DEF AgeScore
<1>3. \A t \in AllTraits : Bonus(h, t) \in Nat
  BY DEF Bonus
<1>4. Completeness(h) \in Int
  BY <1>3 DEF Completeness, AllTraits
<1>5. Verification(h) \in Int
  BY DEF Verification, AllTraits
<1>6. VelocityPenalty(h) \in Int
  BY DEF VelocityPenalty
<1>7. Penalty(h) \in Nat
  BY <1>1, ProductMonotone DEF Penalty
<1> QED BY <1>2, <1>4, <1>5, <1>6, <1>7

(* More reports or actions do not raise the score,                         *)
LEMMA ScoreMonotone ==
    ASSUME NEW g \in History, NEW h \in History, Worse(g, h)
    PROVE  Score(g) \in Int /\ Score(h) \in Int /\ Score(g) <= Score(h)
<1> USE SettingsAssumption, BoundsAssumption
<1>1. /\ g.reports \in Nat /\ h.reports \in Nat /\ g.reports >= h.reports
      /\ g.actions \in Nat /\ h.actions \in Nat /\ g.actions >= h.actions
  BY DEF History, Worse
<1>2. Penalty(g) >= Penalty(h)
  <2>1. /\ g.reports * Settings.perReport \in Nat
        /\ h.reports * Settings.perReport \in Nat
        /\ g.reports * Settings.perReport >= h.reports * Settings.perReport
    BY <1>1, ProductMonotone
  <2>2. /\ g.actions * Settings.perAction \in Nat
        /\ h.actions * Settings.perAction \in Nat
        /\ g.actions * Settings.perAction >= h.actions * Settings.perAction
    BY <1>1, ProductMonotone
  <2> DEFINE gr == g.reports * Settings.perReport
             hr == h.reports * Settings.perReport
             ga == g.actions * Settings.perAction
             ha == h.actions * Settings.perAction
  <2>3. Penalty(g) = gr + ga /\ Penalty(h) = hr + ha
    BY DEF Penalty
  <2>4. gr \in Nat /\ hr \in Nat /\ ga \in Nat /\ ha \in Nat /\ gr >= hr /\ ga >= ha
    BY <2>1, <2>2
  <2> HIDE DEF gr, hr, ga, ha
  <2> QED BY <2>3, <2>4
<1>3. /\ AgeScore(g.age) = AgeScore(h.age)
      /\ Verification(g) = Verification(h)
      /\ Completeness(g) = Completeness(h)
      /\ VelocityPenalty(g) = VelocityPenalty(h)
  BY DEF Worse, Verification, Completeness, Bonus, VelocityPenalty, Burst
<1> DEFINE Sum(k) == 50 + AgeScore(k.age) + Verification(k) + Completeness(k)
                       - Penalty(k) - VelocityPenalty(k)
<1>4. Sum(g) \in Int /\ Sum(h) \in Int /\ Sum(g) <= Sum(h)
  BY <1>2, <1>3, ScoreParts
<1>5. Score(g) = Clamped(Sum(g)) /\ Score(h) = Clamped(Sum(h))
  BY DEF Score
<1> HIDE DEF Sum
<1> QED BY <1>4, <1>5 DEF Clamped

(* nor do they end or shorten a throttle.                                  *)
LEMMA HoursMonotone ==
    ASSUME WindowsAssumption,
           NEW g \in History, NEW h \in History, Worse(g, h)
    PROVE  Hours(g) \in Nat /\ Hours(h) \in Nat /\ Hours(g) >= Hours(h)
<1> USE SettingsAssumption, BoundsAssumption
<1>1. /\ g.reports \in Nat /\ h.reports \in Nat /\ g.reports >= h.reports
      /\ g.actions \in Nat /\ h.actions \in Nat /\ g.actions >= h.actions
  BY DEF History, Worse
<1>2. Burst(g, "posts") <=> Burst(h, "posts")
  BY DEF Worse, Burst
<1>3. \A r \in Reasons : Settings.hours[r] \in Nat
  OBVIOUS
<1>4. Reason(g) \in Reasons /\ Reason(h) \in Reasons
  BY DEF Reason, Reasons
<1>5. Hours(g) \in Nat /\ Hours(h) \in Nat
  BY <1>3, <1>4 DEF Hours
<1>6. CASE h.actions >= Settings.actions
  BY <1>1, <1>5, <1>6 DEF Hours, Reason
<1>7. CASE ~(h.actions >= Settings.actions) /\ h.reports >= Settings.reports
  BY <1>1, <1>3, <1>5, <1>7 DEF Hours, Reason, WindowsAssumption, Reasons
<1>8. CASE ~(h.actions >= Settings.actions) /\ ~(h.reports >= Settings.reports)
  BY <1>1, <1>2, <1>3, <1>5, <1>8 DEF Hours, Reason, WindowsAssumption, Reasons
<1> QED BY <1>6, <1>7, <1>8

-----------------------------------------------------------------------------

(* What becomes of the trust signal in the composition.                    *)
LEMMA TrustSteps ==
    /\ AbuseInit => TrustInit
    /\ [Toggles \/ Trust]_abuseVars => [TrustNext]_trustVars
  BY DEF AbuseInit, Toggles, Trust, abuseVars

(* The trust signal stays in its types.                                    *)
LEMMA TrustTyped == AbuseSpec => []TrustTypeOK
<1> USE SettingsAssumption, BoundsAssumption
<1>1. TrustInit => TrustTypeOK
  <2>1. Unknown \subseteq History
    BY DEF Unknown
  <2>2. 50 \in Int /\ 0 \in Nat
    OBVIOUS
  <2> HIDE SettingsAssumption, BoundsAssumption
  <2> QED BY <2>1, <2>2, Zenon DEF TrustInit, TrustTypeOK
<1>2. TrustTypeOK /\ [TrustNext]_trustVars => TrustTypeOK'
  <2> SUFFICES ASSUME TrustTypeOK, [TrustNext]_trustVars
               PROVE  TrustTypeOK'
    OBVIOUS
  <2> USE DEF TrustTypeOK, signal
  <2>1. CASE Reported
    BY <2>1 DEF Reported, History
  <2>2. CASE Sanctioned
    BY <2>2 DEF Sanctioned, History
  <2>3. CASE Changes
    BY <2>3 DEF Changes, History
  <2>4. CASE TimePasses
    <3>1. PICK a \in Ages, forgiven \in BOOLEAN :
            history' = [history EXCEPT
                !.age = a,
                !.deeds = [d \in Deeds |-> 0],
                !.reports = IF forgiven THEN 0 ELSE @,
                !.actions = IF forgiven THEN 0 ELSE @]
      BY <2>4, Zenon DEF TimePasses
    <3>2. [d \in Deeds |-> 0] \in [Deeds -> 0..MaxBurst]
      OBVIOUS
    <3>3. /\ (IF forgiven THEN 0 ELSE history.reports) \in 0..MaxReports
          /\ (IF forgiven THEN 0 ELSE history.actions) \in 0..MaxActions
      BY DEF History
    <3> HIDE BoundsAssumption, SettingsAssumption
    <3>4. history' = [age |-> a, traits |-> history.traits,
                      deeds |-> [d \in Deeds |-> 0],
                      reports |-> IF forgiven THEN 0 ELSE history.reports,
                      actions |-> IF forgiven THEN 0 ELSE history.actions]
      BY <3>1, Zenon DEF History
    <3>5. history.traits \in SUBSET Traits
      BY DEF History
    <3>6. history' \in History
      BY <3>2, <3>3, <3>4, <3>5, Zenon DEF History
    <3> QED BY <2>4, <3>6, Zenon DEF TimePasses
  <2>5. CASE Compute
    <3>1. Score(history) \in Int
      BY ScoreMonotone DEF Worse, History
    <3>2. Reason(history) \in Reasons
      BY DEF Reason, Reasons
    <3>3. Hours(history) \in Nat
      BY <3>2 DEF Hours
    <3> QED BY <2>5, <3>1, <3>3 DEF Compute, Throttled
  <2>6. CASE Lift
    BY <2>6 DEF Lift
  <2>7. ASSUME NEW deed \in Deeds, Does(deed) PROVE TrustTypeOK'
    BY <2>7 DEF Does, History
  <2>8. CASE UNCHANGED trustVars
    BY <2>8 DEF trustVars
  <2>9. CASE Create
    BY <2>9 DEF Create
  <2> QED BY <2>1, <2>2, <2>3, <2>4, <2>5, <2>6, <2>7, <2>8, <2>9 DEF TrustNext
<1> QED BY <1>1, <1>2, TrustSteps, PTL DEF AbuseSpec

(* A report or an action keeps a stale signal lenient.                     *)
LEMMA WorseKeepsLenient ==
    ASSUME WindowsAssumption, TrustTypeOK, TrustTypeOK', StaleIsLenient,
           Worse(history', history), UNCHANGED <<signal, moved>>
    PROVE  StaleIsLenient'
<1>1. history \in History /\ history' \in History /\ score \in Int /\ hours \in Nat
  BY DEF TrustTypeOK
<1>2. /\ Score(history') \in Int /\ Score(history) \in Int
      /\ Score(history') <= Score(history)
  BY <1>1, ScoreMonotone
<1>3. Throttled(history) => Throttled(history')
  BY <1>2, SettingsAssumption DEF Throttled
<1>4. /\ Hours(history') \in Nat /\ Hours(history) \in Nat
      /\ Hours(history') >= Hours(history)
  BY <1>1, HoursMonotone
<1>5. /\ row' = row /\ moved' = moved /\ score' = score
      /\ throttled' = throttled /\ hours' = hours
  BY DEF signal
<1>6. ASSUME row' = "computed", ~moved' PROVE Score(history)' <= score'
  <2>1. Score(history) <= score
    BY <1>5, <1>6 DEF StaleIsLenient
  <2>2. Score(history') <= score
    BY <2>1, <1>1, <1>2
  <2> QED BY <2>2, <1>5
<1>7. ASSUME row' = "computed", ~moved', throttled'
      PROVE  Throttled(history)' /\ Hours(history)' >= hours'
  <2>1. Throttled(history) /\ Hours(history) >= hours
    BY <1>5, <1>7 DEF StaleIsLenient
  <2>2. Hours(history') >= hours
    BY <2>1, <1>1, <1>4
  <2> QED BY <2>1, <2>2, <1>3, <1>5
<1> QED BY <1>6, <1>7 DEF StaleIsLenient

(***************************************************************************)
(* Whatever the settings are, as long as more serious reasons throttle for *)
(* longer: a signal that is never computed again errs in favour of the     *)
(* actor only.                                                             *)
(***************************************************************************)
THEOREM StaleSignalsAreLenient ==
    ASSUME WindowsAssumption
    PROVE  AbuseSpec => []StaleIsLenient
<1> USE SettingsAssumption, BoundsAssumption
<1>1. TrustInit => StaleIsLenient
  BY DEF TrustInit, StaleIsLenient
<1>2. TrustTypeOK /\ TrustTypeOK' /\ StaleIsLenient /\ [TrustNext]_trustVars
          => StaleIsLenient'
  <2> SUFFICES ASSUME TrustTypeOK, TrustTypeOK', StaleIsLenient, [TrustNext]_trustVars
               PROVE  StaleIsLenient'
    OBVIOUS
  <2>1. CASE Reported
    <3>1. Worse(history', history)
      BY <2>1 DEF Reported, Worse, TrustTypeOK, History
    <3> QED BY <2>1, <3>1, WorseKeepsLenient DEF Reported
  <2>2. CASE Sanctioned
    <3>1. Worse(history', history)
      BY <2>2 DEF Sanctioned, Worse, TrustTypeOK, History
    <3> QED BY <2>2, <3>1, WorseKeepsLenient DEF Sanctioned
  <2>3. CASE Changes
    BY <2>3 DEF Changes, StaleIsLenient, signal
  <2>4. CASE TimePasses
    BY <2>4 DEF TimePasses, StaleIsLenient, signal
  <2>5. CASE Compute
    <3>1. history' = history /\ score' = Score(history)
      BY <2>5 DEF Compute
    <3>2. throttled' => Throttled(history) /\ hours' = Hours(history)
      BY <2>5 DEF Compute
    <3>3. Score(history) \in Int
      BY ScoreMonotone DEF Worse, TrustTypeOK, History
    <3>4. Hours(history) \in Nat
      BY DEF Hours, Reason, Reasons
    <3> QED BY <3>1, <3>2, <3>3, <3>4 DEF StaleIsLenient, Throttled
  <2>6. CASE Lift
    BY <2>6 DEF Lift, StaleIsLenient
  <2>7. ASSUME NEW deed \in Deeds, Does(deed) PROVE StaleIsLenient'
    BY <2>7 DEF Does, StaleIsLenient, signal
  <2>8. CASE UNCHANGED trustVars
    BY <2>8 DEF trustVars, StaleIsLenient, signal
  <2>9. CASE Create
    BY <2>9 DEF Create, StaleIsLenient
  <2> QED BY <2>1, <2>2, <2>3, <2>4, <2>5, <2>6, <2>7, <2>8, <2>9 DEF TrustNext
<1> QED BY <1>1, <1>2, TrustTyped, TrustSteps, PTL DEF AbuseSpec

-----------------------------------------------------------------------------

(* Where a request that has a row of kind k may be.                        *)
MayOwn(k, label) ==
    /\ label \notin {"new", "remove", "create", "denied"}
    /\ k = "repost" => label \notin {"evaluate", "escalate", "file", "undo"}

(* A row is of the request that it is named by, which has not been denied. *)
RowsAreOwned ==
    \A k \in Kinds, p \in Posts : rows[k][p] # NoRow =>
        LET r == rows[k][p]
        IN  Kind[r] = k /\ Post[r] = p /\ MayOwn(k, stage[r])

(* Of two opposite rows one has not been settled.                          *)
OneUnsettled ==
    faults = 0 => \A p \in Posts :
        rows["like"][p] # NoRow /\ rows["dislike"][p] # NoRow =>
            rows["like"][p] \in Settling(p) \/ rows["dislike"][p] \in Settling(p)

(* Only reposts are created after the evaluation, only reactions cleared.  *)
StagesOfKind ==
    \A r \in Requests : /\ stage[r] = "create" => Kind[r] = "repost"
                        /\ stage[r] = "clear" => Kind[r] # "repost"

ToggleInv == TypeOK /\ RowsAreOwned /\ OneUnsettled /\ StagesOfKind

Filing == {r \in Requests : stage[r] = "file"}

(* Of the reports an escalation would find, those that nobody has resolved. *)
Untouched == Standing \ resolved

(* They and those about to be filed are from requests that were once in    *)
(* flight together.                                                        *)
FloodInv ==
    /\ Cardinality(InFlight) <= MaxInFlight
    /\ Cardinality(Untouched \union Filing) <= MaxInFlight

-----------------------------------------------------------------------------

LEMMA CountTyped ==
    ASSUME NEW S \in SUBSET Requests
    PROVE  IsFiniteSet(S) /\ Cardinality(S) \in 0..Cardinality(Requests)
<1>1. IsFiniteSet(Requests)
  BY RequestAssumption
<1>2. IsFiniteSet(S) /\ Cardinality(S) <= Cardinality(Requests)
  BY <1>1, FS_Subset
<1>3. Cardinality(S) \in Nat /\ Cardinality(Requests) \in Nat
  BY <1>1, <1>2, FS_CardinalityType
<1> QED BY <1>2, <1>3

LEMMA ToggleStarts == Init => ToggleInv
<1> SUFFICES ASSUME Init PROVE ToggleInv
  OBVIOUS
<1> USE RequestAssumption DEF Init
<1>1. 0 \in 0..Cardinality(Requests) /\ 0 \in 0..MaxFaults
  BY CountTyped, FS_EmptySet
<1>2. TypeOK
  BY <1>1 DEF TypeOK, Stages, Ended
<1>3. RowsAreOwned
  BY DEF RowsAreOwned
<1>4. OneUnsettled
  BY DEF OneUnsettled, Kinds
<1>5. StagesOfKind
  BY DEF StagesOfKind
<1> QED BY <1>2, <1>3, <1>4, <1>5 DEF ToggleInv

(* Putting v in one place of the rows.                                     *)
LEMMA RowsReplaced ==
    ASSUME TypeOK, NEW k \in Kinds, NEW p \in Posts, NEW v \in Requests \union {NoRow},
           rows' = [rows EXCEPT ![k][p] = v]
    PROVE  /\ rows' \in [Kinds -> [Posts -> Requests \union {NoRow}]]
           /\ rows'[k][p] = v
           /\ \A l \in Kinds, q \in Posts : l # k \/ q # p => rows'[l][q] = rows[l][q]
  BY DEF TypeOK

(* A request makes a step that adds no row.                                *)
LEMMA RowsShrink ==
    ASSUME ToggleInv, NEW r \in Requests, faults' = faults \/ faults' # 0,
           \A k \in Kinds, p \in Posts : rows'[k][p] \in {rows[k][p], NoRow},
           NEW label \in Stages, Goto(r, label),
           label = "create" => Kind[r] = "repost",
           label = "clear" => Kind[r] # "repost",
           \A k \in Kinds, p \in Posts : rows'[k][p] = r => MayOwn(k, label),
           \A p \in Posts : r \in Settling(p) =>
               \/ r \in Settling(p)' \/ faults' # 0
               \/ rows'["like"][p] = NoRow \/ rows'["dislike"][p] = NoRow
               \/ r # rows'["like"][p] /\ r # rows'["dislike"][p]
    PROVE  RowsAreOwned' /\ OneUnsettled' /\ StagesOfKind'
<1>1. stage'[r] = label /\ \A q \in Requests \ {r} : stage'[q] = stage[q]
  BY DEF Goto, ToggleInv, TypeOK
<1>2. \A k \in Kinds, p \in Posts : rows[k][p] # NoRow => rows[k][p] \in Requests
  BY DEF ToggleInv, TypeOK
<1>3. RowsAreOwned'
  BY <1>1, <1>2 DEF ToggleInv, RowsAreOwned
<1>4. \A p \in Posts : \A q \in Settling(p) \ {r} : q \in Settling(p)'
  BY <1>1 DEF Settling, InFlight
<1>5. OneUnsettled'
  BY <1>4 DEF ToggleInv, OneUnsettled, Kinds
<1>6. StagesOfKind'
  BY <1>1 DEF ToggleInv, StagesOfKind
<1> QED BY <1>3, <1>5, <1>6

(* A request inserts its row and goes on.                                  *)
LEMMA RowInserted ==
    ASSUME ToggleInv, NEW r \in Requests, faults' = faults, Row(Kind[r], r) = NoRow, Insert(r),
           NEW label, label = IF Kind[r] = "repost" THEN "count" ELSE "evaluate",
           Goto(r, label), stage[r] \in {"new", "create"}
    PROVE  RowsAreOwned' /\ OneUnsettled' /\ StagesOfKind'
<1>0. Kind[r] \in Kinds /\ Post[r] \in Posts
  BY RequestAssumption DEF Posts
<1>1. stage'[r] = label /\ \A q \in Requests \ {r} : stage'[q] = stage[q]
  BY DEF Goto, ToggleInv, TypeOK
<1>2. \A k \in Kinds, p \in Posts : rows[k][p] # NoRow => rows[k][p] \in Requests
  BY DEF ToggleInv, TypeOK
<1>3. /\ rows'[Kind[r]][Post[r]] = r
      /\ \A k \in Kinds, p \in Posts : k # Kind[r] \/ p # Post[r] => rows'[k][p] = rows[k][p]
  BY <1>0 DEF ToggleInv, TypeOK, Insert
<1>4. RowsAreOwned'
  BY <1>1, <1>2, <1>3 DEF ToggleInv, RowsAreOwned, MayOwn
<1>5. \A p \in Posts : \A q \in Settling(p) \ {r} : q \in Settling(p)'
  BY <1>1 DEF Settling, InFlight
<1>6. \A k \in Kinds, p \in Posts : rows[k][p] # r
  BY RequestAssumption DEF ToggleInv, RowsAreOwned, MayOwn
<1>7. Kind[r] # "repost" => r \in Settling(Post[r])'
  BY <1>1 DEF Settling, InFlight, Ended
<1>8. OneUnsettled'
  <2> SUFFICES ASSUME faults' = 0, NEW p \in Posts,
                      rows'["like"][p] # NoRow, rows'["dislike"][p] # NoRow
               PROVE  rows'["like"][p] \in Settling(p)' \/ rows'["dislike"][p] \in Settling(p)'
    BY DEF OneUnsettled
  <2>1. CASE Kind[r] # "repost" /\ p = Post[r]
    BY <1>0, <1>3, <1>7, <2>1 DEF Kinds
  <2>2. CASE Kind[r] = "repost" \/ p # Post[r]
    <3>1. rows'["like"][p] = rows["like"][p] /\ rows'["dislike"][p] = rows["dislike"][p]
      BY <1>3, <2>2 DEF Kinds
    <3>2. rows["like"][p] # r /\ rows["dislike"][p] # r
      BY <1>6 DEF Kinds
    <3> QED BY <1>5, <3>1, <3>2 DEF ToggleInv, OneUnsettled
  <2> QED BY <2>1, <2>2
<1>9. StagesOfKind'
  BY <1>1 DEF ToggleInv, StagesOfKind
<1> QED BY <1>4, <1>8, <1>9

LEMMA RowsDeleted ==
    ASSUME ToggleInv, NEW r \in Requests, NEW v, Delete(v, r)
    PROVE  /\ rows' \in [Kinds -> [Posts -> Requests \union {NoRow}]]
           /\ \A k \in Kinds, p \in Posts : rows'[k][p] \in {rows[k][p], NoRow}
           /\ Row(Kind[r], r) = v => rows'[Kind[r]][Post[r]] = NoRow
<1>1. Kind[r] \in Kinds /\ Post[r] \in Posts
  BY RequestAssumption DEF Posts
<1>2. CASE Row(Kind[r], r) = v
  BY <1>1, <1>2 DEF ToggleInv, TypeOK, Delete
<1>3. CASE Row(Kind[r], r) # v
  BY <1>3 DEF ToggleInv, TypeOK, Delete
<1> QED BY <1>2, <1>3

LEMMA ToggleTyped ==
    ASSUME ToggleInv, [Next]_vars
    PROVE  TypeOK'
<1> USE RequestAssumption DEF ToggleInv
<1>1. ASSUME NEW r \in Requests, Toggle(r) PROVE TypeOK'
  <2>1. Kind[r] \in Kinds /\ Post[r] \in Posts
    BY DEF Posts
  <2>2. rows' \in [Kinds -> [Posts -> Requests \union {NoRow}]]
    BY <1>1, <2>1, RowsReplaced DEF Toggle, Insert, TypeOK
  <2>3. Row(Kind[r], r) \in Requests \union {NoRow}
    BY <2>1 DEF Row, TypeOK
  <2>4. stage[r] = "new" /\ found[r] = NoRow
    BY <1>1 DEF Toggle, TypeOK
  <2>5. /\ stage' \in [Requests -> Stages] /\ found' \in [Requests -> Requests \union {NoRow}]
        /\ \A q \in Requests : stage'[q] = "remove" <=> found'[q] # NoRow
    <3>1. CASE Row(Kind[r], r) # NoRow /\ found' = [found EXCEPT ![r] = Row(Kind[r], r)]
               /\ Goto(r, "remove")
      <4>1. "remove" \in Stages
        BY DEF Stages
      <4>2. /\ stage' \in [Requests -> Stages]
            /\ found' \in [Requests -> Requests \union {NoRow}]
            /\ stage'[r] = "remove" /\ found'[r] # NoRow
            /\ \A q \in Requests \ {r} : stage'[q] = stage[q] /\ found'[q] = found[q]
        BY <2>3, <3>1, <4>1 DEF TypeOK, Goto
      <4> QED BY <4>2 DEF TypeOK
    <3>2. CASE Goto(r, "evaluate") /\ found' = found
      BY <2>4, <3>2 DEF TypeOK, Goto, Stages
    <3> QED BY <1>1, <3>1, <3>2 DEF Toggle
  <2>6. recent' \subseteq Requests /\ UNCHANGED <<counter, throttle, reports, resolved, aged, count, faults>>
    BY <1>1 DEF Toggle, TypeOK
  <2> QED BY <2>2, <2>5, <2>6 DEF TypeOK
<1>2. ASSUME NEW r \in Requests, Remove(r) PROVE TypeOK'
  BY <1>2, RowsDeleted DEF Remove, TypeOK, Goto, Stages, Ended
<1>3. ASSUME NEW r \in Requests, Evaluate(r) \/ Escalate(r) \/ FileReport(r) PROVE TypeOK'
  BY <1>3 DEF Evaluate, Escalate, FileReport, TypeOK, Goto, Stages
<1>4. ASSUME NEW r \in Requests, Undo(r) PROVE TypeOK'
  BY <1>4, RowsDeleted DEF Undo, TypeOK, Goto, Stages, Ended
<1>5. ASSUME NEW r \in Requests, CreateRepost(r) PROVE TypeOK'
  <2>1. Kind[r] \in Kinds /\ Post[r] \in Posts
    BY DEF Posts
  <2>2. rows' \in [Kinds -> [Posts -> Requests \union {NoRow}]]
    BY <1>5, <2>1, RowsReplaced DEF CreateRepost, Insert, TypeOK
  <2> QED BY <1>5, <2>2 DEF CreateRepost, TypeOK, Goto, Stages, Ended
<1>6. ASSUME NEW r \in Requests, ClearOpposite(r) PROVE TypeOK'
  <2>1. Opposite(Kind[r]) \in Kinds /\ Post[r] \in Posts
    BY DEF Posts, Opposite, Kinds
  <2>2. rows' \in [Kinds -> [Posts -> Requests \union {NoRow}]]
    BY <1>6, <2>1, RowsReplaced DEF ClearOpposite
  <2> QED BY <1>6, <2>2 DEF ClearOpposite, TypeOK, Goto, Stages
<1>7. ASSUME NEW r \in Requests, CountRows(r) PROVE TypeOK'
  <2>1. Cardinality(RecentRows(Kind[r])) \in 0..Cardinality(Requests)
    BY CountTyped DEF RecentRows, TypeOK
  <2> QED BY <1>7, <2>1 DEF CountRows, TypeOK, Goto, Stages
<1>8. 0 \in 0..Cardinality(Requests)
  BY CountTyped, FS_EmptySet
<1>9. ASSUME NEW r \in Requests, SaveCounter(r) PROVE TypeOK'
  BY <1>8, <1>9 DEF SaveCounter, TypeOK, Goto, Stages, Ended, Bucket, Buckets
<1>10. ASSUME NEW r \in Requests, Die(r) PROVE TypeOK'
  BY <1>8, <1>10 DEF Die, TypeOK, Goto, Stages, Ended
<1>11. CASE HourPasses
  BY <1>11 DEF HourPasses, TypeOK
<1>12. ASSUME NEW r \in Requests, ResolveReport(r) \/ ReopenReport(r) \/ WindowEnds(r) PROVE TypeOK'
  BY <1>12 DEF ResolveReport, ReopenReport, WindowEnds, TypeOK
<1>13. CASE UNCHANGED vars
  BY <1>13 DEF vars, TypeOK
<1> QED BY <1>1, <1>2, <1>3, <1>4, <1>5, <1>6, <1>7, <1>9, <1>10, <1>11, <1>12, <1>13
        DEF Next, Step

LEMMA TogglesOwned ==
    ASSUME ToggleInv, [Next]_vars
    PROVE  RowsAreOwned' /\ OneUnsettled' /\ StagesOfKind'
<1> USE RequestAssumption
<1> DEFINE Kept == RowsAreOwned' /\ OneUnsettled' /\ StagesOfKind'
<1>1. ASSUME NEW r \in Requests, rows' = rows, NEW label \in Stages, Goto(r, label),
             faults' = faults \/ faults' # 0,
             \A k \in Kinds : MayOwn(k, stage[r]) /\ k = Kind[r] => MayOwn(k, label),
             label = "create" => Kind[r] = "repost",
             label = "clear" => Kind[r] # "repost",
             \A p \in Posts : r \in Settling(p) => r \in Settling(p)' \/ faults' # 0
      PROVE  Kept
  <2>1. \A k \in Kinds, p \in Posts : rows'[k][p] \in {rows[k][p], NoRow}
    BY <1>1
  <2>2. \A k \in Kinds, p \in Posts : rows'[k][p] = r => MayOwn(k, label)
    BY <1>1 DEF ToggleInv, RowsAreOwned
  <2> QED BY <1>1, <2>1, <2>2, RowsShrink
<1>2. ASSUME NEW r \in Requests, Toggle(r) PROVE Kept
  <2>1. stage[r] = "new" /\ faults' = faults
    BY <1>2 DEF Toggle
  <2>2. \A p \in Posts : r \notin Settling(p)
    BY <2>1 DEF Settling, InFlight
  <2>3. CASE rows' = rows /\ (Goto(r, "remove") \/ Goto(r, "evaluate"))
    BY <1>1, <2>1, <2>2, <2>3 DEF Stages, MayOwn
  <2>4. CASE /\ Row(Kind[r], r) = NoRow /\ Insert(r) /\ Goto(r, "evaluate")
            /\ Kind[r] # "repost"
    BY <2>1, <2>4, RowInserted
  <2> QED BY <1>2, <2>3, <2>4 DEF Toggle
<1>3. ASSUME NEW r \in Requests, Remove(r) PROVE Kept
  <2>1. stage[r] = "remove" /\ faults' = faults /\ Goto(r, "done") /\ Delete(found[r], r)
    BY <1>3 DEF Remove
  <2>2. \A p \in Posts : r \notin Settling(p)
    BY <2>1 DEF Settling
  <2>3. \A k \in Kinds, p \in Posts : rows'[k][p] \in {rows[k][p], NoRow}
    BY <2>1, RowsDeleted
  <2>4. \A k \in Kinds, p \in Posts : rows'[k][p] # r
    BY <2>1, <2>3 DEF ToggleInv, RowsAreOwned, MayOwn
  <2> QED BY <2>1, <2>2, <2>3, <2>4, RowsShrink DEF Stages, Ended
<1>4. ASSUME NEW r \in Requests, Evaluate(r) PROVE Kept
  <2>1. /\ stage[r] = "evaluate" /\ faults' = faults /\ rows' = rows
        /\ \/ Goto(r, "escalate")
           \/ Kind[r] = "repost" /\ Goto(r, "create")
           \/ Kind[r] # "repost" /\ Goto(r, "clear")
    BY <1>4 DEF Evaluate
  <2>2. \A p \in Posts : r \in Settling(p) =>
            Kind[r] # "repost" /\ (Goto(r, "escalate") \/ Goto(r, "clear"))
    BY <2>1 DEF Settling
  <2>3. \A p \in Posts : r \in Settling(p) => r \in Settling(p)'
    BY <2>2 DEF Settling, InFlight, Goto, ToggleInv, TypeOK, Ended
  <2> QED BY <1>1, <2>1, <2>3 DEF Stages, MayOwn
<1>5. ASSUME NEW r \in Requests, Escalate(r) \/ FileReport(r) PROVE Kept
  <2>1. /\ stage[r] \in {"escalate", "file"} /\ faults' = faults /\ rows' = rows
        /\ Goto(r, "file") \/ Goto(r, "undo")
    BY <1>5 DEF Escalate, FileReport
  <2>2. \A p \in Posts : r \in Settling(p) => r \in Settling(p)'
    BY <2>1 DEF Settling, InFlight, Goto, ToggleInv, TypeOK, Ended
  <2> QED BY <1>1, <2>1, <2>2 DEF Stages, MayOwn
<1>6. ASSUME NEW r \in Requests, Undo(r) PROVE Kept
  <2>1. stage[r] = "undo" /\ faults' = faults /\ Goto(r, "denied") /\ Delete(r, r)
    BY <1>6 DEF Undo
  <2>2. /\ \A k \in Kinds, p \in Posts : rows'[k][p] \in {rows[k][p], NoRow}
        /\ Row(Kind[r], r) = r => rows'[Kind[r]][Post[r]] = NoRow
    BY <2>1, RowsDeleted
  <2>3. \A k \in Kinds, p \in Posts : rows'[k][p] # r
    BY <2>2 DEF ToggleInv, RowsAreOwned, Row
  <2> QED BY <2>1, <2>2, <2>3, RowsShrink DEF Stages, Ended, Kinds
<1>7. ASSUME NEW r \in Requests, CreateRepost(r) PROVE Kept
  <2>1. stage[r] = "create" /\ faults' = faults /\ Kind[r] = "repost"
    BY <1>7 DEF CreateRepost, ToggleInv, StagesOfKind
  <2>2. CASE Row("repost", r) = NoRow /\ Insert(r) /\ Goto(r, "count")
    BY <2>1, <2>2, RowInserted
  <2>3. CASE rows' = rows /\ Goto(r, "done")
    <3>1. \A p \in Posts : r \notin Settling(p)
      BY <2>1 DEF Settling
    <3> QED BY <1>1, <2>1, <2>3, <3>1 DEF Stages, Ended, MayOwn
  <2> QED BY <1>7, <2>2, <2>3 DEF CreateRepost
<1>8. ASSUME NEW r \in Requests, ClearOpposite(r) PROVE Kept
  <2>1. /\ stage[r] = "clear" /\ faults' = faults /\ Kind[r] \in {"like", "dislike"}
        /\ Goto(r, "count") /\ Post[r] \in Posts
        /\ rows' = [rows EXCEPT ![Opposite(Kind[r])][Post[r]] = NoRow]
    BY <1>8 DEF ClearOpposite, ToggleInv, StagesOfKind, Kinds, Posts
  <2>2. Opposite(Kind[r]) \in {"like", "dislike"}
    BY DEF Opposite
  <2>3. /\ \A k \in Kinds, p \in Posts : rows'[k][p] \in {rows[k][p], NoRow}
        /\ rows'[Opposite(Kind[r])][Post[r]] = NoRow
    BY <2>1, <2>2 DEF ToggleInv, TypeOK, Kinds
  <2>4. \A p \in Posts : r \in Settling(p) =>
            rows'["like"][p] = NoRow \/ rows'["dislike"][p] = NoRow
    BY <2>2, <2>3 DEF Settling
  <2>5. \A k \in Kinds, p \in Posts : rows'[k][p] = r => MayOwn(k, "count")
    BY DEF MayOwn
  <2> QED BY <2>1, <2>3, <2>4, <2>5, RowsShrink DEF Stages
<1>9. ASSUME NEW r \in Requests, CountRows(r) \/ SaveCounter(r) PROVE Kept
  <2>1. /\ stage[r] \in {"count", "save"} /\ faults' = faults /\ rows' = rows
        /\ Goto(r, "save") \/ Goto(r, "done")
    BY <1>9 DEF CountRows, SaveCounter
  <2>2. \A p \in Posts : r \notin Settling(p)
    BY <2>1 DEF Settling
  <2> QED BY <1>1, <2>1, <2>2 DEF Stages, Ended, MayOwn
<1>10. ASSUME NEW r \in Requests, Die(r) PROVE Kept
  <2>1. rows' = rows /\ Goto(r, "dead") /\ faults' # 0
    BY <1>10 DEF Die, ToggleInv, TypeOK
  <2> QED BY <1>1, <2>1 DEF Stages, Ended, MayOwn
<1>11. CASE UNCHANGED <<rows, stage, faults>>
  BY <1>11 DEF ToggleInv, RowsAreOwned, OneUnsettled, StagesOfKind, Settling, InFlight
<1> QED BY <1>2, <1>3, <1>4, <1>5, <1>6, <1>7, <1>8, <1>9, <1>10, <1>11
        DEF Next, Step, HourPasses, ResolveReport, ReopenReport, WindowEnds, vars

LEMMA ToggleStep == ToggleInv /\ [Next]_vars => ToggleInv'
  BY ToggleTyped, TogglesOwned DEF ToggleInv

(* What toggles are in the composition.                                    *)
LEMMA ToggleSteps ==
    /\ AbuseInit => Init
    /\ [Toggles \/ Trust]_abuseVars => [Next]_vars
  BY DEF AbuseInit, Toggles, Trust, abuseVars

LEMMA AlwaysToggling == AbuseSpec => []ToggleInv
  BY ToggleStarts, ToggleSteps, ToggleStep, PTL DEF AbuseSpec

(***************************************************************************)
(* The toggles of one actor stay in their types.                           *)
(***************************************************************************)
THEOREM TogglesTypeCorrect == AbuseSpec => []TypeOK
<1>1. ToggleInv => TypeOK
  BY DEF ToggleInv
<1> QED BY <1>1, AlwaysToggling, PTL

(***************************************************************************)
(* OneReaction, for any requests on any posts: a post stays both liked and *)
(* disliked only until the requests in flight are done.                    *)
(***************************************************************************)
THEOREM ReactionsExclude == AbuseSpec => []OneReaction
<1>1. ToggleInv => OneReaction
  BY DEF ToggleInv, OneUnsettled, OneReaction
<1> QED BY <1>1, AlwaysToggling, PTL

(***************************************************************************)
(* DeniedLeavesNothing, for any requests.                                  *)
(***************************************************************************)
THEOREM DenialsLeaveNothing == AbuseSpec => []DeniedLeavesNothing
<1>1. ToggleInv => DeniedLeavesNothing
  BY RequestAssumption DEF ToggleInv, RowsAreOwned, MayOwn, DeniedLeavesNothing
<1> QED BY <1>1, AlwaysToggling, PTL

-----------------------------------------------------------------------------

LEMMA Smaller ==
    ASSUME NEW S \in SUBSET Requests, NEW T \in SUBSET S
    PROVE  Cardinality(T) \in Nat /\ Cardinality(S) \in Nat /\ Cardinality(T) <= Cardinality(S)
<1>1. IsFiniteSet(S)
  BY CountTyped
<1> QED BY <1>1, FS_Subset, FS_CardinalityType

LEMMA FloodStep ==
    ASSUME ToggleInv, FloodInv, [Next]_vars
    PROVE  FloodInv'
<1> USE RequestAssumption DEF ToggleInv, TypeOK
<1>0. /\ InFlight \subseteq Requests /\ InFlight' \subseteq Requests
      /\ Untouched \union Filing \subseteq Requests
      /\ Cardinality(InFlight) <= MaxInFlight
      /\ Cardinality(Untouched \union Filing) <= MaxInFlight
  BY DEF InFlight, Filing, Untouched, Standing, FloodInv
<1>1. ASSUME InFlight' \subseteq InFlight, Untouched' \union Filing' \subseteq Untouched \union Filing
      PROVE  FloodInv'
  <2>1. Cardinality(InFlight') <= Cardinality(InFlight)
        /\ Cardinality(InFlight') \in Nat /\ Cardinality(InFlight) \in Nat
    BY <1>0, <1>1, Smaller
  <2>2. /\ Cardinality(Untouched' \union Filing') <= Cardinality(Untouched \union Filing)
        /\ Cardinality(Untouched' \union Filing') \in Nat
        /\ Cardinality(Untouched \union Filing) \in Nat
    BY <1>0, <1>1, Smaller
  <2>3. Cardinality(InFlight)' = Cardinality(InFlight')
        /\ Cardinality(Untouched \union Filing)' = Cardinality(Untouched' \union Filing')
    OBVIOUS
  <2> QED BY <1>0, <2>1, <2>2, <2>3 DEF FloodInv
<1>2. ASSUME NEW r \in Requests, Toggle(r) PROVE FloodInv'
  <2>1. /\ stage[r] = "new" /\ Cardinality(InFlight) < MaxInFlight /\ Untouched' = Untouched
        /\ stage'[r] \in {"remove", "evaluate"}
        /\ \A q \in Requests \ {r} : stage'[q] = stage[q]
    BY <1>2 DEF Toggle, Goto, Untouched, Standing
  <2>2. InFlight' = InFlight \union {r} /\ r \notin InFlight /\ Filing' = Filing
    BY <2>1 DEF InFlight, Filing, Ended
  <2>3. IsFiniteSet(InFlight)
    BY <1>0, CountTyped
  <2>4. Cardinality(InFlight') = Cardinality(InFlight) + 1 /\ Cardinality(InFlight) \in Nat
    BY <2>2, <2>3, FS_AddElement, FS_CardinalityType
  <2> QED BY <1>0, <2>1, <2>2, <2>4 DEF FloodInv
<1>3. ASSUME NEW r \in Requests, NEW label \in Stages \ {"new", "file"}, Goto(r, label),
             r \in InFlight, Untouched' \subseteq Untouched \union (Filing \intersect {r})
      PROVE  FloodInv'
  <2>1. stage'[r] = label /\ \A q \in Requests \ {r} : stage'[q] = stage[q]
    BY <1>3 DEF Goto
  <2>2. InFlight' \subseteq InFlight /\ Filing' \subseteq Filing
    BY <1>3, <2>1 DEF InFlight, Filing, Ended
  <2> QED BY <1>1, <1>3, <2>2
<1>4. ASSUME NEW r \in Requests, Escalate(r) PROVE FloodInv'
  <2>1. stage[r] = "escalate" /\ Untouched' = Untouched
    BY <1>4 DEF Escalate, Untouched, Standing
  <2>2. r \in InFlight
    BY <2>1 DEF InFlight, Ended
  <2>3. CASE Goto(r, "undo")
    BY <1>3, <2>1, <2>2, <2>3 DEF Stages
  <2>4. CASE Goto(r, "file") /\ Standing = {}
    <3>0. Untouched = {}
      BY <2>4 DEF Untouched
    <3>1. stage'[r] = "file" /\ \A q \in Requests \ {r} : stage'[q] = stage[q]
      BY <2>4 DEF Goto
    <3>2. InFlight' = InFlight /\ Untouched' \union Filing' \subseteq InFlight
      BY <2>1, <3>0, <3>1 DEF InFlight, Filing, Ended
    <3>3. Cardinality(Untouched' \union Filing') <= Cardinality(InFlight)
          /\ Cardinality(Untouched' \union Filing') \in Nat /\ Cardinality(InFlight) \in Nat
      BY <1>0, <3>2, Smaller
    <3> QED BY <1>0, <3>2, <3>3 DEF FloodInv
  <2> QED BY <1>4, <2>3, <2>4 DEF Escalate
<1>5. ASSUME NEW r \in Requests, FileReport(r) PROVE FloodInv'
  <2>1. /\ stage[r] = "file" /\ Goto(r, "undo")
        /\ Untouched' \subseteq Untouched \union {r}
    BY <1>5 DEF FileReport, Untouched, Standing
  <2> QED BY <1>3, <2>1 DEF InFlight, Filing, Ended, Stages
<1>6. ASSUME NEW r \in Requests,
             Remove(r) \/ Evaluate(r) \/ Undo(r) \/ CreateRepost(r) \/ ClearOpposite(r)
               \/ CountRows(r) \/ SaveCounter(r) \/ Die(r)
      PROVE  FloodInv'
  <2>1. /\ r \in InFlight /\ Untouched' = Untouched
        /\ \E label \in Stages \ {"new", "file"} : Goto(r, label)
    BY <1>6 DEF Remove, Evaluate, Undo, CreateRepost, ClearOpposite, CountRows, SaveCounter,
                Die, InFlight, Stages, Ended, Untouched, Standing
  <2> QED BY <1>3, <2>1
<1>7. CASE Untouched' \subseteq Untouched /\ stage' = stage
  BY <1>1, <1>7 DEF InFlight, Filing
<1>8. ASSUME NEW r \in Requests, ResolveReport(r) \/ ReopenReport(r) \/ WindowEnds(r) PROVE FloodInv'
  BY <1>7, <1>8 DEF ResolveReport, ReopenReport, WindowEnds, Untouched, Standing
<1>9. CASE HourPasses \/ UNCHANGED vars
  BY <1>7, <1>9 DEF HourPasses, vars, Untouched, Standing
<1> QED BY <1>2, <1>4, <1>5, <1>6, <1>8, <1>9 DEF Next, Step

(***************************************************************************)
(* NoReportFlood, for any number of requests, any ends of the window and   *)
(* any work of staff: of the automatic reports of the last 24 hours, apart *)
(* from those staff open again, no more are open than requests are handled *)
(* at the same time.                                                       *)
(***************************************************************************)
THEOREM ReportsDoNotFlood == AbuseSpec => []NoReportFlood
<1>1. Init => FloodInv
  <2> SUFFICES ASSUME Init PROVE FloodInv
    OBVIOUS
  <2>1. InFlight = {} /\ Untouched \union Filing = {}
    BY DEF Init, InFlight, Filing, Untouched, Standing
  <2> QED BY <2>1, FS_EmptySet, RequestAssumption DEF FloodInv
<1>2. ToggleInv /\ FloodInv /\ [Next]_vars => FloodInv'
  BY FloodStep
<1>3. ToggleInv /\ FloodInv => NoReportFlood
  <2> SUFFICES ASSUME ToggleInv, FloodInv PROVE NoReportFlood
    OBVIOUS
  <2>1. Untouched \union Filing \in SUBSET Requests /\ Untouched \in SUBSET (Untouched \union Filing)
    BY DEF ToggleInv, TypeOK, Filing, Untouched, Standing
  <2>2. Cardinality(Untouched) <= Cardinality(Untouched \union Filing)
        /\ Cardinality(Untouched) \in Nat /\ Cardinality(Untouched \union Filing) \in Nat
    BY <2>1, Smaller
  <2> QED BY <2>2, RequestAssumption DEF FloodInv, NoReportFlood, Untouched
<1> QED BY <1>1, <1>2, <1>3, AlwaysToggling, ToggleSteps, PTL DEF AbuseSpec
=============================================================================
