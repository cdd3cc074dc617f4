-------------------------- MODULE ModerationProofs --------------------------
(***************************************************************************)
(* Theorems about Moderation, for any rows, texts, reports and processes.  *)
(***************************************************************************)
EXTENDS Moderation, TLAPS

Labels == {"uri", "reject", "previous", "save", "history"}

(* An edit has loaded a row that was there and not deleted.                *)
LoadedOk ==
    \A s \in Slots : edit[s].pc \in {"previous", "save"} =>
        edit[s].loaded.uri # "none" /\ ~edit[s].loaded.deleted

-----------------------------------------------------------------------------

LEMMA IdleOrBusy ==
    ASSUME NEW e \in Editing \union {Idle}
    PROVE  /\ e.pc = "idle" <=> e = Idle
           /\ e # Idle => e \in Editing
  BY DEF Editing, Idle

LEMMA GotoTyped ==
    ASSUME NEW e \in Editing, NEW label \in Labels
    PROVE  /\ [e EXCEPT !.pc = label] \in Editing
           /\ [e EXCEPT !.pc = label].id = e.id
           /\ [e EXCEPT !.pc = label].pc = label
           /\ [e EXCEPT !.pc = label].loaded = e.loaded
  BY DEF Editing, Labels

LEMMA MissingTyped ==
    ASSUME Texts # {}
    PROVE  Missing \in Row
<1>1. (CHOOSE t \in Texts : TRUE) \in Texts
  OBVIOUS
<1> QED BY <1>1 DEF Missing, Row

LEMMA PublishedTyped ==
    ASSUME NEW text \in Texts
    PROVE  /\ Published(text) \in Row
           /\ Published(text).uri # "none"
           /\ \A uri \in {"pending", "own"} :
                 /\ [Published(text) EXCEPT !.uri = uri] \in Row
                 /\ [Published(text) EXCEPT !.uri = uri].uri # "none"
                 /\ [Published(text) EXCEPT !.uri = uri].text = text
<1>1. Missing \in Row
  BY MissingTyped
<1>2. Published(text) \in Row /\ Published(text).uri = "own" /\ Published(text).text = text
  BY <1>1 DEF Published, Row
<1> QED BY <1>2 DEF Row

(* What a process may be doing when the rows are R.                        *)
SlotOk(e, R) ==
    /\ e # Idle => R[e.id].uri # "none"
    /\ e.pc \in {"previous", "save"} => e.loaded.uri # "none" /\ ~e.loaded.deleted

PublishingOk ==
    /\ row \in [Rows -> Row]
    /\ history \in [Rows -> SUBSET Change]
    /\ edit \in [Slots -> Editing \union {Idle}]
    /\ \A s \in Slots : SlotOk(edit[s], row)
    /\ started \in 0..MaxRequests
    /\ died \in 0..MaxDeaths
    /\ first \in [Rows -> Texts]
    /\ lost \subseteq Rows

LEMMA PublishingOkIsTyped == PublishingOk <=> PublishingTypeOK /\ LoadedOk
  BY IdleOrBusy DEF PublishingOk, PublishingTypeOK, LoadedOk, SlotOk

(* Rows are replaced by rows; none goes.                                   *)
LEMMA RowReplaced ==
    ASSUME row \in [Rows -> Row], NEW x \in Rows, NEW r \in Row, r.uri # "none",
           row' = [row EXCEPT ![x] = r]
    PROVE  /\ row' \in [Rows -> Row]
           /\ \A y \in Rows : row[y].uri # "none" => row'[y].uri # "none"
           /\ row'[x].uri # "none"
  OBVIOUS

LEMMA SlotReplaced ==
    ASSUME edit \in [Slots -> Editing \union {Idle}],
           \A s \in Slots : SlotOk(edit[s], row),
           \A y \in Rows : row[y].uri # "none" => row'[y].uri # "none",
           NEW t \in Slots, NEW e \in Editing \union {Idle}, SlotOk(e, row'),
           edit' = [edit EXCEPT ![t] = e]
    PROVE  /\ edit' \in [Slots -> Editing \union {Idle}]
           /\ \A s \in Slots : SlotOk(edit'[s], row')
<1>1. \A s \in Slots : SlotOk(edit[s], row')
  <2> SUFFICES ASSUME NEW s \in Slots PROVE SlotOk(edit[s], row')
    OBVIOUS
  <2>1. edit[s] # Idle => edit[s].id \in Rows
    BY IdleOrBusy DEF SlotOk, Editing
  <2> QED BY <2>1 DEF SlotOk
<1>2. edit'[t] = e /\ \A s \in Slots \ {t} : edit'[s] = edit[s]
  OBVIOUS
<1> QED BY <1>1, <1>2

LEMMA IdleOk == \A R : SlotOk(Idle, R)
  BY DEF SlotOk, Idle

LEMMA SlotsStay ==
    ASSUME edit \in [Slots -> Editing \union {Idle}],
           \A s \in Slots : SlotOk(edit[s], row),
           \A y \in Rows : row[y].uri # "none" => row'[y].uri # "none"
    PROVE  \A s \in Slots : SlotOk(edit[s], row')
  <1> SUFFICES ASSUME NEW s \in Slots PROVE SlotOk(edit[s], row')
    OBVIOUS
  <1>1. edit[s] # Idle => edit[s].id \in Rows
    BY IdleOrBusy DEF Editing
  <1> QED BY <1>1 DEF SlotOk

LEMMA BusySlot ==
    ASSUME PublishingOk, NEW s \in Slots, edit[s].pc # "idle"
    PROVE  /\ edit[s] \in Editing
           /\ edit[s].id \in Rows
           /\ edit[s].new \in Texts /\ edit[s].previous \in Texts
           /\ edit[s].loaded \in Row
           /\ row[edit[s].id] \in Row
           /\ row[edit[s].id].uri # "none"
<1>1. edit[s] # Idle
  BY DEF Idle
<1>2. edit[s] \in Editing
  BY <1>1 DEF PublishingOk
<1> QED BY <1>1, <1>2 DEF PublishingOk, SlotOk, Editing

LEMMA Begun ==
    ASSUME NEW x \in Rows, NEW text \in Texts, NEW web \in BOOLEAN, NEW label \in Labels,
           row[x] \in Row
    PROVE  LET e == [pc |-> label, id |-> x, web |-> web, loaded |-> row[x],
                     new |-> text, previous |-> row[x].text, late |-> FALSE]
           IN  /\ e \in Editing /\ e.id = x /\ e.pc = label /\ e.loaded = row[x] /\ e # Idle
  BY DEF Editing, Row, Labels, Idle

LEMMA CountTyped ==
    ASSUME PublishingAssumption, started \in 0..MaxRequests, Count
    PROVE  started' \in 0..MaxRequests /\ died' = died
  BY DEF Count, PublishingAssumption

(* A deletion marks the edits that come late and changes nothing else.     *)
LEMMA OvertakenOk ==
    ASSUME edit \in [Slots -> Editing \union {Idle}], NEW x
    PROVE  /\ Overtaken(x) \in [Slots -> Editing \union {Idle}]
           /\ \A t \in Slots :
                 LET e == Overtaken(x)[t]
                 IN  /\ e.pc = edit[t].pc
                     /\ e = Idle <=> edit[t] = Idle
                     /\ edit[t] # Idle =>
                           /\ e.id = edit[t].id /\ e.web = edit[t].web
                           /\ e.loaded = edit[t].loaded /\ e.new = edit[t].new
                           /\ e.previous = edit[t].previous
                           /\ e.late = (edit[t].late \/ Blind(t, x))
<1> SUFFICES ASSUME NEW t \in Slots
             PROVE  LET e == IF Blind(t, x) THEN [edit[t] EXCEPT !.late = TRUE] ELSE edit[t]
                    IN  /\ e \in Editing \union {Idle}
                        /\ e.pc = edit[t].pc
                        /\ e = Idle <=> edit[t] = Idle
                        /\ edit[t] # Idle =>
                              /\ e.id = edit[t].id /\ e.web = edit[t].web
                              /\ e.loaded = edit[t].loaded /\ e.new = edit[t].new
                              /\ e.previous = edit[t].previous
                              /\ e.late = (edit[t].late \/ Blind(t, x))
  BY DEF Overtaken
<1>1. CASE edit[t] = Idle
  BY <1>1 DEF Blind, Idle
<1>2. CASE edit[t] # Idle
  <2>1. edit[t] \in Editing
    BY <1>2
  <2> QED BY <2>1, <1>2 DEF Editing, Idle
<1> QED BY <1>1, <1>2

(* so the rows and the edits stay what they are when row x is withdrawn.   *)
LEMMA WithdrawKeeps ==
    ASSUME PublishingOk, NEW x \in Rows, row[x].uri # "none", Withdraw(x)
    PROVE  /\ row' \in [Rows -> Row]
           /\ \A y \in Rows : row[y].uri # "none" => row'[y].uri # "none"
           /\ Overtaken(x) \in [Slots -> Editing \union {Idle}]
           /\ \A t \in Slots : SlotOk(Overtaken(x)[t], row')
<1> DEFINE r == [row[x] EXCEPT !.deleted = TRUE]
<1>1. r \in Row /\ r.uri # "none" /\ row' = [row EXCEPT ![x] = r]
  BY DEF PublishingOk, Row, Withdraw
<1> HIDE DEF r
<1>2. /\ row' \in [Rows -> Row]
      /\ \A y \in Rows : row[y].uri # "none" => row'[y].uri # "none"
  BY <1>1, RowReplaced DEF PublishingOk
<1>3. \A t \in Slots : SlotOk(edit[t], row')
  BY <1>2, SlotsStay DEF PublishingOk
<1>4. Overtaken(x) \in [Slots -> Editing \union {Idle}]
  BY OvertakenOk DEF PublishingOk
<1>5. ASSUME NEW t \in Slots PROVE SlotOk(Overtaken(x)[t], row')
  <2>1. SlotOk(edit[t], row')
    BY <1>3
  <2>2. CASE edit[t] = Idle
    BY <2>2, OvertakenOk, IdleOk DEF PublishingOk
  <2>3. CASE edit[t] # Idle
    BY <2>1, <2>3, OvertakenOk DEF PublishingOk, SlotOk
  <2> QED BY <2>2, <2>3
<1> QED BY <1>2, <1>4, <1>5

LEMMA CreateKeeps ==
    ASSUME PublishingOk, NEW s \in Slots, CreateStep(s), PublishingAssumption
    PROVE  PublishingOk'
<1>1. ASSUME NEW x \in Posts, NEW text \in Texts, ApiCreate(s, x, text) PROVE PublishingOk'
  <2>1. x \in Rows /\ row[x] \in Row
    BY DEF Rows, PublishingOk
  <2> DEFINE e == [pc |-> "uri", id |-> x, web |-> FALSE, loaded |-> row[x],
                   new |-> text, previous |-> row[x].text, late |-> FALSE]
             r == [Published(text) EXCEPT !.uri = "pending"]
  <2>2. row' = [row EXCEPT ![x] = r] /\ edit' = [edit EXCEPT ![s] = e]
    BY <1>1 DEF ApiCreate, Publish, Begin
  <2>3. e \in Editing /\ e.id = x /\ e.pc = "uri"
    BY <2>1, Begun DEF Labels
  <2>4. r \in Row /\ r.uri # "none"
    BY PublishedTyped
  <2> HIDE DEF e, r
  <2>5. /\ row' \in [Rows -> Row] /\ row'[x].uri # "none"
        /\ \A y \in Rows : row[y].uri # "none" => row'[y].uri # "none"
    BY <2>1, <2>2, <2>4, RowReplaced DEF PublishingOk
  <2>6. SlotOk(e, row')
    BY <2>3, <2>5 DEF SlotOk
  <2>7. /\ edit' \in [Slots -> Editing \union {Idle}]
        /\ \A t \in Slots : SlotOk(edit'[t], row')
    BY <2>2, <2>3, <2>5, <2>6, SlotReplaced DEF PublishingOk
  <2>8. started' \in 0..MaxRequests /\ died' = died
    BY <1>1, CountTyped DEF ApiCreate, Begin, PublishingOk
  <2>9. first' \in [Rows -> Texts] /\ UNCHANGED <<history, lost>>
    BY <1>1, <2>1 DEF ApiCreate, Publish, PublishingOk
  <2> QED BY <2>5, <2>7, <2>8, <2>9 DEF PublishingOk
<1>2. ASSUME ApiUri(s) PROVE PublishingOk'
  <2> DEFINE x == edit[s].id
             r == [row[x] EXCEPT !.uri = "own"]
  <2>1. edit[s].pc = "uri" /\ row' = [row EXCEPT ![x] = r]
    BY <1>2 DEF ApiUri, At, PublishingOk
  <2>2. edit[s] \in Editing /\ x \in Rows /\ row[x] \in Row
    BY <2>1, BusySlot
  <2>3. r \in Row /\ r.uri # "none"
    BY <2>2 DEF Row
  <2>4. /\ row' \in [Rows -> Row] /\ row'[x].uri # "none"
        /\ \A y \in Rows : row[y].uri # "none" => row'[y].uri # "none"
    <3> HIDE DEF x, r
    <3> QED BY <2>1, <2>2, <2>3, RowReplaced DEF PublishingOk
  <2>5. PICK e \in Editing \union {Idle} : edit' = [edit EXCEPT ![s] = e] /\ SlotOk(e, row')
    <3>1. CASE Goto(s, "reject")
      <4>1. edit' = [edit EXCEPT ![s] = [edit[s] EXCEPT !.pc = "reject"]]
        BY <3>1 DEF Goto, PublishingOk
      <4>2. /\ [edit[s] EXCEPT !.pc = "reject"] \in Editing
            /\ SlotOk([edit[s] EXCEPT !.pc = "reject"], row')
        BY <2>2, <2>4, GotoTyped DEF Labels, SlotOk
      <4> QED BY <4>1, <4>2
    <3>2. CASE Done(s)
      BY <3>2, IdleOk DEF Done
    <3> QED BY <1>2, <3>1, <3>2 DEF ApiUri
  <2>6. /\ edit' \in [Slots -> Editing \union {Idle}]
        /\ \A t \in Slots : SlotOk(edit'[t], row')
    BY <2>4, <2>5, SlotReplaced DEF PublishingOk
  <2> QED BY <1>2, <2>4, <2>6 DEF PublishingOk, ApiUri, bounds
<1>3. ASSUME ApiReject(s) PROVE PublishingOk'
  <2>1. edit[s].pc = "reject" /\ Withdraw(edit[s].id)
    BY <1>3 DEF ApiReject, At
  <2>2. edit[s].id \in Rows /\ row[edit[s].id].uri # "none"
    BY <2>1, BusySlot
  <2> DEFINE o == Overtaken(edit[s].id)
  <2>3. /\ row' \in [Rows -> Row]
        /\ o \in [Slots -> Editing \union {Idle}]
        /\ \A t \in Slots : SlotOk(o[t], row')
    BY <2>1, <2>2, WithdrawKeeps
  <2>4. edit' = [o EXCEPT ![s] = Idle]
    BY <1>3 DEF ApiReject
  <2> HIDE DEF o
  <2>5. /\ edit' \in [Slots -> Editing \union {Idle}]
        /\ \A t \in Slots : SlotOk(edit'[t], row')
    BY <2>3, <2>4, IdleOk
  <2> QED BY <1>3, <2>3, <2>5 DEF PublishingOk, ApiReject, bounds
<1> QED BY <1>1, <1>2, <1>3 DEF CreateStep

LEMMA EditKeeps ==
    ASSUME PublishingOk, NEW s \in Slots, EditStep(s), PublishingAssumption
    PROVE  PublishingOk'
<1>1. ASSUME NEW x \in Rows, NEW web \in BOOLEAN, NEW text \in Texts,
             EditBegin(s, x, web, text)
      PROVE  PublishingOk'
  <2> DEFINE label == IF web /\ x \in Comments THEN "save" ELSE "previous"
             e == [pc |-> label, id |-> x, web |-> web, loaded |-> row[x],
                   new |-> text, previous |-> row[x].text, late |-> FALSE]
  <2>1. edit' = [edit EXCEPT ![s] = e] /\ row[x].uri # "none" /\ ~row[x].deleted /\ row' = row
    BY <1>1, Zenon DEF EditBegin, Begin, Exists
  <2>2. label \in Labels /\ row[x] \in Row
    BY DEF Labels, PublishingOk
  <2>3. e \in Editing /\ e.id = x /\ e.loaded = row[x]
    <3> HIDE DEF label
    <3> QED BY <2>2, Begun
  <2> HIDE DEF e
  <2>4. SlotOk(e, row')
    BY <2>1, <2>3 DEF SlotOk
  <2>5. /\ edit' \in [Slots -> Editing \union {Idle}]
        /\ \A t \in Slots : SlotOk(edit'[t], row')
    BY <2>1, <2>3, <2>4, SlotReplaced DEF PublishingOk
  <2>6. started' \in 0..MaxRequests /\ died' = died
    BY <1>1, CountTyped DEF EditBegin, Begin, PublishingOk
  <2> QED BY <1>1, <2>1, <2>5, <2>6 DEF PublishingOk, EditBegin
<1>2. ASSUME EditPrevious(s) PROVE PublishingOk'
  <2>1. edit[s].pc = "previous" /\ row' = row
    BY <1>2 DEF EditPrevious, At
  <2>2. edit[s] \in Editing /\ row[edit[s].id] \in Row /\ edit[s] # Idle /\ SlotOk(edit[s], row)
    BY <2>1, BusySlot DEF Idle, PublishingOk
  <2> DEFINE e == [edit[s] EXCEPT !.pc = "save", !.previous = row[edit[s].id].text]
  <2>3. e \in Editing /\ e.id = edit[s].id /\ e.loaded = edit[s].loaded
    BY <2>2 DEF Editing, Row
  <2>4. SlotOk(e, row') /\ SlotOk(Idle, row')
    BY <2>1, <2>2, <2>3, IdleOk DEF SlotOk
  <2>5. \/ edit' = [edit EXCEPT ![s] = Idle]
        \/ edit' = [edit EXCEPT ![s] = e]
    BY <1>2 DEF EditPrevious, Done, PublishingOk
  <2> HIDE DEF e
  <2>6. /\ edit' \in [Slots -> Editing \union {Idle}]
        /\ \A t \in Slots : SlotOk(edit'[t], row')
    BY <2>1, <2>3, <2>4, <2>5 DEF PublishingOk
  <2> QED BY <1>2, <2>6 DEF PublishingOk, EditPrevious, bounds
<1>3. ASSUME EditSave(s) PROVE PublishingOk'
  <2> DEFINE x == edit[s].id
             r == [(IF WholeRow(s) THEN edit[s].loaded ELSE row[x]) EXCEPT !.text = edit[s].new]
  <2>1. edit[s].pc = "save"
    BY <1>3 DEF EditSave, At
  <2>2. /\ edit[s] \in Editing /\ x \in Rows /\ row[x] \in Row /\ edit[s].loaded \in Row
        /\ edit[s].new \in Texts /\ row[x].uri # "none" /\ edit[s].loaded.uri # "none"
    BY <2>1, BusySlot DEF PublishingOk, SlotOk
  <2>3. r \in Row /\ r.uri # "none"
    BY <2>2 DEF Row
  <2>4. row' = row \/ row' = [row EXCEPT ![x] = r]
    BY <1>3 DEF EditSave
  <2>5. /\ row' \in [Rows -> Row]
        /\ \A y \in Rows : row[y].uri # "none" => row'[y].uri # "none"
    <3> HIDE DEF r, x
    <3> QED BY <2>2, <2>3, <2>4, RowReplaced DEF PublishingOk
  <2>6. PICK e \in Editing \union {Idle} : edit' = [edit EXCEPT ![s] = e] /\ SlotOk(e, row')
    <3>1. CASE Goto(s, "history")
      <4>1. edit' = [edit EXCEPT ![s] = [edit[s] EXCEPT !.pc = "history"]]
        BY <3>1 DEF Goto, PublishingOk
      <4> DEFINE e == [edit[s] EXCEPT !.pc = "history"]
      <4>2. e \in Editing /\ e.id = x /\ e.pc = "history"
        BY <2>2, GotoTyped DEF Labels
      <4>3. row'[x].uri # "none"
        BY <2>2, <2>5
      <4> HIDE DEF e
      <4>4. SlotOk(e, row')
        BY <4>2, <4>3 DEF SlotOk
      <4> QED BY <4>1, <4>2, <4>4 DEF e
    <3>2. CASE Done(s)
      BY <3>2, IdleOk DEF Done
    <3> QED BY <1>3, <3>1, <3>2 DEF EditSave
  <2>7. /\ edit' \in [Slots -> Editing \union {Idle}]
        /\ \A t \in Slots : SlotOk(edit'[t], row')
    BY <2>5, <2>6, SlotReplaced DEF PublishingOk
  <2> QED BY <1>3, <2>5, <2>7 DEF PublishingOk, EditSave, bounds
<1>4. ASSUME EditHistory(s) PROVE PublishingOk'
  <2>1. /\ edit[s].pc = "history" /\ edit' = [edit EXCEPT ![s] = Idle]
        /\ UNCHANGED <<row, bounds, first, lost>>
    BY <1>4 DEF EditHistory, At, Done
  <2>2. edit[s].id \in Rows /\ edit[s].new \in Texts /\ edit[s].previous \in Texts
    BY <2>1, BusySlot
  <2>3. history' \in [Rows -> SUBSET Change]
    BY <1>4, <2>2 DEF EditHistory, Change, PublishingOk
  <2>4. /\ edit' \in [Slots -> Editing \union {Idle}]
        /\ \A t \in Slots : SlotOk(edit'[t], row)
    BY <2>1, IdleOk DEF PublishingOk
  <2> QED BY <2>1, <2>3, <2>4 DEF PublishingOk, bounds
<1> QED BY <1>1, <1>2, <1>3, <1>4 DEF EditStep

LEMMA RowKeeps ==
    ASSUME PublishingOk, NEW x \in Rows, RowStep(x), PublishingAssumption
    PROVE  PublishingOk'
<1>1. ASSUME NEW text \in Texts, CreatePost(x, text) \/ CreateComment(x, text)
      PROVE  PublishingOk'
  <2> DEFINE r == [Published(text) EXCEPT !.uri = "own"]
  <2>1. /\ Publish(x, "own", text) /\ Count /\ edit' = edit
    BY <1>1 DEF CreatePost, CreateComment
  <2>2. row' = [row EXCEPT ![x] = r]
    BY <2>1 DEF Publish
  <2>3. r \in Row /\ r.uri # "none"
    BY PublishedTyped
  <2> HIDE DEF r
  <2>4. /\ row' \in [Rows -> Row]
        /\ \A y \in Rows : row[y].uri # "none" => row'[y].uri # "none"
    BY <2>2, <2>3, RowReplaced DEF PublishingOk
  <2>5. \A t \in Slots : SlotOk(edit[t], row')
    BY <2>4, SlotsStay DEF PublishingOk
  <2>6. started' \in 0..MaxRequests /\ died' = died
    BY <2>1, CountTyped DEF PublishingOk
  <2>7. first' \in [Rows -> Texts] /\ UNCHANGED <<history, lost>>
    BY <2>1 DEF Publish, PublishingOk
  <2> QED BY <2>1, <2>4, <2>5, <2>6, <2>7 DEF PublishingOk
<1>2. ASSUME Delete(x) PROVE PublishingOk'
  <2>1. row[x].uri # "none" /\ Withdraw(x) /\ edit' = Overtaken(x)
    BY <1>2 DEF Delete, Exists
  <2>2. started' \in 0..MaxRequests /\ died' = died
    BY <1>2, CountTyped DEF Delete, PublishingOk
  <2> QED BY <1>2, <2>1, <2>2, WithdrawKeeps DEF PublishingOk, Delete
<1>3. ASSUME Moderate(x) PROVE PublishingOk'
  <2> DEFINE r == [row[x] EXCEPT !.taken = ~row[x].taken]
  <2>1. r \in Row /\ r.uri # "none" /\ row' = [row EXCEPT ![x] = r]
    BY <1>3 DEF PublishingOk, Row, Moderate, Exists
  <2> HIDE DEF r
  <2>2. /\ row' \in [Rows -> Row]
        /\ \A y \in Rows : row[y].uri # "none" => row'[y].uri # "none"
    BY <2>1, RowReplaced DEF PublishingOk
  <2>3. \A t \in Slots : SlotOk(edit[t], row')
    BY <2>2, SlotsStay DEF PublishingOk
  <2>4. started' \in 0..MaxRequests /\ died' = died
    BY <1>3, CountTyped DEF Moderate, PublishingOk
  <2> QED BY <1>3, <2>2, <2>3, <2>4 DEF PublishingOk, Moderate
<1> QED BY <1>1, <1>2, <1>3 DEF RowStep

LEMMA DeathKeeps ==
    ASSUME PublishingOk, NEW s \in Slots, Die(s), PublishingAssumption
    PROVE  PublishingOk'
<1>1. edit[s].id \in Rows
  BY BusySlot DEF Die, At
<1>2. /\ edit' \in [Slots -> Editing \union {Idle}]
      /\ \A t \in Slots : SlotOk(edit'[t], row)
  BY IdleOk DEF Die, Done, PublishingOk
<1>3. died' \in 0..MaxDeaths
  BY DEF Die, PublishingOk, PublishingAssumption
<1> QED BY <1>1, <1>2, <1>3 DEF PublishingOk, Die

LEMMA ModerationCases ==
    ASSUME [ModerationNext]_<<vars, reportVars>>
    PROVE  \/ /\ UNCHANGED reportVars
              /\ \/ \E s \in Slots : CreateStep(s) \/ EditStep(s) \/ Die(s)
                 \/ \E x \in Rows : RowStep(x)
           \/ ReportNext /\ UNCHANGED <<row, history, edit, first, lost>>
           \/ UNCHANGED <<vars, reportVars>>
  BY DEF ModerationNext, Next

LEMMA BoundsKept ==
    ASSUME PublishingAssumption, ReportNext,
           started \in 0..MaxRequests, died \in 0..MaxDeaths
    PROVE  started' \in 0..MaxRequests /\ died' \in 0..MaxDeaths
<1>1. CASE Count
  BY <1>1, CountTyped
<1>2. CASE UNCHANGED bounds
  BY <1>2 DEF bounds
<1>3. ASSUME NEW s \in Slots, Drop(s) PROVE started' \in 0..MaxRequests /\ died' \in 0..MaxDeaths
  BY <1>3 DEF Drop, PublishingAssumption
<1> QED BY <1>1, <1>2, <1>3
        DEF ReportNext, FileStep, ReviewStep, File, Escalate, BeginUpdate, BeginAction,
            BeginStatus, BeginQuick, Load, Decide, SetTarget, Pass

LEMMA PublishingKept ==
    ASSUME PublishingOk, [ModerationNext]_<<vars, reportVars>>, PublishingAssumption
    PROVE  PublishingOk'
<1>1. CASE ReportNext /\ UNCHANGED <<row, history, edit, first, lost>>
  BY <1>1, BoundsKept DEF PublishingOk
<1>2. CASE UNCHANGED <<vars, reportVars>>
  BY <1>2 DEF PublishingOk, vars, bounds
<1> QED BY <1>1, <1>2, ModerationCases, CreateKeeps, EditKeeps, RowKeeps, DeathKeeps

LEMMA PublishingStarts == PublishingAssumption /\ Init => PublishingOk
  <1> SUFFICES ASSUME PublishingAssumption, Init PROVE PublishingOk
    OBVIOUS
  <1>1. Missing \in Row /\ Missing.text \in Texts
    BY MissingTyped DEF PublishingAssumption, Missing
  <1>2. Published(Missing.text) \in Row
    BY <1>1, PublishedTyped
  <1>3. row \in [Rows -> Row]
    BY <1>1, <1>2 DEF Init
  <1> QED BY <1>1, <1>3, IdleOk DEF Init, PublishingOk, PublishingAssumption

-----------------------------------------------------------------------------

Severities == {"critical", "high", "medium", "low"}

LEMMA Targets ==
    ASSUME NEW reason
    PROVE  Severity(reason) \in Severities /\ SlaTarget(Severity(reason)) \in Nat \ {0}
<1>1. Severity(reason) \in Severities
  BY DEF Severity, Severities
<1>2. \A severity \in Severities : SlaTarget(severity) \in Nat \ {0}
  BY DEF SlaTarget, Severities
<1> QED BY <1>1, <1>2

LEMMA AbsentOrFiled ==
    ASSUME NEW R \in Report \union {Absent}
    PROVE  R # Absent => R \in Report
  OBVIOUS

LEMMA ReviewOrIdle ==
    ASSUME NEW v \in Reviewing \union Escalating \union {Idle}
    PROVE  /\ v.pc = "idle" <=> v = Idle
           /\ v.pc \in Kinds <=> v \in Reviewing
           /\ v.pc = "escalate" <=> v \in Escalating
           /\ v # Idle => v.id \in Reports
  BY DEF Reviewing, Escalating, Idle, Kinds

LEMMA FiledTyped ==
    ASSUME ReportTypeOK, ReportAssumption, NEW reason \in Reasons
    PROVE  Filed(reason) \in Report /\ Filed(reason) # Absent
<1>1. now \in Nat /\ reason \in AllReasons
  BY DEF ReportTypeOK, ReportAssumption
<1>2. SlaTarget(Severity(reason)) \in Nat
  BY Targets
<1>3. "open" \in AllStatuses
  BY DEF AllStatuses
<1>4. Filed(reason) \in Report /\ Filed(reason).status = "open"
  BY <1>1, <1>2, <1>3 DEF Filed, Report, Never
<1> QED BY <1>4 DEF Absent

LEMMA AssignedTyped ==
    ASSUME NEW R \in Report, NEW notes \in BOOLEAN, NEW assign \in BOOLEAN, now \in Nat
    PROVE  /\ Stamped(R, notes) \in Report
           /\ Assigned(R, assign) \in Report
           /\ Stamped(R, notes).evidence = (R.evidence \/ notes)
           /\ Assigned(R, assign).evidence = R.evidence
           /\ Stamped(R, notes).reason = R.reason
           /\ Assigned(R, assign).reason = R.reason
  BY DEF Stamped, Assigned, Report, Never

LEMMA SavedTyped ==
    ASSUME NEW R \in Report, NEW loaded \in Report, NEW to \in AllStatuses, NEW kind \in Kinds
    PROVE  LET S == Saved(R, kind, loaded, to)
           IN  /\ S \in Report
               /\ S # Absent
               /\ S.reason = R.reason
               /\ S.evidence = IF kind \in {"update", "action"} THEN loaded.evidence
                               ELSE R.evidence
<1>1. Saved(R, kind, loaded, to) \in Report
  BY DEF Saved, Report, Kinds
<1>2. Saved(R, kind, loaded, to) # Absent
  BY <1>1 DEF Report, Absent
<1> QED BY <1>1, <1>2 DEF Saved, Report

LEMMA ReportReplaced ==
    ASSUME ReportTypeOK, NEW r \in Reports, NEW R \in Report,
           report' = [report EXCEPT ![r] = R]
    PROVE  /\ report' \in [Reports -> Report \union {Absent}]
           /\ report'[r] # Absent
           /\ \A y \in Reports : report[y] # Absent => report'[y] # Absent
<1>1. R # Absent
  BY DEF Report, Absent
<1> QED BY <1>1 DEF ReportTypeOK

LEMMA LoadKeeps ==
    ASSUME ReportTypeOK, NEW s \in Slots, NEW r \in Reports, NEW kind \in Kinds,
           NEW to \in AllStatuses, NEW instance \in Report, report[r] # Absent,
           Load(s, r, kind, to, instance)
    PROVE  ReportTypeOK'
<1> DEFINE v == [pc |-> kind, id |-> r, loaded |-> instance, to |-> to]
<1>1. v \in Reviewing /\ v.id = r
  BY DEF Reviewing
<1>2. review' = [review EXCEPT ![s] = v] /\ UNCHANGED <<report, now, bare>>
  BY DEF Load
<1> HIDE DEF v
<1> QED BY <1>1, <1>2 DEF ReportTypeOK

LEMMA FileKeeps ==
    ASSUME ReportTypeOK, ReportAssumption, NEW s \in Slots, FileStep(s)
    PROVE  ReportTypeOK'
<1>1. ASSUME NEW r \in Reports, NEW reason \in Reasons, File(s, r, reason)
      PROVE  ReportTypeOK'
  <2> DEFINE v == [pc |-> "escalate", id |-> r]
  <2>1. report' = [report EXCEPT ![r] = Filed(reason)] /\ UNCHANGED <<now, bare>>
    BY <1>1 DEF File
  <2>2. /\ report' \in [Reports -> Report \union {Absent}]
        /\ report'[r] # Absent
        /\ \A y \in Reports : report[y] # Absent => report'[y] # Absent
    BY <2>1, FiledTyped, ReportReplaced
  <2>3. review' = [review EXCEPT ![s] = v] \/ review' = review
    BY <1>1 DEF File
  <2>4. v \in Escalating /\ v.id = r
    BY DEF Escalating
  <2> HIDE DEF v
  <2>5. \A t \in Slots : review[t] # Idle => review[t].id \in Reports
    BY ReviewOrIdle DEF ReportTypeOK
  <2>6. review' \in [Slots -> Reviewing \union Escalating \union {Idle}]
    BY <2>3, <2>4 DEF ReportTypeOK
  <2>7. \A t \in Slots : review'[t] # Idle => report'[review'[t].id] # Absent
    BY <2>2, <2>3, <2>4, <2>5 DEF ReportTypeOK
  <2> QED BY <2>1, <2>2, <2>6, <2>7 DEF ReportTypeOK
<1>2. ASSUME Escalate(s) PROVE ReportTypeOK'
  <2> DEFINE r == review[s].id
             R == [report[r] EXCEPT !.assigned = now,
                                    !.target = SlaTarget(Severity(report[r].reason))]
  <2>1. review[s] # Idle /\ review[s] \in Reviewing \union Escalating \union {Idle}
    BY <1>2 DEF Escalate, Reviews, ReportTypeOK, Idle
  <2>2. r \in Reports /\ report[r] # Absent
    BY <2>1, ReviewOrIdle DEF ReportTypeOK
  <2>3. report[r] \in Report
    BY <2>2 DEF ReportTypeOK
  <2>4. now \in Nat /\ SlaTarget(Severity(report[r].reason)) \in Nat
    BY Targets DEF ReportTypeOK, ReportAssumption
  <2>5. R \in Report
    BY <2>3, <2>4 DEF Report
  <2>6. report' = [report EXCEPT ![r] = R] \/ report' = report
    BY <1>2, <2>2 DEF Escalate, ReportTypeOK
  <2>7. review' = [review EXCEPT ![s] = Idle] /\ UNCHANGED <<now, bare>>
    BY <1>2 DEF Escalate, Decided
  <2> HIDE DEF r, R
  <2>8. /\ report' \in [Reports -> Report \union {Absent}]
        /\ \A y \in Reports : report[y] # Absent => report'[y] # Absent
    BY <2>2, <2>5, <2>6, ReportReplaced DEF ReportTypeOK
  <2>9. \A t \in Slots : review[t] # Idle => review[t].id \in Reports
    BY ReviewOrIdle DEF ReportTypeOK
  <2> QED BY <2>7, <2>8, <2>9 DEF ReportTypeOK
<1> QED BY <1>1, <1>2 DEF FileStep

LEMMA ReviewKeeps ==
    ASSUME ReportTypeOK, ReportAssumption, NEW s \in Slots, ReviewStep(s)
    PROVE  ReportTypeOK'
<1> USE DEF Kinds
<1>0. Statuses \subseteq AllStatuses /\ "actioned" \in AllStatuses /\ now \in Nat
  BY DEF ReportAssumption, AllStatuses, ReportTypeOK
<1>1. ASSUME NEW r \in Reports, report[r] # Absent,
             BeginUpdate(s, r) \/ BeginAction(s, r) \/ BeginStatus(s, r) \/ BeginQuick(s, r)
      PROVE  ReportTypeOK'
  <2>1. report[r] \in Report
    BY <1>1 DEF ReportTypeOK
  <2>2. CASE BeginUpdate(s, r)
    <3>1. PICK to \in Statuses, notes \in BOOLEAN, assign \in BOOLEAN :
            Load(s, r, "update", to, Assigned(Stamped(report[r], notes), assign))
      BY <2>2 DEF BeginUpdate
    <3>2. Assigned(Stamped(report[r], notes), assign) \in Report
      BY <1>0, <2>1, AssignedTyped
    <3> QED BY <1>0, <1>1, <3>1, <3>2, LoadKeeps
  <2>3. CASE BeginAction(s, r)
    <3>1. PICK notes \in BOOLEAN : Load(s, r, "action", "actioned", Stamped(report[r], notes))
      BY <2>3 DEF BeginAction
    <3>2. Stamped(report[r], notes) \in Report
      BY <1>0, <2>1, AssignedTyped
    <3> QED BY <1>0, <1>1, <3>1, <3>2, LoadKeeps
  <2>4. CASE BeginStatus(s, r)
    BY <1>0, <1>1, <2>1, <2>4, LoadKeeps DEF BeginStatus
  <2>5. CASE BeginQuick(s, r)
    BY <1>0, <1>1, <2>1, <2>5, LoadKeeps DEF BeginQuick
  <2> QED BY <1>1, <2>2, <2>3, <2>4, <2>5
<1>2. ASSUME Decide(s) PROVE ReportTypeOK'
  <2> DEFINE r == review[s].id
             R == Saved(report[r], review[s].pc, review[s].loaded, review[s].to)
  <2>1. review[s] \in Reviewing /\ review[s] # Idle /\ review[s].pc \in Kinds
    BY <1>2, ReviewOrIdle DEF Decide, ReportTypeOK, Idle
  <2>2. r \in Reports /\ report[r] # Absent /\ review[s].loaded \in Report
        /\ review[s].to \in AllStatuses
    BY <2>1 DEF ReportTypeOK, Reviewing
  <2>3. report[r] \in Report
    BY <2>2 DEF ReportTypeOK
  <2>4. R \in Report
    BY <2>1, <2>2, <2>3, SavedTyped
  <2>5. /\ report' = [report EXCEPT ![r] = R] /\ review' = [review EXCEPT ![s] = Idle]
        /\ bare' \subseteq bare \union {r} /\ now' = now
    BY <1>2 DEF Decide, Decided
  <2> HIDE DEF r, R
  <2>6. /\ report' \in [Reports -> Report \union {Absent}]
        /\ \A y \in Reports : report[y] # Absent => report'[y] # Absent
    BY <2>2, <2>4, <2>5, ReportReplaced DEF ReportTypeOK
  <2>7. \A t \in Slots : review[t] # Idle => review[t].id \in Reports
    BY ReviewOrIdle DEF ReportTypeOK
  <2> QED BY <2>2, <2>5, <2>6, <2>7 DEF ReportTypeOK
<1>3. ASSUME Drop(s) PROVE ReportTypeOK'
  BY <1>3 DEF Drop, Decided, ReportTypeOK
<1> QED BY <1>1, <1>2, <1>3 DEF ReviewStep

LEMMA TargetKeeps ==
    ASSUME ReportTypeOK, ReportAssumption, NEW r \in Reports, report[r] # Absent, SetTarget(r)
    PROVE  ReportTypeOK'
<1>1. PICK minutes \in Times :
        report' = [report EXCEPT ![r].target =
              IF minutes = 0 THEN SlaTarget(Severity(report[r].reason)) ELSE minutes]
  BY DEF SetTarget
<1> DEFINE R == [report[r] EXCEPT !.target =
              IF minutes = 0 THEN SlaTarget(Severity(report[r].reason)) ELSE minutes]
<1>2. report' = [report EXCEPT ![r] = R]
  BY <1>1 DEF ReportTypeOK
<1>3. report[r] \in Report /\ minutes \in Nat
  BY DEF ReportTypeOK, ReportAssumption
<1>4. R \in Report
  BY <1>3, Targets DEF Report
<1> HIDE DEF R
<1>5. /\ report' \in [Reports -> Report \union {Absent}]
      /\ \A y \in Reports : report[y] # Absent => report'[y] # Absent
  BY <1>2, <1>4, ReportReplaced
<1>6. \A t \in Slots : review[t] # Idle => review[t].id \in Reports
  BY ReviewOrIdle DEF ReportTypeOK
<1> QED BY <1>5, <1>6 DEF ReportTypeOK, SetTarget

LEMMA ReportsKept ==
    ASSUME ReportTypeOK, [ModerationNext]_<<vars, reportVars>>, ReportAssumption
    PROVE  ReportTypeOK'
<1>1. CASE UNCHANGED reportVars
  BY <1>1 DEF reportVars, ReportTypeOK
<1>2. CASE ReportNext
  <2>1. ASSUME Pass PROVE ReportTypeOK'
    BY <2>1 DEF Pass, ReportTypeOK
  <2> QED BY <1>2, <2>1, FileKeeps, ReviewKeeps, TargetKeeps DEF ReportNext
<1> QED BY <1>1, <1>2, ModerationCases

(***************************************************************************)
(* The tables stay in their types, and a request works on a row that is    *)
(* there: rows are withdrawn, never removed.                               *)
(***************************************************************************)
THEOREM ModerationTypeCorrect == ModerationSpec => []TypeOK
<1>1. ModerationInit => PublishingOk /\ ReportTypeOK
  BY PublishingStarts, PublishingAssumption, ReportAssumption
     DEF ModerationInit, ReportInit, ReportTypeOK
<1>2. PublishingOk /\ ReportTypeOK /\ [ModerationNext]_<<vars, reportVars>>
          => (PublishingOk /\ ReportTypeOK)'
  BY PublishingKept, ReportsKept, PublishingAssumption, ReportAssumption
<1>3. PublishingOk /\ ReportTypeOK => TypeOK
  BY PublishingOkIsTyped DEF TypeOK
<1> QED BY <1>1, <1>2, <1>3, PTL DEF ModerationSpec

-----------------------------------------------------------------------------

(* With the default target the two computations are one.                   *)
LEMMA SameDeadline ==
    ASSUME NEW R \in Report, now \in Nat, R.target = SlaTarget(Severity(R.reason))
    PROVE  DashboardBreached(R) <=> SlaBreached(R)
<1> DEFINE severity == Severity(R.reason)
           anchor == IF R.assigned = Never THEN R.created ELSE R.assigned
<1>1. severity \in Severities /\ R.target \in Nat \ {0}
  BY Targets
<1>2. anchor \in Int
  BY DEF Report, Never
<1>3. SlaDeadline(R) = anchor + R.target
  BY <1>1 DEF SlaDeadline, SlaTarget, Severities
<1>4. SlaBreached(R) <=> ~R.responded /\ now > anchor + R.target
  BY <1>1 DEF SlaBreached
<1>5. DashboardBreached(R) <=> ~R.responded /\ SlaDeadline(R) < now
  BY <1>1 DEF DashboardBreached
<1> HIDE DEF anchor, severity
<1> QED BY <1>1, <1>2, <1>3, <1>4, <1>5

LEMMA TypesGiveSla == ReportTypeOK /\ ReportAssumption => SlaAgrees
<1> SUFFICES ASSUME ReportTypeOK, ReportAssumption PROVE SlaAgrees
  OBVIOUS
<1>1. now \in Nat
  BY DEF ReportTypeOK, ReportAssumption
<1>2. ASSUME NEW r \in Reports, report[r] # Absent,
             report[r].target = SlaTarget(Severity(report[r].reason))
      PROVE  DashboardBreached(report[r]) <=> SlaBreached(report[r])
  BY <1>1, <1>2, SameDeadline DEF ReportTypeOK
<1> QED BY <1>2 DEF SlaAgrees, AnalyticsBreached

(***************************************************************************)
(* SlaAgrees, at every minute and for any reports: the dashboard, the      *)
(* analytics and the model draw the line in the same place.                *)
(***************************************************************************)
THEOREM DeadlinesAgree == ModerationSpec => []SlaAgrees
<1>1. TypeOK => SlaAgrees
  BY TypesGiveSla, ReportAssumption DEF TypeOK
<1> QED BY <1>1, ModerationTypeCorrect, PTL

-----------------------------------------------------------------------------

(***************************************************************************)
(* Why evidence comes first: an update of a severe report brings evidence  *)
(* with it, and a status change of the API has seen evidence that nobody   *)
(* but an action can have overwritten.                                     *)
(***************************************************************************)
EvidenceInv ==
    /\ EvidenceFirst
    /\ \A s \in Slots :
          LET v == review[s]
          IN  /\ v.pc = "update" /\ Severe(report[v.id].reason) => v.loaded.evidence
              /\ v.pc = "status" /\ Severe(report[v.id].reason)
                    => report[v.id].evidence \/ v.id \in bare

(* Nothing that matters to it has changed.                                 *)
LEMMA EvidenceStays ==
    ASSUME ReportTypeOK, EvidenceInv, bare' = bare,
           \A r \in Reports : report[r] # Absent =>
               /\ report'[r] # Absent
               /\ report'[r].status = report[r].status
               /\ report'[r].reason = report[r].reason
               /\ report'[r].evidence = report[r].evidence,
           \A r \in Reports : report[r] = Absent =>
               report'[r] = Absent \/ report'[r].status = "open",
           \A s \in Slots : review'[s].pc \in {"update", "status"} => review'[s] = review[s]
    PROVE  EvidenceInv'
<1>1. EvidenceFirst'
  BY DEF EvidenceInv, EvidenceFirst
<1>2. ASSUME NEW s \in Slots, review'[s].pc \in {"update", "status"}
      PROVE  review'[s] = review[s] /\ review[s].id \in Reports /\ report[review[s].id] # Absent
  <2>1. review'[s] = review[s] /\ review[s] # Idle
    BY <1>2 DEF Idle
  <2> QED BY <2>1, ReviewOrIdle DEF ReportTypeOK
<1> QED BY <1>1, <1>2 DEF EvidenceInv

(* A request loads a report and changes nothing.                           *)
LEMMA EvidenceLoaded ==
    ASSUME ReportTypeOK, EvidenceInv, NEW s \in Slots, NEW r \in Reports, NEW kind,
           NEW to, NEW instance, report[r] # Absent, Load(s, r, kind, to, instance),
           kind = "update" /\ Severe(report[r].reason) => instance.evidence,
           kind = "status" /\ Severe(report[r].reason) => report[r].evidence
    PROVE  EvidenceInv'
<1>1. /\ review' = [review EXCEPT
            ![s] = [pc |-> kind, id |-> r, loaded |-> instance, to |-> to]]
      /\ UNCHANGED <<report, now, bare>>
  BY DEF Load
<1>2. EvidenceFirst'
  BY <1>1 DEF EvidenceInv, EvidenceFirst
<1>3. /\ review'[s].pc = kind /\ review'[s].id = r /\ review'[s].loaded = instance
      /\ \A t \in Slots \ {s} : review'[t] = review[t]
  BY <1>1 DEF ReportTypeOK
<1> QED BY <1>1, <1>2, <1>3 DEF EvidenceInv

LEMMA EvidenceReviewed ==
    ASSUME ReportTypeOK, ReportAssumption, EvidenceInv, NEW s \in Slots, ReviewStep(s)
    PROVE  EvidenceInv'
<1>0. now \in Nat
  BY DEF ReportAssumption, ReportTypeOK
<1>1. ASSUME NEW r \in Reports, report[r] # Absent,
             BeginUpdate(s, r) \/ BeginAction(s, r) \/ BeginStatus(s, r) \/ BeginQuick(s, r)
      PROVE  EvidenceInv'
  <2>1. report[r] \in Report
    BY <1>1 DEF ReportTypeOK
  <2>2. CASE BeginUpdate(s, r)
    <3>1. PICK to \in Statuses, notes \in BOOLEAN, assign \in BOOLEAN :
            /\ Severe(report[r].reason) => report[r].evidence \/ notes
            /\ Load(s, r, "update", to, Assigned(Stamped(report[r], notes), assign))
      BY <2>2 DEF BeginUpdate
    <3>2. Stamped(report[r], notes) \in Report
          /\ Stamped(report[r], notes).evidence = (report[r].evidence \/ notes)
      BY <1>0, <2>1, AssignedTyped
    <3>3. Assigned(Stamped(report[r], notes), assign).evidence = (report[r].evidence \/ notes)
      BY <1>0, <3>2, AssignedTyped
    <3> QED BY <1>1, <3>1, <3>3, EvidenceLoaded
  <2>3. CASE BeginAction(s, r)
    BY <1>1, <2>3, EvidenceLoaded DEF BeginAction
  <2>4. CASE BeginStatus(s, r)
    BY <1>1, <2>4, EvidenceLoaded DEF BeginStatus
  <2>5. CASE BeginQuick(s, r)
    BY <1>1, <2>5, EvidenceLoaded DEF BeginQuick
  <2> QED BY <1>1, <2>2, <2>3, <2>4, <2>5
<1>2. ASSUME Decide(s) PROVE EvidenceInv'
  <2> DEFINE r == review[s].id
             kind == review[s].pc
             R == Saved(report[r], kind, review[s].loaded, review[s].to)
  <2>1. review[s] \in Reviewing /\ review[s] # Idle /\ kind \in Kinds
    <3>1. review[s].pc \in Kinds /\ review[s] \in Reviewing \union Escalating \union {Idle}
      BY <1>2 DEF Decide, ReportTypeOK
    <3> QED BY <3>1, ReviewOrIdle DEF Idle, Kinds
  <2>2. r \in Reports /\ report[r] # Absent /\ review[s].loaded \in Report
        /\ review[s].to \in AllStatuses
    BY <2>1 DEF ReportTypeOK, Reviewing
  <2>3. report[r] \in Report
    BY <2>2 DEF ReportTypeOK
  <2>4. /\ R \in Report /\ R.reason = report[r].reason
        /\ R.evidence = IF kind \in {"update", "action"} THEN review[s].loaded.evidence
                        ELSE report[r].evidence
    <3> HIDE DEF kind, r
    <3> QED BY <2>1, <2>2, <2>3, SavedTyped
  <2>5. /\ report' = [report EXCEPT ![r] = R] /\ review' = [review EXCEPT ![s] = Idle]
        /\ bare' = IF R.evidence THEN bare \ {r}
                   ELSE IF kind \in {"action", "quick"} /\ Severe(R.reason)
                   THEN bare \union {r} ELSE bare
    BY <1>2 DEF Decide, Decided
  <2>6. Severe(R.reason) => R.evidence \/ r \in bare'
    <3> SUFFICES ASSUME Severe(R.reason), ~R.evidence PROVE r \in bare'
      OBVIOUS
    <3>1. CASE kind \in {"action", "quick"}
      BY <2>5, <3>1
    <3>2. CASE kind = "update"
      BY <2>4, <3>2 DEF EvidenceInv
    <3>3. CASE kind = "status"
      BY <2>4, <2>5, <3>3 DEF EvidenceInv
    <3> QED BY <2>1, <3>1, <3>2, <3>3 DEF Kinds
  <2> HIDE DEF r, R, kind
  <2>7. /\ report'[r] = R
        /\ \A y \in Reports \ {r} : report'[y] = report[y] /\ (y \in bare' <=> y \in bare)
    BY <2>2, <2>5 DEF ReportTypeOK
  <2>8. EvidenceFirst'
    BY <2>6, <2>7 DEF EvidenceInv, EvidenceFirst
  <2>9. ASSUME NEW t \in Slots, review'[t].pc \in {"update", "status"}
        PROVE  /\ review'[t] = review[t] /\ review[t].id \in Reports
    <3>1. review'[t] = review[t] /\ review[t] # Idle
      BY <2>5, <2>9 DEF ReportTypeOK, Idle
    <3> QED BY <3>1, ReviewOrIdle DEF ReportTypeOK
  <2>10. ASSUME NEW t \in Slots
         PROVE  LET v == review'[t]
                IN  /\ v.pc = "update" /\ Severe(report'[v.id].reason) => v.loaded.evidence
                    /\ v.pc = "status" /\ Severe(report'[v.id].reason)
                          => report'[v.id].evidence \/ v.id \in bare'
    <3>1. CASE review'[t].pc = "update"
      BY <2>4, <2>7, <2>9, <3>1 DEF EvidenceInv
    <3>2. CASE review'[t].pc = "status"
      BY <2>4, <2>6, <2>7, <2>9, <3>2 DEF EvidenceInv
    <3> QED BY <3>1, <3>2
  <2> QED BY <2>8, <2>10 DEF EvidenceInv
<1>3. ASSUME Drop(s) PROVE EvidenceInv'
  <2>1. review' = [review EXCEPT ![s] = Idle] /\ UNCHANGED <<report, bare>>
    BY <1>3 DEF Drop, Decided
  <2>2. \A t \in Slots : review'[t].pc \in {"update", "status"} => review'[t] = review[t]
    BY <2>1 DEF Idle, ReportTypeOK
  <2> QED BY <2>1, <2>2, EvidenceStays
<1> QED BY <1>1, <1>2, <1>3 DEF ReviewStep

LEMMA EvidenceFiled ==
    ASSUME ReportTypeOK, ReportAssumption, EvidenceInv, NEW s \in Slots, FileStep(s)
    PROVE  EvidenceInv'
<1>1. ASSUME NEW r \in Reports, NEW reason \in Reasons, File(s, r, reason)
      PROVE  EvidenceInv'
  <2>1. /\ report[r] = Absent /\ bare' = bare
        /\ report' = [report EXCEPT ![r] = Filed(reason)]
        /\ \/ review' = [review EXCEPT ![s] = [pc |-> "escalate", id |-> r]]
           \/ review' = review
    BY <1>1 DEF File
  <2>2. Filed(reason).status = "open"
    BY DEF Filed
  <2>3. /\ report'[r].status = "open"
        /\ \A y \in Reports \ {r} : report'[y] = report[y]
    BY <2>1, <2>2 DEF ReportTypeOK
  <2>4. \A t \in Slots : review'[t].pc \in {"update", "status"} => review'[t] = review[t]
    BY <2>1 DEF ReportTypeOK
  <2> QED BY <2>1, <2>3, <2>4, EvidenceStays
<1>2. ASSUME Escalate(s) PROVE EvidenceInv'
  <2> DEFINE r == review[s].id
  <2>1. /\ review' = [review EXCEPT ![s] = Idle] /\ bare' = bare
        /\ \/ report' = [report EXCEPT
                ![r].assigned = now, ![r].target = SlaTarget(Severity(report[r].reason))]
           \/ report' = report
    BY <1>2 DEF Escalate, Decided
  <2>2. \A t \in Slots : review'[t].pc \in {"update", "status"} => review'[t] = review[t]
    BY <2>1 DEF ReportTypeOK, Idle
  <2>3. ReportTypeOK'
    BY FileKeeps
  <2> HIDE DEF r
  <2>4. \A y \in Reports :
          /\ report[y] = Absent => y # r
          /\ report[y] # Absent => report[y] \in Report
    <3>1. review[s] # Idle
      BY <1>2 DEF Escalate, Reviews, Idle
    <3> QED BY <3>1 DEF ReportTypeOK, r
  <2>5. ASSUME NEW y \in Reports, report[y] # Absent
        PROVE  /\ report'[y] # Absent
               /\ report'[y].status = report[y].status
               /\ report'[y].reason = report[y].reason
               /\ report'[y].evidence = report[y].evidence
    BY <2>1, <2>4, <2>5 DEF ReportTypeOK, Report, Absent
  <2>6. \A y \in Reports : report[y] = Absent => report'[y] = Absent
    BY <2>1, <2>4 DEF ReportTypeOK
  <2> QED BY <2>1, <2>2, <2>5, <2>6, EvidenceStays
<1> QED BY <1>1, <1>2 DEF FileStep

LEMMA EvidenceTargeted ==
    ASSUME ReportTypeOK, ReportAssumption, EvidenceInv, NEW r \in Reports,
           report[r] # Absent, SetTarget(r)
    PROVE  EvidenceInv'
<1>1. PICK minutes : report' = [report EXCEPT ![r].target = minutes]
  BY DEF SetTarget
<1>2. review' = review /\ bare' = bare
  BY DEF SetTarget
<1>3. \A y \in Reports : report[y] # Absent => report[y] \in Report
  BY DEF ReportTypeOK
<1>4. ASSUME NEW y \in Reports, report[y] # Absent
      PROVE  /\ report'[y] # Absent
             /\ report'[y].status = report[y].status
             /\ report'[y].reason = report[y].reason
             /\ report'[y].evidence = report[y].evidence
  BY <1>1, <1>3, <1>4 DEF ReportTypeOK, Report, Absent
<1>5. \A y \in Reports : report[y] = Absent => report'[y] = Absent
  BY <1>1 DEF ReportTypeOK
<1> QED BY <1>2, <1>4, <1>5, EvidenceStays

(***************************************************************************)
(* EvidenceFirst, for any reports and any moderators who save over each    *)
(* other.                                                                  *)
(***************************************************************************)
THEOREM EvidenceComesFirst == ModerationSpec => []EvidenceFirst
<1>1. ModerationInit => EvidenceInv
  BY DEF ModerationInit, ReportInit, EvidenceInv, EvidenceFirst, Idle
<1>2. TypeOK /\ EvidenceInv /\ [ModerationNext]_<<vars, reportVars>> => EvidenceInv'
  <2> SUFFICES ASSUME ReportTypeOK, EvidenceInv, [ModerationNext]_<<vars, reportVars>>
               PROVE  EvidenceInv'
    BY DEF TypeOK
  <2>1. CASE UNCHANGED reportVars
    BY <2>1 DEF reportVars, EvidenceInv, EvidenceFirst
  <2>2. CASE ReportNext
    <3>1. ASSUME Pass PROVE EvidenceInv'
      BY <3>1 DEF Pass, EvidenceInv, EvidenceFirst
    <3> QED BY <2>2, <3>1, EvidenceFiled, EvidenceReviewed, EvidenceTargeted, ReportAssumption
            DEF ReportNext
  <2> QED BY <2>1, <2>2, ModerationCases
<1>3. EvidenceInv => EvidenceFirst
  BY DEF EvidenceInv
<1> QED BY <1>1, <1>2, <1>3, ModerationTypeCorrect, PTL DEF ModerationSpec

-----------------------------------------------------------------------------

(* A row that is not there has not been withdrawn, and has no history.     *)
Unpublished ==
    \A x \in Rows : row[x].uri = "none" =>
        ~row[x].deleted /\ ~row[x].taken /\ history[x] = {}

(* Whoever does not look at its row again has been told that it is gone.   *)
LateIsLate ==
    \A s \in Slots :
        /\ edit[s].pc \in {"previous", "save"}
        /\ edit[s].web \/ edit[s].pc = "save"
        /\ row[edit[s].id].deleted
        => edit[s].late

WithdrawnInv == PublishingOk /\ Unpublished /\ LateIsLate

(* What WithdrawnStays says of one step.                                   *)
StaysWithdrawn ==
    \A x \in Rows :
        /\ row[x].deleted /\ ~row'[x].deleted =>
              \E s \in Slots : SavesOver(s, x) /\ edit[s].late
        /\ row[x].taken /\ ~row'[x].taken =>
              Moderate(x) \/ \E s \in Slots : SavesOver(s, x) /\ ~edit[s].loaded.taken

(* A new row, and edits of others.                                         *)
LEMMA WithdrawnByPublishing ==
    ASSUME WithdrawnInv, NEW x \in Rows, NEW uri \in {"own", "pending"}, NEW text \in Texts,
           Publish(x, uri, text),
           \A s \in Slots : edit'[s] = edit[s] \/ edit'[s].pc = "uri"
    PROVE  (Unpublished /\ LateIsLate)' /\ StaysWithdrawn
<1> DEFINE r == [Published(text) EXCEPT !.uri = uri]
<1>1. /\ row[x].uri = "none" /\ row' = [row EXCEPT ![x] = r] /\ history' = history
  BY DEF Publish, Exists
<1>2. r.uri # "none" /\ ~r.deleted /\ ~r.taken
  BY DEF Published, Missing
<1> HIDE DEF r
<1>3. row'[x] = r /\ \A y \in Rows \ {x} : row'[y] = row[y]
  BY <1>1 DEF WithdrawnInv, PublishingOk
<1>4. Unpublished'
  BY <1>1, <1>2, <1>3 DEF WithdrawnInv, Unpublished
<1>5. ASSUME NEW s \in Slots, edit'[s].pc \in {"previous", "save"}
      PROVE  edit'[s] = edit[s] /\ edit[s].id \in Rows \ {x}
  <2>1. edit'[s] = edit[s] /\ edit[s].pc # "idle"
    BY <1>5
  <2> QED BY <2>1, <1>1, BusySlot DEF WithdrawnInv
<1>6. LateIsLate'
  BY <1>3, <1>5 DEF WithdrawnInv, LateIsLate
<1>7. StaysWithdrawn
  BY <1>1, <1>3 DEF StaysWithdrawn, WithdrawnInv, Unpublished
<1> QED BY <1>4, <1>6, <1>7

(* A step that neither publishes nor withdraws, and saves no whole row.    *)
LEMMA WithdrawnUndisturbed ==
    ASSUME WithdrawnInv, NEW s \in Slots,
           \A y \in Rows : /\ row'[y].uri = "none" <=> row[y].uri = "none"
                           /\ row'[y].deleted = row[y].deleted
                           /\ row'[y].taken = row[y].taken,
           \A y \in Rows : row[y].uri = "none" => history'[y] = history[y],
           \A t \in Slots \ {s} : edit'[t] = edit[t],
           /\ edit'[s].pc \in {"previous", "save"}
           /\ edit'[s].web \/ edit'[s].pc = "save"
           /\ row[edit'[s].id].deleted
           => edit'[s].late /\ edit'[s].id \in Rows,
           edit'[s].pc \in {"previous", "save"} => edit'[s].id \in Rows
    PROVE  (Unpublished /\ LateIsLate)' /\ StaysWithdrawn
<1>1. Unpublished'
  BY DEF WithdrawnInv, Unpublished
<1>2. \A t \in Slots \ {s} : edit[t].pc \in {"previous", "save"} => edit[t].id \in Rows
  BY BusySlot DEF WithdrawnInv
<1>3. LateIsLate'
  BY <1>2 DEF WithdrawnInv, LateIsLate
<1>4. StaysWithdrawn
  BY DEF StaysWithdrawn
<1> QED BY <1>1, <1>3, <1>4

LEMMA WithdrawnByWithdrawing ==
    ASSUME WithdrawnInv, NEW x \in Rows, row[x].uri # "none", Withdraw(x), history' = history,
           \A t \in Slots : edit'[t] = Overtaken(x)[t] \/ edit'[t] = Idle
    PROVE  (Unpublished /\ LateIsLate)' /\ StaysWithdrawn
<1>1. /\ row'[x].uri = row[x].uri /\ row'[x].taken = row[x].taken /\ row'[x].deleted
      /\ \A y \in Rows \ {x} : row'[y] = row[y]
  BY DEF Withdraw, WithdrawnInv, PublishingOk, Row
<1>2. Unpublished'
  BY <1>1 DEF WithdrawnInv, Unpublished
<1>3. ASSUME NEW t \in Slots, edit'[t].pc \in {"previous", "save"},
             edit'[t].web \/ edit'[t].pc = "save", row'[edit'[t].id].deleted
      PROVE  edit'[t].late
  <2>1. edit'[t] = Overtaken(x)[t]
    BY <1>3 DEF Idle
  <2>2. edit[t].pc = edit'[t].pc
    BY <2>1, OvertakenOk DEF WithdrawnInv, PublishingOk
  <2>3. edit[t] # Idle /\ edit[t].id \in Rows
    BY <1>3, <2>2, BusySlot DEF WithdrawnInv, Idle
  <2>4. /\ edit'[t].id = edit[t].id /\ edit'[t].web = edit[t].web
        /\ edit'[t].late = (edit[t].late \/ Blind(t, x))
    BY <2>1, <2>3, OvertakenOk DEF WithdrawnInv, PublishingOk
  <2>5. CASE edit[t].id = x
    BY <1>3, <2>2, <2>4, <2>5 DEF Blind, At
  <2>6. CASE edit[t].id # x
    BY <1>1, <1>3, <2>2, <2>3, <2>4, <2>6 DEF WithdrawnInv, LateIsLate
  <2> QED BY <2>5, <2>6
<1>4. LateIsLate'
  BY <1>3 DEF LateIsLate
<1>5. StaysWithdrawn
  BY <1>1 DEF StaysWithdrawn
<1> QED BY <1>2, <1>4, <1>5

(* The columns that WithdrawnInv is about, in a row that a step replaces.  *)
LEMMA SameColumns ==
    ASSUME PublishingOk, NEW x \in Rows, NEW r \in Row, row[x].uri # "none",
           row' = row \/ row' = [row EXCEPT ![x] = r],
           r.uri # "none", r.deleted = row[x].deleted, r.taken = row[x].taken
    PROVE  \A y \in Rows : /\ row'[y].uri = "none" <=> row[y].uri = "none"
                           /\ row'[y].deleted = row[y].deleted
                           /\ row'[y].taken = row[y].taken
  BY DEF PublishingOk

LEMMA WithdrawnCreate ==
    ASSUME WithdrawnInv, NEW s \in Slots, CreateStep(s)
    PROVE  (Unpublished /\ LateIsLate)' /\ StaysWithdrawn
<1>1. ASSUME NEW x \in Posts, NEW text \in Texts, ApiCreate(s, x, text)
      PROVE  (Unpublished /\ LateIsLate)' /\ StaysWithdrawn
  <2>1. \A t \in Slots : edit'[t] = edit[t] \/ edit'[t].pc = "uri"
    BY <1>1 DEF ApiCreate, Begin, WithdrawnInv, PublishingOk
  <2>2. Publish(x, "pending", text) /\ x \in Rows
    BY <1>1 DEF ApiCreate, Rows
  <2> QED BY <2>1, <2>2, WithdrawnByPublishing
<1>2. ASSUME ApiUri(s) PROVE (Unpublished /\ LateIsLate)' /\ StaysWithdrawn
  <2> DEFINE x == edit[s].id
             r == [row[x] EXCEPT !.uri = "own"]
  <2>1. edit[s].pc = "uri" /\ row' = [row EXCEPT ![x] = r] /\ history' = history
    BY <1>2 DEF ApiUri, At
  <2>2. edit[s] \in Editing /\ x \in Rows /\ row[x] \in Row /\ row[x].uri # "none"
    BY <2>1, BusySlot DEF WithdrawnInv
  <2>3. r \in Row /\ r.uri # "none" /\ r.deleted = row[x].deleted /\ r.taken = row[x].taken
    BY <2>2 DEF Row
  <2>4. /\ \A t \in Slots \ {s} : edit'[t] = edit[t]
        /\ edit'[s].pc \notin {"previous", "save"}
    <3>1. edit' = [edit EXCEPT ![s].pc = "reject"] \/ edit' = [edit EXCEPT ![s] = Idle]
      BY <1>2 DEF ApiUri, Goto, Done
    <3> QED BY <2>2, <3>1 DEF Idle, WithdrawnInv, PublishingOk, Editing
  <2> HIDE DEF x, r
  <2>5. \A y \in Rows : /\ row'[y].uri = "none" <=> row[y].uri = "none"
                        /\ row'[y].deleted = row[y].deleted
                        /\ row'[y].taken = row[y].taken
    BY <2>1, <2>2, <2>3, SameColumns DEF WithdrawnInv
  <2> QED BY <2>1, <2>4, <2>5, WithdrawnUndisturbed
<1>3. ASSUME ApiReject(s) PROVE (Unpublished /\ LateIsLate)' /\ StaysWithdrawn
  <2> DEFINE x == edit[s].id
  <2>1. edit[s].pc = "reject" /\ Withdraw(x) /\ history' = history
    BY <1>3 DEF ApiReject, At
  <2>2. x \in Rows /\ row[x].uri # "none"
    BY <2>1, BusySlot DEF WithdrawnInv
  <2>3. edit' = [Overtaken(x) EXCEPT ![s] = Idle]
    BY <1>3 DEF ApiReject
  <2>4. \A t \in Slots : edit'[t] = Overtaken(x)[t] \/ edit'[t] = Idle
    <3>1. Overtaken(x) \in [Slots -> Editing \union {Idle}]
      BY OvertakenOk DEF WithdrawnInv, PublishingOk
    <3> HIDE DEF x
    <3> QED BY <2>3, <3>1
  <2> HIDE DEF x
  <2> QED BY <2>1, <2>2, <2>4, WithdrawnByWithdrawing
<1> QED BY <1>1, <1>2, <1>3 DEF CreateStep

LEMMA WithdrawnEdit ==
    ASSUME WithdrawnInv, LoadedOk, NEW s \in Slots, EditStep(s)
    PROVE  (Unpublished /\ LateIsLate)' /\ StaysWithdrawn
<1>1. ASSUME NEW x \in Rows, NEW web \in BOOLEAN, NEW text \in Texts,
             EditBegin(s, x, web, text)
      PROVE  (Unpublished /\ LateIsLate)' /\ StaysWithdrawn
  <2>1. row' = row /\ history' = history /\ ~row[x].deleted
    BY <1>1 DEF EditBegin
  <2>2. edit'[s].id = x /\ \A t \in Slots \ {s} : edit'[t] = edit[t]
    BY <1>1 DEF EditBegin, Begin, WithdrawnInv, PublishingOk
  <2> QED BY <2>1, <2>2, WithdrawnUndisturbed
<1>2. ASSUME EditPrevious(s) PROVE (Unpublished /\ LateIsLate)' /\ StaysWithdrawn
  <2> DEFINE x == edit[s].id
             e == [edit[s] EXCEPT !.pc = "save", !.previous = row[x].text]
  <2>1. edit[s].pc = "previous" /\ row' = row /\ history' = history
    BY <1>2 DEF EditPrevious, At
  <2>2. edit[s] \in Editing /\ x \in Rows
    BY <2>1, BusySlot DEF WithdrawnInv
  <2>3. e.id = x /\ e.web = edit[s].web /\ e.late = edit[s].late
    BY <2>2 DEF Editing
  <2>4. \A t \in Slots \ {s} : edit'[t] = edit[t]
    BY <1>2 DEF EditPrevious, Done, WithdrawnInv, PublishingOk
  <2>5. CASE edit'[s] = Idle
    BY <2>1, <2>4, <2>5, WithdrawnUndisturbed DEF Idle
  <2>6. CASE edit'[s] = e /\ (edit[s].web \/ ~row[x].deleted)
    <3>1. row[x].deleted => edit[s].late
      BY <2>1, <2>2, <2>6 DEF WithdrawnInv, LateIsLate
    <3> HIDE DEF e, x
    <3> QED BY <2>1, <2>2, <2>3, <2>4, <2>6, <3>1, WithdrawnUndisturbed
  <2>7. edit'[s] = Idle \/ (edit'[s] = e /\ (edit[s].web \/ ~row[x].deleted))
    <3>1. \/ edit' = [edit EXCEPT ![s] = Idle]
          \/ edit' = [edit EXCEPT ![s] = e] /\ (edit[s].web \/ ~row[x].deleted)
      BY <1>2 DEF EditPrevious, Done
    <3> HIDE DEF e
    <3> QED BY <3>1 DEF WithdrawnInv, PublishingOk
  <2> QED BY <2>5, <2>6, <2>7
<1>3. ASSUME EditSave(s) PROVE (Unpublished /\ LateIsLate)' /\ StaysWithdrawn
  <2> DEFINE x == edit[s].id
             r == [(IF WholeRow(s) THEN edit[s].loaded ELSE row[x]) EXCEPT !.text = edit[s].new]
  <2>1. edit[s].pc = "save" /\ history' = history
    BY <1>3 DEF EditSave, At
  <2>2. /\ edit[s] \in Editing /\ x \in Rows /\ row[x] \in Row /\ edit[s].loaded \in Row
        /\ edit[s].new \in Texts /\ row[x].uri # "none"
        /\ edit[s].loaded.uri # "none" /\ ~edit[s].loaded.deleted
    BY <2>1, BusySlot DEF WithdrawnInv, LoadedOk
  <2>3. row' = row \/ row' = [row EXCEPT ![x] = r]
    BY <1>3 DEF EditSave
  <2>4. /\ \A t \in Slots \ {s} : edit'[t] = edit[t]
        /\ edit'[s].pc \in {"history", "idle"}
    <3>1. edit' = [edit EXCEPT ![s].pc = "history"] \/ edit' = [edit EXCEPT ![s] = Idle]
      BY <1>3 DEF EditSave, Goto, Done
    <3> QED BY <2>2, <3>1 DEF Idle, WithdrawnInv, PublishingOk, Editing
  <2>5. CASE WholeRow(s)
    <3>1. r.uri # "none" /\ ~r.deleted /\ r.taken = edit[s].loaded.taken /\ r \in Row
      BY <2>2, <2>5 DEF Row
    <3>2. edit'[s] # edit[s]
      BY <2>1, <2>4
    <3>3. SavesOver(s, x)
      BY <2>1, <2>5, <3>2 DEF SavesOver, At
    <3>4. row[x].deleted => edit[s].late
      BY <2>1, <2>2 DEF WithdrawnInv, LateIsLate
    <3> HIDE DEF x, r
    <3>5. \A y \in Rows \ {x} : row'[y] = row[y]
      BY <2>3 DEF WithdrawnInv, PublishingOk
    <3>6. row'[x] = row[x] \/ row'[x] = r
      BY <2>2, <2>3 DEF WithdrawnInv, PublishingOk
    <3>7. Unpublished'
      BY <2>1, <2>2, <3>1, <3>5, <3>6 DEF WithdrawnInv, Unpublished
    <3>8. ASSUME NEW t \in Slots \ {s}, edit[t].pc \in {"previous", "save"}
          PROVE  edit[t].id \in Rows
      BY <3>8, BusySlot DEF WithdrawnInv
    <3>9. LateIsLate'
      BY <2>4, <3>1, <3>5, <3>6, <3>8 DEF WithdrawnInv, LateIsLate
    <3>10. StaysWithdrawn
      BY <3>1, <3>3, <3>4, <3>5, <3>6 DEF StaysWithdrawn
    <3> QED BY <3>7, <3>9, <3>10
  <2>6. CASE ~WholeRow(s)
    <3>1. r \in Row /\ r.uri # "none" /\ r.deleted = row[x].deleted /\ r.taken = row[x].taken
      BY <2>2, <2>6 DEF Row
    <3> HIDE DEF x, r
    <3>2. \A y \in Rows : /\ row'[y].uri = "none" <=> row[y].uri = "none"
                          /\ row'[y].deleted = row[y].deleted
                          /\ row'[y].taken = row[y].taken
      BY <2>2, <2>3, <3>1, SameColumns DEF WithdrawnInv
    <3> QED BY <2>1, <2>4, <3>2, WithdrawnUndisturbed
  <2> QED BY <2>5, <2>6
<1>4. ASSUME EditHistory(s) PROVE (Unpublished /\ LateIsLate)' /\ StaysWithdrawn
  <2>1. edit[s].pc = "history" /\ row' = row
    BY <1>4 DEF EditHistory, At
  <2>2. row[edit[s].id].uri # "none" /\ edit[s].id \in Rows
    BY <2>1, BusySlot DEF WithdrawnInv
  <2>3. \A y \in Rows \ {edit[s].id} : history'[y] = history[y]
    BY <1>4 DEF EditHistory, WithdrawnInv, PublishingOk
  <2>4. edit'[s].pc = "idle" /\ \A t \in Slots \ {s} : edit'[t] = edit[t]
    BY <1>4 DEF EditHistory, Done, Idle, WithdrawnInv, PublishingOk
  <2> QED BY <2>1, <2>2, <2>3, <2>4, WithdrawnUndisturbed
<1> QED BY <1>1, <1>2, <1>3, <1>4 DEF EditStep

LEMMA WithdrawnRow ==
    ASSUME WithdrawnInv, NEW x \in Rows, RowStep(x)
    PROVE  (Unpublished /\ LateIsLate)' /\ StaysWithdrawn
<1>1. ASSUME NEW text \in Texts, CreatePost(x, text) \/ CreateComment(x, text)
      PROVE  (Unpublished /\ LateIsLate)' /\ StaysWithdrawn
  BY <1>1, WithdrawnByPublishing DEF CreatePost, CreateComment
<1>2. CASE Delete(x)
  BY <1>2, WithdrawnByWithdrawing DEF Delete, Exists
<1>3. CASE Moderate(x)
  <2>1. /\ row[x].uri # "none" /\ history' = history /\ edit' = edit
        /\ row'[x].uri = row[x].uri /\ row'[x].deleted = row[x].deleted
        /\ \A y \in Rows \ {x} : row'[y] = row[y]
    BY <1>3 DEF Moderate, Exists, WithdrawnInv, PublishingOk, Row
  <2>2. Unpublished'
    BY <2>1 DEF WithdrawnInv, Unpublished
  <2>3. LateIsLate'
    <3>1. \A t \in Slots : edit[t].pc \in {"previous", "save"} => edit[t].id \in Rows
      BY BusySlot DEF WithdrawnInv
    <3> QED BY <2>1, <3>1 DEF WithdrawnInv, LateIsLate
  <2>4. StaysWithdrawn
    BY <1>3, <2>1 DEF StaysWithdrawn
  <2> QED BY <2>2, <2>3, <2>4
<1> QED BY <1>1, <1>2, <1>3 DEF RowStep

LEMMA WithdrawnDeath ==
    ASSUME WithdrawnInv, NEW s \in Slots, Die(s)
    PROVE  (Unpublished /\ LateIsLate)' /\ StaysWithdrawn
<1>1. edit'[s].pc = "idle" /\ \A t \in Slots \ {s} : edit'[t] = edit[t]
  BY DEF Die, Done, Idle, WithdrawnInv, PublishingOk
<1>2. row' = row /\ history' = history
  BY DEF Die
<1> QED BY <1>1, <1>2, WithdrawnUndisturbed

LEMMA WithdrawnStep ==
    ASSUME WithdrawnInv, Next
    PROVE  (Unpublished /\ LateIsLate)' /\ StaysWithdrawn
<1>1. LoadedOk
  BY PublishingOkIsTyped DEF WithdrawnInv
<1> QED BY <1>1, WithdrawnCreate, WithdrawnEdit, WithdrawnRow, WithdrawnDeath DEF Next

LEMMA AlwaysWithdrawn == ModerationSpec => []WithdrawnInv /\ [][StaysWithdrawn]_vars
<1>1. ModerationInit => WithdrawnInv
  <2> SUFFICES ASSUME Init PROVE WithdrawnInv
    BY DEF ModerationInit
  <2>1. Unpublished
    <3>1. /\ ~Missing.deleted /\ ~Missing.taken
          /\ ~Published(Missing.text).deleted /\ ~Published(Missing.text).taken
      BY DEF Missing, Published
    <3>2. \A x \in Rows :
            /\ row[x] \in {Missing, Published(Missing.text)}
            /\ history[x] = {}
      BY DEF Init
    <3> QED BY <3>1, <3>2 DEF Unpublished
  <2>2. LateIsLate
    BY DEF Init, LateIsLate, Idle
  <2> QED BY <2>1, <2>2, PublishingStarts, PublishingAssumption DEF WithdrawnInv
<1>2. WithdrawnInv /\ [ModerationNext]_<<vars, reportVars>> => WithdrawnInv' /\ StaysWithdrawn
  <2> SUFFICES ASSUME WithdrawnInv, [ModerationNext]_<<vars, reportVars>>
               PROVE  (Unpublished /\ LateIsLate)' /\ StaysWithdrawn
    BY PublishingKept, PublishingAssumption DEF WithdrawnInv
  <2>1. CASE UNCHANGED <<row, history, edit>>
    <3>1. Unpublished' /\ LateIsLate'
      BY <2>1 DEF WithdrawnInv, Unpublished, LateIsLate
    <3>2. StaysWithdrawn
      BY <2>1 DEF StaysWithdrawn
    <3> QED BY <3>1, <3>2
  <2>2. CASE Next
    BY <2>2, WithdrawnStep
  <2> QED BY <2>1, <2>2 DEF ModerationNext, vars
<1>3. StaysWithdrawn => [StaysWithdrawn]_vars
  OBVIOUS
<1> QED BY <1>1, <1>2, <1>3, PTL DEF ModerationSpec

(***************************************************************************)
(* WithdrawnStays, for any rows and any requests that overlap: a deleted   *)
(* row comes back by a late save of the whole row alone, a row that was    *)
(* taken down by such a save or by staff.                                  *)
(***************************************************************************)
THEOREM WithdrawnRowsStay == ModerationSpec => WithdrawnStays
  BY AlwaysWithdrawn DEF WithdrawnStays, StaysWithdrawn

-----------------------------------------------------------------------------

(* The history knows what an edit has loaded, and what it will call the    *)
(* previous text.                                                          *)
Told(e) ==
    e.pc \in {"previous", "save", "history"} /\ e.id \notin lost =>
        /\ e.pc # "history" => Known(e.id, e.loaded.text)
        /\ Known(e.id, e.previous)

HistoryInv ==
    /\ HistoryTellsAll
    /\ \A s \in Slots : Told(edit[s])

(* What is known of a row that is there remains so.                        *)
KnownStays ==
    \A x \in Rows \ lost' : Exists(x) => \A text : Known(x, text) => Known(x, text)'

LEMMA KnownGrows ==
    ASSUME PublishingOk,
           \A x \in Rows : Exists(x) => first'[x] = first[x],
           \A x \in Rows : history[x] \subseteq history'[x],
           \A t \in Slots : edit[t].pc = "history" =>
               \/ edit'[t].pc = "history" /\ edit'[t].id = edit[t].id /\ edit'[t].new = edit[t].new
               \/ edit[t].id \in lost'
               \/ \E change \in history'[edit[t].id] : change.new = edit[t].new
    PROVE  KnownStays
<1> SUFFICES ASSUME NEW x \in Rows \ lost', Exists(x), NEW text, Known(x, text)
             PROVE  Known(x, text)'
  BY DEF KnownStays
<1>1. CASE text = first[x]
  BY <1>1 DEF Known
<1>2. CASE \E change \in history[x] : change.new = text
  BY <1>2 DEF Known
<1>3. ASSUME NEW t \in Slots, At(t, "history"), edit[t].id = x, edit[t].new = text
      PROVE  Known(x, text)'
  BY <1>3 DEF Known, At
<1> QED BY <1>1, <1>2, <1>3 DEF Known

(* Only processes of T make a step, the others at most learn that they are *)
(* late.                                                                   *)
Others(T) ==
    \A t \in Slots \ T :
        /\ edit'[t].pc = edit[t].pc
        /\ edit[t].pc # "idle" =>
              /\ edit'[t].id = edit[t].id /\ edit'[t].loaded = edit[t].loaded
              /\ edit'[t].previous = edit[t].previous /\ edit'[t].new = edit[t].new

LEMMA HistoryByStep ==
    ASSUME WithdrawnInv, HistoryInv, KnownStays, lost \subseteq lost',
           NEW T \in SUBSET Slots, Others(T), \A s \in T : Told(edit[s])',
           \A x \in Rows \ lost' : Exists(x)' =>
               \/ Exists(x) /\ row'[x].text = row[x].text
               \/ Known(x, row[x].text)',
           \A x \in Rows \ lost' : \A change \in history'[x] :
               change \in history[x] \/ Known(x, change.previous)'
    PROVE  HistoryInv'
<1>1. ASSUME NEW x \in Rows \ lost', Exists(x)'
      PROVE  Known(x, row[x].text)'
  <2>1. CASE Exists(x) /\ row'[x].text = row[x].text
    <3>1. Known(x, row[x].text)
      BY <2>1 DEF HistoryInv, HistoryTellsAll
    <3>2. Known(x, row'[x].text)
      BY <2>1, <3>1
    <3>3. \A text : Known(x, text) => Known(x, text)'
      BY <2>1 DEF KnownStays
    <3> QED BY <2>1, <3>2, <3>3 DEF Known, At
  <2> QED BY <1>1, <2>1
<1>2. ASSUME NEW x \in Rows \ lost', NEW change \in history'[x]
      PROVE  Known(x, change.previous)'
  <2>1. CASE change \in history[x]
    <3>1. Exists(x)
      BY <2>1 DEF WithdrawnInv, Unpublished, Exists
    <3>2. Known(x, change.previous)
      BY <2>1 DEF HistoryInv, HistoryTellsAll
    <3> QED BY <3>1, <3>2 DEF KnownStays
  <2> QED BY <1>2, <2>1
<1>3. HistoryTellsAll'
  BY <1>1, <1>2 DEF HistoryTellsAll
<1>4. ASSUME NEW t \in Slots \ T PROVE Told(edit[t])'
  <2> SUFFICES ASSUME edit'[t].pc \in {"previous", "save", "history"}, edit'[t].id \notin lost'
               PROVE  /\ edit'[t].pc # "history" => Known(edit[t].id, edit[t].loaded.text)'
                      /\ Known(edit[t].id, edit[t].previous)'
    BY DEF Told
  <2>1. edit[t].pc # "idle"
    BY DEF Others
  <2>2. PICK x, old, previous :
          x = edit[t].id /\ old = edit[t].loaded.text /\ previous = edit[t].previous
    OBVIOUS
  <2>3. x \in Rows \ lost' /\ Exists(x)
    BY <2>1, <2>2, BusySlot DEF WithdrawnInv, Exists, Others
  <2>4. /\ edit'[t].pc = edit[t].pc /\ edit'[t].id = x
        /\ edit'[t].loaded.text = old /\ edit'[t].previous = previous
    BY <2>1, <2>2 DEF Others
  <2>5. /\ edit[t].pc # "history" => Known(x, old)
        /\ Known(x, previous)
    BY <2>2, <2>3, <2>4 DEF HistoryInv, Told
  <2>6. /\ edit[t].pc # "history" => Known(x, old)'
        /\ Known(x, previous)'
    BY <2>3, <2>5 DEF KnownStays
  <2> QED BY <2>4, <2>6 DEF Known, At
<1> QED BY <1>3, <1>4 DEF HistoryInv

(* Nothing is told, and no process dies.                                   *)
LEMMA QuietKnown ==
    ASSUME PublishingOk, history' = history,
           \A x \in Rows : Exists(x) => first'[x] = first[x],
           NEW T \in SUBSET Slots, Others(T), \A s \in T : edit[s].pc # "history"
    PROVE  KnownStays
  BY KnownGrows DEF Others

LEMMA HistoryByPublishing ==
    ASSUME WithdrawnInv, HistoryInv, NEW x \in Rows, NEW uri \in {"own", "pending"},
           NEW text \in Texts, Publish(x, uri, text),
           NEW T \in SUBSET Slots, Others(T),
           \A s \in T : edit[s].pc = "idle" /\ edit'[s].pc = "uri"
    PROVE  HistoryInv'
<1> DEFINE r == [Published(text) EXCEPT !.uri = uri]
<1>1. /\ row[x].uri = "none" /\ row' = [row EXCEPT ![x] = r]
      /\ first' = [first EXCEPT ![x] = text] /\ history' = history /\ lost' = lost
  BY DEF Publish, Exists
<1>2. r.text = text
  BY DEF Published, Missing
<1> HIDE DEF r
<1>3. row'[x].text = text /\ \A y \in Rows \ {x} : row'[y] = row[y]
  BY <1>1, <1>2 DEF WithdrawnInv, PublishingOk
<1>4. first'[x] = text /\ \A y \in Rows \ {x} : first'[y] = first[y]
  BY <1>1 DEF WithdrawnInv, PublishingOk
<1>5. KnownStays
  BY <1>1, <1>4, QuietKnown DEF WithdrawnInv, Exists
<1>6. \A s \in T : Told(edit[s])'
  BY DEF Told
<1>7. ASSUME NEW y \in Rows, Exists(y)'
      PROVE  (Exists(y) /\ row'[y].text = row[y].text) \/ Known(y, row[y].text)'
  <2>1. CASE y = x
    BY <1>3, <1>4, <2>1 DEF Known
  <2>2. CASE y # x
    BY <1>3, <1>7, <2>2 DEF Exists
  <2> QED BY <2>1, <2>2
<1> QED BY <1>1, <1>5, <1>6, <1>7, HistoryByStep

(* A step of process s that publishes no text.                             *)
LEMMA HistoryUndisturbed ==
    ASSUME WithdrawnInv, HistoryInv, UNCHANGED <<history, first, lost>>,
           \A x \in Rows : Exists(x)' => Exists(x) /\ row'[x].text = row[x].text,
           NEW T \in SUBSET Slots, Others(T),
           \A s \in T : edit[s].pc # "history" /\ Told(edit[s])'
    PROVE  HistoryInv'
<1>1. KnownStays
  BY QuietKnown DEF WithdrawnInv
<1> QED BY <1>1, HistoryByStep

LEMMA HistoryWithdraw ==
    ASSUME WithdrawnInv, HistoryInv, UNCHANGED <<history, first, lost>>, NEW x \in Rows,
           row[x].uri # "none", Withdraw(x), NEW T \in SUBSET Slots,
           \A t \in Slots \ T : edit'[t] = Overtaken(x)[t],
           \A s \in T : edit[s].pc # "history" /\ edit'[s].pc = "idle"
    PROVE  HistoryInv'
<1>1. \A y \in Rows : Exists(y)' => Exists(y) /\ row'[y].text = row[y].text
  BY DEF Withdraw, WithdrawnInv, PublishingOk, Row, Exists
<1>2. Others(T)
  <2> SUFFICES ASSUME NEW t \in Slots \ T
               PROVE  LET e == Overtaken(x)[t]
                      IN  /\ e.pc = edit[t].pc
                          /\ edit[t].pc # "idle" =>
                                /\ e.id = edit[t].id /\ e.loaded = edit[t].loaded
                                /\ e.previous = edit[t].previous /\ e.new = edit[t].new
    BY DEF Others
  <2> QED BY OvertakenOk DEF WithdrawnInv, PublishingOk, Idle
<1>3. \A s \in T : Told(edit[s])'
  BY DEF Told
<1> QED BY <1>1, <1>2, <1>3, HistoryUndisturbed

LEMMA HistoryCreate ==
    ASSUME WithdrawnInv, HistoryInv, NEW s \in Slots, CreateStep(s)
    PROVE  HistoryInv'
<1>1. ASSUME NEW x \in Posts, NEW text \in Texts, ApiCreate(s, x, text) PROVE HistoryInv'
  <2>1. /\ edit[s].pc = "idle" /\ edit'[s].pc = "uri"
        /\ \A t \in Slots \ {s} : edit'[t] = edit[t]
    BY <1>1 DEF ApiCreate, Begin, At, WithdrawnInv, PublishingOk
  <2>2. Publish(x, "pending", text) /\ x \in Rows
    BY <1>1 DEF ApiCreate, Rows
  <2>3. Others({s})
    BY <2>1 DEF Others
  <2> QED BY <2>1, <2>2, <2>3, HistoryByPublishing
<1>2. ASSUME ApiUri(s) PROVE HistoryInv'
  <2> DEFINE x == edit[s].id
             r == [row[x] EXCEPT !.uri = "own"]
  <2>1. edit[s].pc = "uri" /\ row' = [row EXCEPT ![x] = r] /\ UNCHANGED <<history, first, lost>>
    BY <1>2 DEF ApiUri, At
  <2>2. edit[s] \in Editing /\ x \in Rows /\ row[x] \in Row /\ row[x].uri # "none"
    BY <2>1, BusySlot DEF WithdrawnInv
  <2>3. r.text = row[x].text
    BY <2>2 DEF Row
  <2>4. /\ \A t \in Slots \ {s} : edit'[t] = edit[t]
        /\ edit'[s].pc \in {"reject", "idle"}
    <3>1. edit' = [edit EXCEPT ![s].pc = "reject"] \/ edit' = [edit EXCEPT ![s] = Idle]
      BY <1>2 DEF ApiUri, Goto, Done
    <3> QED BY <2>2, <3>1 DEF Idle, WithdrawnInv, PublishingOk, Editing
  <2> HIDE DEF x, r
  <2>5. \A y \in Rows : Exists(y)' => Exists(y) /\ row'[y].text = row[y].text
    BY <2>1, <2>2, <2>3 DEF WithdrawnInv, PublishingOk, Exists
  <2>6. Others({s}) /\ Told(edit[s])'
    BY <2>4 DEF Others, Told
  <2> QED BY <2>1, <2>5, <2>6, HistoryUndisturbed
<1>3. ASSUME ApiReject(s) PROVE HistoryInv'
  <2> DEFINE x == edit[s].id
  <2>1. edit[s].pc = "reject" /\ Withdraw(x) /\ UNCHANGED <<history, first, lost>>
    BY <1>3 DEF ApiReject, At
  <2>2. x \in Rows /\ row[x].uri # "none"
    BY <2>1, BusySlot DEF WithdrawnInv
  <2>3. edit' = [Overtaken(x) EXCEPT ![s] = Idle]
    BY <1>3 DEF ApiReject
  <2>4. Overtaken(x) \in [Slots -> Editing \union {Idle}]
    BY OvertakenOk DEF WithdrawnInv, PublishingOk
  <2> HIDE DEF x
  <2>5. edit'[s].pc = "idle" /\ \A t \in Slots \ {s} : edit'[t] = Overtaken(x)[t]
    BY <2>3, <2>4 DEF Idle
  <2>6. \A t \in {s} : edit[t].pc # "history" /\ edit'[t].pc = "idle"
    BY <2>1, <2>5
  <2>7. {s} \in SUBSET Slots
    OBVIOUS
  <2> QED BY <2>1, <2>2, <2>5, <2>6, <2>7, HistoryWithdraw
<1> QED BY <1>1, <1>2, <1>3 DEF CreateStep

LEMMA HistoryBegin ==
    ASSUME WithdrawnInv, HistoryInv, NEW s \in Slots, NEW x \in Rows, NEW web \in BOOLEAN,
           NEW text \in Texts, EditBegin(s, x, web, text)
    PROVE  HistoryInv'
<1>1. UNCHANGED <<row, history, first, lost>> /\ Exists(x) /\ edit[s].pc = "idle"
  BY DEF EditBegin, Begin, At
<1>2. /\ edit'[s].id = x /\ edit'[s].loaded = row[x] /\ edit'[s].previous = row[x].text
      /\ \A t \in Slots \ {s} : edit'[t] = edit[t]
  BY DEF EditBegin, Begin, WithdrawnInv, PublishingOk
<1>3. Others({s})
  BY <1>2 DEF Others
<1>4. KnownStays
  BY <1>1, <1>3, QuietKnown DEF WithdrawnInv
<1>5. x \notin lost => Known(x, row[x].text)
  BY <1>1 DEF HistoryInv, HistoryTellsAll
<1>6. PICK old : old = row[x].text
  OBVIOUS
<1>7. x \notin lost' => Known(x, old)'
  BY <1>1, <1>4, <1>5, <1>6 DEF KnownStays
<1>8. Told(edit[s])'
  BY <1>2, <1>6, <1>7 DEF Told, Known, At
<1>9. \A y \in Rows : Exists(y)' => Exists(y) /\ row'[y].text = row[y].text
  BY <1>1 DEF Exists
<1> QED BY <1>1, <1>3, <1>8, <1>9, HistoryUndisturbed

LEMMA HistoryPrevious ==
    ASSUME WithdrawnInv, HistoryInv, NEW s \in Slots, EditPrevious(s)
    PROVE  HistoryInv'
<1>1. UNCHANGED <<row, history, first, lost>> /\ edit[s].pc = "previous"
  BY DEF EditPrevious, At
<1>2. edit[s] \in Editing /\ edit[s].id \in Rows /\ Exists(edit[s].id)
  BY <1>1, BusySlot DEF WithdrawnInv, Exists
<1>3. PICK x, old, text : x = edit[s].id /\ old = edit[s].loaded.text /\ text = row[x].text
  OBVIOUS
<1>4. \/ edit' = [edit EXCEPT ![s] = Idle]
      \/ edit' = [edit EXCEPT ![s] = [edit[s] EXCEPT !.pc = "save", !.previous = text]]
  BY <1>3 DEF EditPrevious, Done, WithdrawnInv, PublishingOk
<1>5. /\ \A t \in Slots \ {s} : edit'[t] = edit[t]
      /\ \/ edit'[s].pc = "idle"
         \/ /\ edit'[s].pc = "save" /\ edit'[s].id = x /\ edit'[s].loaded.text = old
            /\ edit'[s].previous = text
  <2>1. [edit[s] EXCEPT !.pc = "save", !.previous = text].pc = "save"
        /\ [edit[s] EXCEPT !.pc = "save", !.previous = text].id = x
        /\ [edit[s] EXCEPT !.pc = "save", !.previous = text].loaded.text = old
        /\ [edit[s] EXCEPT !.pc = "save", !.previous = text].previous = text
    BY <1>2, <1>3 DEF Editing
  <2> DEFINE e == [edit[s] EXCEPT !.pc = "save", !.previous = text]
  <2>2. \/ edit' = [edit EXCEPT ![s] = Idle]
        \/ edit' = [edit EXCEPT ![s] = e]
    BY <1>4
  <2>3. e.pc = "save" /\ e.id = x /\ e.loaded.text = old /\ e.previous = text
    BY <2>1
  <2> HIDE DEF e
  <2> QED BY <2>2, <2>3 DEF Idle, WithdrawnInv, PublishingOk
<1>6. Others({s})
  BY <1>5 DEF Others
<1>7. KnownStays
  BY <1>1, <1>6, QuietKnown DEF WithdrawnInv
<1>8. x \notin lost => Known(x, text) /\ Known(x, old)
  BY <1>1, <1>2, <1>3 DEF HistoryInv, HistoryTellsAll, Told
<1>9. x \notin lost' => Known(x, text)' /\ Known(x, old)'
  BY <1>1, <1>2, <1>3, <1>7, <1>8 DEF KnownStays
<1>10. Told(edit[s])'
  BY <1>5, <1>9 DEF Told, Known, At
<1>11. \A y \in Rows : Exists(y)' => Exists(y) /\ row'[y].text = row[y].text
  BY <1>1 DEF Exists
<1> QED BY <1>1, <1>6, <1>10, <1>11, HistoryUndisturbed

LEMMA HistorySave ==
    ASSUME WithdrawnInv, HistoryInv, NEW s \in Slots, EditSave(s)
    PROVE  HistoryInv'
<1>1. UNCHANGED <<history, first, lost>> /\ edit[s].pc = "save"
  BY DEF EditSave, At
<1>2. /\ edit[s] \in Editing /\ edit[s].id \in Rows /\ Exists(edit[s].id)
      /\ row[edit[s].id] \in Row /\ edit[s].loaded \in Row /\ edit[s].new \in Texts
  BY <1>1, BusySlot DEF WithdrawnInv, Exists
<1>3. PICK x, old, previous, new :
        /\ x = edit[s].id /\ old = edit[s].loaded.text
        /\ previous = edit[s].previous /\ new = edit[s].new
  OBVIOUS
<1>4. /\ \A t \in Slots \ {s} : edit'[t] = edit[t]
      /\ \/ edit'[s].pc = "idle"
         \/ /\ edit'[s].pc = "history" /\ edit'[s].id = x
            /\ edit'[s].previous = previous /\ edit'[s].new = new
  <2>1. edit' = [edit EXCEPT ![s].pc = "history"] \/ edit' = [edit EXCEPT ![s] = Idle]
    BY DEF EditSave, Goto, Done
  <2> QED BY <1>2, <1>3, <2>1 DEF Idle, WithdrawnInv, PublishingOk, Editing
<1>5. Others({s})
  BY <1>4 DEF Others
<1>6. KnownStays
  BY <1>1, <1>5, QuietKnown DEF WithdrawnInv
<1>7. x \notin lost => Known(x, previous) /\ Known(x, old)
  BY <1>1, <1>3 DEF HistoryInv, Told
<1>8. x \notin lost' => Known(x, previous)' /\ Known(x, old)'
  BY <1>1, <1>2, <1>3, <1>6, <1>7 DEF KnownStays
<1>9. Told(edit[s])'
  BY <1>4, <1>8 DEF Told, Known, At
<1>10. ASSUME NEW y \in Rows \ lost', Exists(y)'
       PROVE  (Exists(y) /\ row'[y].text = row[y].text) \/ Known(y, row[y].text)'
  <2> DEFINE r == [(IF WholeRow(s) THEN edit[s].loaded ELSE row[x]) EXCEPT !.text = new]
  <2>1. r.text = new
    BY <1>2, <1>3 DEF Row
  <2>2. \/ row' = row
        \/ /\ row' = [row EXCEPT ![x] = r]
           /\ IF Changed(s) THEN Goto(s, "history") ELSE Done(s)
    BY <1>3 DEF EditSave
  <2> HIDE DEF r
  <2>3. CASE row' = row \/ y # x
    BY <1>2, <1>3, <1>10, <2>2, <2>3 DEF Exists, WithdrawnInv, PublishingOk
  <2>4. CASE y = x /\ row' = [row EXCEPT ![x] = r] /\ Changed(s) /\ Goto(s, "history")
    <3>1. edit'[s].pc = "history"
      BY <1>2, <2>4 DEF Goto, WithdrawnInv, PublishingOk, Editing
    <3>2. edit'[s].id = x /\ edit'[s].new = new
      BY <1>4, <3>1
    <3>3. row'[y].text = new
      BY <1>2, <1>3, <2>1, <2>4 DEF WithdrawnInv, PublishingOk
    <3> QED BY <2>4, <3>1, <3>2, <3>3 DEF Known, At
  <2>5. CASE y = x /\ row' = [row EXCEPT ![x] = r] /\ ~Changed(s)
    <3>1. new = old \/ new = previous
      BY <1>3, <2>5 DEF Changed
    <3>2. row'[y].text = new
      BY <1>2, <1>3, <2>1, <2>5 DEF WithdrawnInv, PublishingOk
    <3>3. Known(x, new)'
      BY <1>8, <1>10, <2>5, <3>1 DEF Known, At
    <3> QED BY <2>5, <3>2, <3>3 DEF Known, At
  <2> QED BY <2>2, <2>3, <2>4, <2>5
<1> QED BY <1>1, <1>5, <1>6, <1>9, <1>10, HistoryByStep

LEMMA HistoryTold ==
    ASSUME WithdrawnInv, HistoryInv, NEW s \in Slots, EditHistory(s)
    PROVE  HistoryInv'
<1>1. UNCHANGED <<row, first, lost>> /\ edit[s].pc = "history"
  BY DEF EditHistory, At
<1>2. edit[s] \in Editing /\ edit[s].id \in Rows /\ Exists(edit[s].id)
  BY <1>1, BusySlot DEF WithdrawnInv, Exists
<1>3. PICK x, previous, new :
        x = edit[s].id /\ previous = edit[s].previous /\ new = edit[s].new
  OBVIOUS
<1>4. /\ history'[x] = history[x] \union {[previous |-> previous, new |-> new]}
      /\ \A y \in Rows \ {x} : history'[y] = history[y]
  BY <1>2, <1>3 DEF EditHistory, WithdrawnInv, PublishingOk
<1>5. edit'[s].pc = "idle" /\ \A t \in Slots \ {s} : edit'[t] = edit[t]
  BY DEF EditHistory, Done, Idle, WithdrawnInv, PublishingOk
<1>6. Others({s})
  BY <1>5 DEF Others
<1>7. KnownStays
  <2>1. \E change \in history'[edit[s].id] : change.new = edit[s].new
    <3> DEFINE change == [previous |-> previous, new |-> new]
    <3>1. change.new = new
      OBVIOUS
    <3>2. change \in history'[x]
      BY <1>4
    <3> HIDE DEF change
    <3> QED BY <1>3, <3>1, <3>2
  <2>2. \A y \in Rows : history[y] \subseteq history'[y]
    BY <1>4
  <2> QED BY <1>1, <1>5, <2>1, <2>2, KnownGrows DEF WithdrawnInv
<1>8. x \notin lost => Known(x, previous)
  BY <1>1, <1>3 DEF HistoryInv, Told
<1>9. x \notin lost' => Known(x, previous)'
  BY <1>1, <1>2, <1>3, <1>7, <1>8 DEF KnownStays
<1>10. ASSUME NEW y \in Rows \ lost', NEW change \in history'[y]
       PROVE  change \in history[y] \/ Known(y, change.previous)'
  <2>1. CASE y = x /\ change = [previous |-> previous, new |-> new]
    <3>1. change.previous = previous
      BY <2>1
    <3> QED BY <1>9, <1>10, <2>1, <3>1
  <2> QED BY <1>4, <2>1
<1>11. \A y \in Rows : Exists(y)' => Exists(y) /\ row'[y].text = row[y].text
  BY <1>1 DEF Exists
<1>12. Told(edit[s])'
  BY <1>5 DEF Told
<1> QED BY <1>1, <1>6, <1>7, <1>10, <1>11, <1>12, HistoryByStep

LEMMA HistoryDeath ==
    ASSUME WithdrawnInv, HistoryInv, NEW s \in Slots, Die(s)
    PROVE  HistoryInv'
<1>1. /\ UNCHANGED <<row, history, first>> /\ lost \subseteq lost'
      /\ edit[s].pc = "history" => edit[s].id \in lost'
  BY DEF Die, At
<1>2. edit'[s].pc = "idle" /\ \A t \in Slots \ {s} : edit'[t] = edit[t]
  BY DEF Die, Done, Idle, WithdrawnInv, PublishingOk
<1>3. Others({s})
  BY <1>2 DEF Others
<1>4. KnownStays
  BY <1>1, <1>2, KnownGrows DEF WithdrawnInv
<1>5. \A y \in Rows : Exists(y)' => Exists(y) /\ row'[y].text = row[y].text
  BY <1>1 DEF Exists
<1>6. Told(edit[s])'
  BY <1>2 DEF Told
<1> QED BY <1>1, <1>3, <1>4, <1>5, <1>6, HistoryByStep

LEMMA HistoryRow ==
    ASSUME WithdrawnInv, HistoryInv, NEW x \in Rows, RowStep(x)
    PROVE  HistoryInv'
<1>1. edit' = edit => Others({})
  BY DEF Others
<1>2. {} \in SUBSET Slots
  OBVIOUS
<1>3. ASSUME NEW text \in Texts, CreatePost(x, text) \/ CreateComment(x, text)
      PROVE  HistoryInv'
  <2>1. edit' = edit /\ Publish(x, "own", text)
    BY <1>3 DEF CreatePost, CreateComment
  <2> QED BY <1>1, <1>2, <2>1, HistoryByPublishing
<1>4. CASE Delete(x)
  <2>1. /\ row[x].uri # "none" /\ Withdraw(x) /\ UNCHANGED <<history, first, lost>>
        /\ edit' = Overtaken(x)
    BY <1>4 DEF Delete, Exists
  <2> QED BY <1>2, <2>1, HistoryWithdraw
<1>5. CASE Moderate(x)
  <2>1. UNCHANGED <<history, edit, first, lost>>
    BY <1>5 DEF Moderate
  <2>2. \A y \in Rows : Exists(y)' => Exists(y) /\ row'[y].text = row[y].text
    BY <1>5 DEF Moderate, Exists, WithdrawnInv, PublishingOk, Row
  <2> QED BY <1>1, <1>2, <2>1, <2>2, HistoryUndisturbed
<1> QED BY <1>3, <1>4, <1>5 DEF RowStep

LEMMA HistoryStep ==
    ASSUME WithdrawnInv, HistoryInv, Next
    PROVE  HistoryInv'
<1>1. \A s \in Slots : EditStep(s) => HistoryInv'
  BY HistoryBegin, HistoryPrevious, HistorySave, HistoryTold DEF EditStep
<1> QED BY <1>1, HistoryCreate, HistoryRow, HistoryDeath DEF Next

(***************************************************************************)
(* HistoryTellsAll, for any rows and texts and any number of edits that    *)
(* overlap.                                                                *)
(***************************************************************************)
THEOREM HistoriesTellAll == ModerationSpec => []HistoryTellsAll
<1>1. ModerationInit => HistoryInv
  <2> SUFFICES ASSUME Init PROVE HistoryInv
    BY DEF ModerationInit
  <2>1. \A x \in Rows : row[x].text = first[x] /\ history[x] = {}
    <3>1. Published(Missing.text).text = Missing.text
      BY DEF Published, Missing
    <3> QED BY <3>1 DEF Init
  <2>2. HistoryTellsAll
    BY <2>1 DEF HistoryTellsAll, Known
  <2>3. \A s \in Slots : Told(edit[s])
    BY DEF Init, Told, Idle
  <2> QED BY <2>2, <2>3 DEF HistoryInv
<1>2. WithdrawnInv /\ HistoryInv /\ [ModerationNext]_<<vars, reportVars>> => HistoryInv'
  <2> SUFFICES ASSUME WithdrawnInv, HistoryInv, [ModerationNext]_<<vars, reportVars>>
               PROVE  HistoryInv'
    OBVIOUS
  <2>1. CASE UNCHANGED <<row, history, edit, first, lost>>
    BY <2>1 DEF HistoryInv, HistoryTellsAll, Told, Known, At, Exists
  <2>2. CASE Next
    BY <2>2, HistoryStep
  <2> QED BY <2>1, <2>2 DEF ModerationNext, vars
<1>3. HistoryInv => HistoryTellsAll
  BY DEF HistoryInv
<1> QED BY <1>1, <1>2, <1>3, AlwaysWithdrawn, PTL DEF ModerationSpec
=============================================================================
