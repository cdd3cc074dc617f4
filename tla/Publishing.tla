----------------------------- MODULE Publishing -----------------------------
(***************************************************************************)
(* Publishing, editing and deleting posts and comments, on the web and     *)
(* over the API (apps/posts/views.py, api_views.py).                       *)
(*                                                                         *)
(* Nothing here runs in a transaction: a request is one action per         *)
(* statement that others can get in between, and a form or a serializer    *)
(* saves the whole row it has loaded, whatever has become of it since.     *)
(*                                                                         *)
(* Abstracted: a text stands for content, spoiler_text and visibility      *)
(* together; an edit with the text it has loaded is one of other fields.   *)
(* Only its author edits or deletes a row.                                 *)
(* Left out: the post a comment belongs to, which the API lets an update   *)
(* change; the admin's forms, but for moderation_state; attachments,       *)
(* hashtags and link previews; notices are in SocialGraph and abuse        *)
(* control is in Engagement.                                               *)
(***************************************************************************)
EXTENDS Naturals, FiniteSets

CONSTANTS
    Posts,
    Comments,
    PostOf,       \* PostOf[c]: the post that comment c is about
    Texts,
    Slots,        \* web processes
    MaxRequests,  \* bound on requests
    MaxDeaths     \* bound on processes that die

Rows == Posts \union Comments

ASSUME PublishingAssumption ==
    /\ Posts \intersect Comments = {}
    /\ PostOf \in [Comments -> Posts]
    /\ Texts # {}
    /\ MaxRequests \in Nat
    /\ MaxDeaths \in Nat

VARIABLES
    row,      \* the tables Post and Comment
    history,  \* history[x]: the PostEditHistory or CommentEditHistory of x
    edit,     \* what the process in a slot is doing
    started,  \* requests so far
    died,     \* processes that died so far
    first,    \* history: first[x], the text x was published with
    lost      \* history: rows whose editor died before it wrote the history

bounds == <<started, died>>
vars == <<row, history, edit, bounds, first, lost>>

(* uri: none, there is no such row; pending, post_uri("pending").          *)
(* taken: moderation_state is TAKEN_DOWN.                                  *)
Row == [uri : {"none", "pending", "own"}, text : Texts, deleted : BOOLEAN, taken : BOOLEAN]

Change == [previous : Texts, new : Texts]

(* loaded: the instance the form or the serializer works on; previous:     *)
(* what the history will call the text before the edit.                    *)
(* late, a history: the row has been deleted since the request last made   *)
(* sure that it was not.                                                   *)
Editing == [pc : {"uri", "reject", "previous", "save", "history"}, id : Rows, web : BOOLEAN,
            loaded : Row, new : Texts, previous : Texts, late : BOOLEAN]

Idle == [pc |-> "idle"]

PublishingTypeOK ==
    /\ row \in [Rows -> Row]
    /\ history \in [Rows -> SUBSET Change]
    /\ edit \in [Slots -> Editing \union {Idle}]
    /\ started \in 0..MaxRequests
    /\ died \in 0..MaxDeaths
    /\ first \in [Rows -> Texts]
    /\ lost \subseteq Rows
    /\ \A s \in Slots : edit[s] # Idle => row[edit[s].id].uri # "none"

Missing == [uri |-> "none", text |-> CHOOSE t \in Texts : TRUE, deleted |-> FALSE, taken |-> FALSE]

Published(text) == [Missing EXCEPT !.uri = "own", !.text = text]

Init ==
    /\ row \in [Rows -> {Missing, Published(Missing.text)}]
    /\ \A c \in Comments : row[c] = Missing \/ row[PostOf[c]] # Missing
    /\ history = [x \in Rows |-> {}]
    /\ edit = [s \in Slots |-> Idle]
    /\ started = 0
    /\ died = 0
    /\ first = [x \in Rows |-> Missing.text]
    /\ lost = {}

-----------------------------------------------------------------------------

Count == started < MaxRequests /\ started' = started + 1 /\ UNCHANGED died

At(s, label) == edit[s].pc = label

Goto(s, label) == edit' = [edit EXCEPT ![s].pc = label]

Done(s) == edit' = [edit EXCEPT ![s] = Idle]

Exists(x) == row[x].uri # "none"

(* The post of comment x can be seen, as far as this module knows.         *)
InSight(x) ==
    x \in Comments =>
        Exists(PostOf[x]) /\ ~row[PostOf[x]].deleted /\ ~row[PostOf[x]].taken

Begin(s, x, label, web, text) ==
    /\ At(s, "idle")
    /\ Count
    /\ edit' = [edit EXCEPT ![s] = [pc |-> label, id |-> x, web |-> web, loaded |-> row[x],
                                    new |-> text, previous |-> row[x].text, late |-> FALSE]]

Publish(x, uri, text) ==
    /\ ~Exists(x)
    /\ row' = [row EXCEPT ![x] = [Published(text) EXCEPT !.uri = uri]]
    /\ first' = [first EXCEPT ![x] = text]
    /\ UNCHANGED <<history, lost>>

(* create_post_view: one save.                                             *)
CreatePost(x, text) ==
    /\ x \in Posts
    /\ Count
    /\ Publish(x, "own", text)
    /\ UNCHANGED edit

(* add_comment_view and CommentViewSet.perform_create; who may see a post  *)
(* otherwise is in Visibility.                                             *)
CreateComment(x, text) ==
    /\ x \in Comments
    /\ InSight(x)
    /\ Count
    /\ Publish(x, "own", text)
    /\ UNCHANGED edit

(* PostViewSet.perform_create: the address is unique, so the insert fails  *)
(* while another row has the pending one.                                  *)
ApiCreate(s, x, text) ==
    /\ x \in Posts
    /\ \A y \in Posts : row[y].uri # "pending"
    /\ Begin(s, x, "uri", FALSE, text)
    /\ Publish(x, "pending", text)

(* The address is saved, and nothing else. Then the upload, if there is    *)
(* one, turns out to be valid or not.                                      *)
ApiUri(s) ==
    /\ At(s, "uri")
    /\ row' = [row EXCEPT ![edit[s].id].uri = "own"]
    /\ Goto(s, "reject") \/ Done(s)
    /\ UNCHANGED <<history, bounds, first, lost>>

-----------------------------------------------------------------------------

(* deleted_at is saved, and nothing else. Whoever edits row x and does not *)
(* look at it again before the save comes late.                            *)
Blind(s, x) ==
    /\ edit[s].pc \in {"previous", "save"}
    /\ edit[s].id = x
    /\ edit[s].web \/ At(s, "save")

Withdraw(x) == row' = [row EXCEPT ![x].deleted = TRUE]

Overtaken(x) ==
    [s \in Slots |-> IF Blind(s, x) THEN [edit[s] EXCEPT !.late = TRUE] ELSE edit[s]]

(* An invalid upload withdraws the post.                                   *)
ApiReject(s) ==
    /\ At(s, "reject")
    /\ Withdraw(edit[s].id)
    /\ edit' = [Overtaken(edit[s].id) EXCEPT ![s] = Idle]
    /\ UNCHANGED <<history, bounds, first, lost>>

(* delete_post_view, delete_comment_view, and perform_destroy of both: the *)
(* row is loaded and saved, with nothing between the two that matters.     *)
Delete(x) ==
    /\ Exists(x)
    /\ ~row[x].deleted
    /\ Count
    /\ Withdraw(x)
    /\ edit' = Overtaken(x)
    /\ UNCHANGED <<history, first, lost>>

-----------------------------------------------------------------------------

(* edit_post_view, edit_comment_view and the updates of the API load the   *)
(* row. The web view of a comment has seen everything then.                *)
EditBegin(s, x, web, text) ==
    /\ Exists(x)
    /\ ~row[x].deleted
    /\ web \/ InSight(x)
    /\ Begin(s, x, IF web /\ x \in Comments THEN "save" ELSE "previous", web, text)
    /\ UNCHANGED <<row, history, first, lost>>

(* Mutated EditPrevious: the API reads its row again without a look at     *)
(* deleted_at.                                                             *)
EditPreviousAnyRow(s) ==
    /\ At(s, "previous")
    /\ edit' = [edit EXCEPT ![s].pc = "save", ![s].previous = row[edit[s].id].text]
    /\ UNCHANGED <<row, history, bounds, first, lost>>

(* A second query gives the history its previous text. On the web it asks  *)
(* for the text alone; the API calls get_object again, a 404 when the row  *)
(* is not to be seen any more.                                             *)
EditPrevious(s) ==
    LET x == edit[s].id
    IN  /\ At(s, "previous")
        /\ IF ~edit[s].web /\ (row[x].deleted \/ ~InSight(x))
           THEN Done(s)
           ELSE edit' = [edit EXCEPT ![s].pc = "save", ![s].previous = row[x].text]
        /\ UNCHANGED <<row, history, bounds, first, lost>>

(* The web view of a comment saves its content, everything else saves the  *)
(* whole row it has loaded,                                                *)
WholeRow(s) == edit[s].id \in Posts \/ ~edit[s].web

(* the pending address included, which is an IntegrityError if another     *)
(* post has it by now.                                                     *)
Collides(s) ==
    /\ edit[s].loaded.uri = "pending"
    /\ \E y \in Posts \ {edit[s].id} : row[y].uri = "pending"

(* Mutated Changed: the API compares with the instance that serializer     *)
(* .save() has updated by now.                                             *)
ChangedOnWeb(s) == edit[s].web /\ edit[s].new # edit[s].loaded.text

(* form.changed_data is against the row as loaded, perform_update and      *)
(* edit_comment_view compare the previous text.                            *)
Changed(s) ==
    IF edit[s].web /\ edit[s].id \in Posts
    THEN edit[s].new # edit[s].loaded.text
    ELSE edit[s].new # edit[s].previous

EditSave(s) ==
    LET x == edit[s].id
    IN  /\ At(s, "save")
        /\ IF WholeRow(s) /\ Collides(s)
           THEN Done(s) /\ UNCHANGED row
           ELSE /\ row' = [row EXCEPT ![x] = [(IF WholeRow(s) THEN edit[s].loaded ELSE @)
                                                 EXCEPT !.text = edit[s].new]]
                /\ IF Changed(s) THEN Goto(s, "history") ELSE Done(s)
        /\ UNCHANGED <<history, bounds, first, lost>>

EditHistory(s) ==
    /\ At(s, "history")
    /\ history' = [history EXCEPT ![edit[s].id] =
          @ \union {[previous |-> edit[s].previous, new |-> edit[s].new]}]
    /\ Done(s)
    /\ UNCHANGED <<row, bounds, first, lost>>

-----------------------------------------------------------------------------

(* Staff takes a post down, or puts it back, in the admin.                 *)
Moderate(x) ==
    /\ x \in Posts
    /\ Exists(x)
    /\ Count
    /\ row' = [row EXCEPT ![x].taken = ~@]
    /\ UNCHANGED <<history, edit, first, lost>>

(* The process in slot s dies.                                             *)
Die(s) ==
    /\ ~At(s, "idle")
    /\ died < MaxDeaths
    /\ died' = died + 1
    /\ lost' = IF At(s, "history") THEN lost \union {edit[s].id} ELSE lost
    /\ Done(s)
    /\ UNCHANGED <<row, history, started, first>>

CreateStep(s) ==
    (\E x \in Posts, text \in Texts : ApiCreate(s, x, text)) \/ ApiUri(s) \/ ApiReject(s)

EditStep(s) ==
    \/ \E x \in Rows, web \in BOOLEAN, text \in Texts : EditBegin(s, x, web, text)
    \/ EditPrevious(s) \/ EditSave(s) \/ EditHistory(s)

RowStep(x) ==
    \/ \E text \in Texts : CreatePost(x, text) \/ CreateComment(x, text)
    \/ Delete(x) \/ Moderate(x)

Next ==
    \/ \E s \in Slots : CreateStep(s) \/ EditStep(s) \/ Die(s)
    \/ \E x \in Rows : RowStep(x)

Spec == Init /\ [][Next]_vars

-----------------------------------------------------------------------------

(* Request s saves the whole row x.                                        *)
SavesOver(s, x) ==
    At(s, "save") /\ edit[s].id = x /\ WholeRow(s) /\ edit'[s] # edit[s]

(***************************************************************************)
(* "soft-delete/moderation fields" (README.md:15): a post or comment that  *)
(* was deleted, or taken down by staff, comes back by nothing but the save *)
(* of a whole row that was loaded before. A comment edited on the web      *)
(* never comes back, and the API's second get_object leaves only the       *)
(* moment between that query and its save.                                 *)
(***************************************************************************)
WithdrawnStays ==
    [][\A x \in Rows :
         /\ row[x].deleted /\ ~row'[x].deleted =>
               \E s \in Slots : SavesOver(s, x) /\ edit[s].late
         /\ row[x].taken /\ ~row'[x].taken =>
               Moderate(x) \/ \E s \in Slots : SavesOver(s, x) /\ ~edit[s].loaded.taken]_vars

(* The history of x knows the text, or an edit is about to tell it.        *)
Known(x, text) ==
    \/ text = first[x]
    \/ \E change \in history[x] : change.new = text
    \/ \E s \in Slots : At(s, "history") /\ edit[s].id = x /\ edit[s].new = text

(***************************************************************************)
(* PostEditHistory and CommentEditHistory (test_html_post_edit_creates_    *)
(* history_record, tests.py:516): however edits of one row overlap, each   *)
(* with a row loaded at another time and its own idea of what has changed, *)
(* the text a row has, and every text its history calls the previous one,  *)
(* is the first one or has been told as the new text of some edit. Only a  *)
(* process that dies right after its save leaves a gap.                    *)
(***************************************************************************)
HistoryTellsAll ==
    \A x \in Rows \ lost :
        /\ Exists(x) => Known(x, row[x].text)
        /\ \A change \in history[x] : Known(x, change.previous)
=============================================================================
