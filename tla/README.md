# Formal models of Freeparty

Freeparty is a Django application (Python, PostgreSQL, Redis, Celery,
Channels): a small social network with posts, follows and reactions, end-to-end
encrypted direct messages, moderation, guardian controls for minors, and
outbound and inbound federation. This directory holds TLA+ modules of the parts
of it in which several processes act on the same rows, the TLC configurations
that check them on small instances, and proofs of their central properties that
hold for every instance.

Paths below are relative to `src/`. All line numbers are those of
`PROJECT.json`, which maps every definition to the code it stands for.

## 1. Inventory

Processes: web workers (views run in autocommit, `ATOMIC_REQUESTS` is off, so
requests of one user interleave statement by statement), Celery workers (early
acknowledgement, `CELERY_TASK_TIME_LIMIT` 30 minutes), ASGI consumers, browser
pages, operators with management commands. They share the PostgreSQL rows; the
broker and the channel layer carry messages that may be lost or doubled.

| Component | State | Operations | Hard part | What makes it correct |
|---|---|---|---|---|
| Task reliability (`apps/core/services/task_reliability.py`, `apps/accounts/tasks.py`) | `AsyncTaskExecution`, `AsyncTaskFailure`, messages | start/resume, mark succeeded, mark failed, autoretry; as used by mails, attachments and link previews | unlocked skip test, at-least-once effects, deaths | after a recorded success nothing is repeated and what was asked for is there; complete failure trail; everything ends up recorded |
| Outbound delivery (`apps/federation/tasks.py`, `services.py`) | `FederationDelivery`, execution, failure rows, messages | enqueue, POST, save, record, retry by hand | retry inside a `try`, redelivery, late attempts | success is backed by an accepted POST; retries are finite |
| Encrypted sending (`apps/private_messages/views.py`, `services.py`) | conversation row lock, envelopes | send with rate limit, store, publish, commit | check-then-insert, event before commit | rate limit, order of visibility |
| Live updates (`views.py`, `consumers.py`, `templates/private_messages/detail.html`) | cursor, known ids, read marker, events | open, poll, socket event, mark read | events and polls race, cursor moves twice | nothing is passed over silently, nothing is marked read that was not given |
| Engagement and abuse control (`apps/social/views.py`, `apps/moderation/services.py`) | `Like`, `Dislike`, `Repost`, `TrustSignal`, automatic reports | toggles, score, throttle, evaluate, escalate, record velocity | overlapping toggles without locks, cached counters, a score computed once | at most one reaction, a denial leaves nothing, few reports a day, a stale signal is lenient |
| Identity keys (`apps/private_messages`) | `UserIdentityKey`, acknowledged key, audit log | bootstrap, register, rotate, acknowledge, compromise | check-then-insert of the active key | one active key |
| Conversation creation, unread counts | `Conversation`, participants | get-or-create, legacy lookup, counters | unique-key race, markers of two tabs | one conversation per pair |
| Social graph (`apps/social`) | `Follow`, `Block`, `Mute` | follow, approve, reject, unfollow, block | approval racing a block | no accepted follow across a block |
| Account lifecycle (`apps/accounts`) | `User`, tokens, TOTP, recovery codes | sign in, verify, reset the password, suspend, deactivate, delete, reactivate, purge, second factor | links and codes consumed without locks, purge racing recovery, whole-row saves, dates left behind | a working link until the deadline, a recovered account survives, a left one does not stay for ever, a code is spent once, a suspension holds |
| Guardian controls (`apps/profiles`) | `Profile`, tokens, change requests | edit, set visibility over the API, verify, approve, reject, manage | whole-row saves of stale data, a writer that asks for no lock | who reads a guarded profile puts its locks back |
| Publishing and media (`apps/posts`) | `Post`, history, attachments, previews | create, edit, delete, moderate, process, unfurl | stale save resurrects, media state overwritten | withdrawn stays withdrawn, histories are complete |
| Visibility, timelines (`apps/core/permissions.py`, `apps/posts/selectors.py`, `apps/timelines`) | none of its own | predicates and queries | two definitions of the same rule | queries agree with predicates |
| Report workflow (`apps/moderation/views.py`) | `Report`, actions, notes | file, assign, change status, act | entry points with different guards, deadlines computed twice | evidence before status for severe reports, one answer to what is overdue |
| Dead-letter commands (`apps/core/management/commands/dead_letter_inspect.py`) | failure rows | dismiss, replay | publish before save, payloads saved whole, rows made terminal early | replay limit, a terminal row says whose word it is |
| Federation inbox (`apps/federation/views.py`) | remote actors, posts, objects | accept, ingest, fetch | resent, held back and altered activities | what is accepted is on record, a replay undoes little |
| Notifications (`apps/notifications`) | `Notification` | create if new, push | dedupe by SELECT then INSERT | few duplicates in the window |
| Read-only pages, middleware, observability, settings, deployment | - | - | - | not modelled: rendering, logging and scripts |

How they interact: views and signals call `.delay()` (web to broker), tasks
write the execution and failure rows (worker to database) that the dead-letter
commands read; sending publishes to the channel layer, the consumer forwards to
the page, and the page polls the updates endpoint; the toggles read the trust
signal and file reports that moderators close; a block is looked at by follows,
lists and new conversations; a purge takes with it what signing in has left
behind. `PROJECT.json` lists the hazards
at the line where each bites, with the properties that would notice.

## 2. Modules

The modules form eight systems. Each is a chain of EXTENDS that ends in a
composing module, an `MC` module that gives the constants their values, and a
module of proofs.

| Module | What it is |
|---|---|
| `IdempotentJob` | abstract specification: an effect that may be performed while the job is open and never once it is latched |
| `TaskReliability`, `MCTaskReliability` | the task layer on one execution row, with the e-mail tasks; implements `IdempotentJob` |
| `PostTasks` | an attachment or a link preview as the body of such a task |
| `DeadLetter`, `MCDeadLetter` | operators who dismiss and replay the failures of these tasks |
| `TaskReliabilityProofs` | theorems about `TaskReliability`, and about `DeadLetter` with all it composes |
| `FederationDelivery` | one outbound delivery; implements `IdempotentJob` |
| `FederationInbox` | what one remote instance sends, and what is fetched from it |
| `Federation`, `MCFederation` | both directions of federation |
| `FederationProofs` | theorems about `FederationDelivery`, `FederationInbox` and `Federation` |
| `ConversationSend` | send transactions of one conversation under the row lock |
| `LiveUpdates`, `MCLiveUpdates` | `ConversationSend` composed with one participant's page, the updates endpoint and the socket |
| `LiveUpdatesProofs` | theorems about `ConversationSend`, that the composition preserves them, and about the page |
| `Engagement`, `MCEngagement` | toggles of one actor with abuse control |
| `TrustScore` | how the actor's trust signal is computed |
| `AbuseControl`, `MCAbuseControl` | both together |
| `AbuseControlProofs` | theorems about `AbuseControl` |
| `SocialGraph` | follows, requests, blocks, privacy and notices |
| `Visibility` | the permission rule and every query that restates it, over the state of `SocialGraph` |
| `DirectChat` | opening a conversation, and identity keys |
| `Social`, `MCSocial` | the three together |
| `SocialProofs` | theorems about `Social` |
| `AccountLifecycle` | one account that its owner leaves, the links back, and the purge |
| `SignIn` | sessions, authenticator, recovery codes, verification of the address |
| `Accounts`, `MCAccounts` | both together, with password resets and suspension |
| `AccountLifecycleProofs` | theorems about `AccountLifecycle` and about `Accounts` |
| `GuardianControls`, `MCGuardianControls` | one profile that its owner edits and a guardian watches over |
| `GuardianControlsProofs` | theorems about it |
| `Publishing` | posts and comments with their edit histories |
| `ReportWorkflow` | reports from filing to decision, and their deadlines |
| `Moderation`, `MCModeration` | both together |
| `ModerationProofs` | theorems about `Moderation` |

Every action is one database statement, HTTP request, publication or event
handler, so everything that can come between two of them in the deployment can
come between them in the model; statements of one transaction, and statements
between which nobody can notice a difference, are one action. A definition
whose comment begins with "Mutated" is a plausible bug in the definition below
it; it is not part of any specification and documents what the properties
notice.

### TaskReliability, PostTasks, DeadLetter

`status` is `AsyncTaskExecution.status` of one (task_name, idempotency_key);
`failures` the `AsyncTaskFailure` rows; `queue` the broker; `pc[w]` and
`msg[w]` where worker `w` is in the task body and with which message.
`start_task_execution` is three actions (`CreateExecution`, `FetchExecution`,
`ResumeExecution`), `mark_task_execution_failed` two (`MarkFailed`,
`RecordFailure`). `Deliver` is `send_mail` with its three outcomes, an exception
leaving open whether the server took the message. `AutoRetry` is Celery's
wrapper. `RetryLimit` is `retry_kwargs["max_retries"]`, `RecordedMax` is
`task.max_retries`: two constants because the code uses two numbers, and both by
task because these differ. The variable `task` says what the row is about
("mail", "media" or "unfurl"); it is chosen at the start and never changes.

In `PostTasks`, `work` is the state of the attachment or of the preview. The tasks of
`apps/posts/tasks.py` add a test of that state behind the skip test, and their
error branches write into it before the failure is recorded.

In `DeadLetter`, `marks[f]` is what the command writes into a failure row
(replay count, cooldown, `is_terminal` and its reason), next to what the task
layer wrote into it, and `command[o]` what an operator's
command has read. `ReplayPublish` comes before `ReplaySave`, which saves the
payload that was read, as `DismissSave` does. The failure rows of e-mails name
no arguments, so their replay raises a `TypeError` before anything is published
and is not an action.

### FederationDelivery, FederationInbox, Federation

One `FederationDelivery` row. `path[w]` says which of the failure branches an
attempt is in: a permanent status, a status to be retried, or the `except`
clause. `Retry` publishes; `AfterRetry` says where the `Retry` exception goes:
out of the task from the `except` clause, into it from the `try` block. The
queue counts messages per retry number since the doubled retries are equal
messages; `published` counts publications so that the tree can be bounded.
`Redeliver` is the broker's second delivery of a message whose countdown
outlives the visibility timeout.

In `FederationInbox` any activity the instance may have signed (`Activity`) may
arrive at any time, again, or never, as long as its signature is `Fresh`.
`inbound[p]` is the request that process `p` serves: actor, post and object are
stored in statements of their own, the last of which may fail on the unique
`canonical_uri`; an activity about nothing leaves a failed row. `posts[u]` keeps
the time its content was signed and whether it was delivered. A document that
is fetched touches the same rows (`Fetch`, `Document`, `FetchAuthor`,
`StorePost`). `Configured` is the setting of the replay window and `Default`
what an unusable one falls back to.

The two directions meet in the allow list only, so `Federation` chooses once
which direction a behaviour shows, and reaches each direction's states without
their product.

### ConversationSend and LiveUpdates

A request takes the conversation row (`Begin`, with the count of recent
messages), stores (`Store`), may be refused by any later check (`Refuse`),
publishes the event (`Publish`) and commits (`Commit`). In `LiveUpdates` the
page renders (`OpenPage` sets the read marker, `RenderPage` reads the list),
connects once, handles events, and polls: `StartPoll` sends the cursor,
`QueryUpdates`, `MarkAnswer` and `Answer` are the three parts of
`conversation_updates_view` that touch the database, `HandleAnswered` and
`FinishPoll` the page's loop over the answer. A cursor is abstracted to the
`created_at` of its message, which the model keeps distinct.

### Engagement, TrustScore, AbuseControl

`rows` holds the actor's row per kind and post, named by the request that
created it; `counter` the cached velocity counters; `throttle` the trust
signal's throttle; `reports` the open automatic reports, `aged` those that the
24 hours of `exists()` have gone past and that stay open, `resolved` those that
staff have closed, and may open again. A request tests and
inserts (`Toggle`), is evaluated (`Evaluate`), escalates in two statements
(`Escalate`, `FileReport`), and is undone or completed.

`TrustScore` computes `Score`, `Throttled` and `Hours` from the actor's history
(reports, actions, age, traits) with the weights and thresholds of the code as a
record of settings. The history goes on after the signal was computed, the
signal does not: `get_or_create` computes it once, and only an expired throttle
is lifted. One request computes it, from what it reads at one moment. As nothing
the toggles change enters the score, `AbuseControl` shows one of the two parts
per behaviour.

### SocialGraph, Visibility, DirectChat, Social

`follow[p]` is the `Follow` row of a pair and its state, `blocks` the blocks,
`private` the private accounts, `notices[p]` the FOLLOW notices within
`dedupe_seconds`. A slot is a web process; `req[s]` is what its request has read
and where it is. Following decides, stores, looks for an earlier notice and
inserts one; answering loads and saves; blocking inserts the block and deletes
the two follows: each of these is an action. `Outdated` names the saves of a
request that had read the tables too early, `strays` what is left over across a
block.

`Visibility` has no state. `CanViewPost` and `CanViewActor` are
`apps/core/permissions.py`; the other operators are the `WHERE` clauses of
selectors, search, API, bookmarks, hidden posts and pages.

In `DirectChat`, `legacy` counts the conversations of two actors without a
canonical key and `keyed` says who has one; `chat[c]` is the slot's transaction.
`keys` is the identity-key table in the order of `created_at`. Bootstrapping is
in autocommit; registering is a transaction whose new key is seen at its commit.

### AccountLifecycle, SignIn, Accounts

`account` is the `User` row with its flags and dates; a token is named by the
request that created it (`expires`, `used`, `mailed`). `Leave` is the check of
the session in `account_lifecycle_view`, `SaveLeave` the update, `SendLink` the
token and its mail, which may be lost (`fail_silently`). A visited link is
tested (`Click`), marked (`Consume`) and acted on (`Recover`) in three
statements, so two visits, or a visit and a second tab that leaves, overlap.
The purge is `PickDeletions`, `PickDeactivations` and `Remove`; it deletes by
the ids it collected. `late` keeps a request or purge from lasting over two
ticks of the clock; `recovered` is a history variable.

In `SignIn` a visit `v` has a job (enrol, regenerate, disable, confirm, verify,
reset), a place in it (`at[v]`) and what it has read (`held[v]`, `saw[v]`);
logging in and out, one statement each, are steps of a browser. `codes` are the recovery codes, known by the visit that made their set;
`ended[v]` the visits that were over when `v` began, which is how the
properties tell an overlap from a sequence. `Accounts` adds the password reset,
which saves the whole `User` row it has read, twice, and staff setting the
state; an older row written back over a newer one counts as a fault. `undone`
says that this row was one the owner had left, and was put over the recovery.

### GuardianControls

`profile` is the `Profile` row with its four visibility switches taken
together, and so are bio, location and website. A view reads it (`original[r]`)
and saves later: `Save` the whole row of `edit_profile_view`, `SavePatch` that of
`MyProfilePrivacyAPIView`, which asks for no lock; `Verify`, `Apply`
and `Manage` the columns in their `update_fields`. A verification link is named
by the request that sent it (`invited`, `used`), a change request by the edit
that asked for it. `Edited` is what `ProfileForm` and the restoring of locked
fields make of the instance, `Approved` what an approval makes of it. Both are
applied to what was read, not to the row. `misdirected` is a history variable.

### Publishing, ReportWorkflow, Moderation

`row[x]` is a post or a comment with its text, its deletion and its
moderation; `history[x]` its edit history; `edit[s]` what the request in slot
`s` has loaded and where it is. A web edit loads, validates into the instance,
saves the whole row and then writes the history; the API looks the row up a second time
before its save. A deletion saves `deleted_at` only; `late` marks requests that
it overtook after their last look at the row. `first[x]` is the text a row was
published with; `lost` names the rows whose editor died between save and
history.

`report[r]` is the `Report` row; `review[s]` the moderator's request. `Severity`
and `SlaTarget` are the tables of `models.py`, `DashboardBreached` and
`AnalyticsBreached` the queries with the numbers written into them,
`SlaBreached` the property of the model. Times are minutes.

## 3. What is checked

| Run | Bounds | Shows |
|---|---|---|
| `tasks` (`DeadLetter.cfg`) | 2 workers, 3 task ids, 1 fault; an e-mail requested twice with limits 2 and 1 (5 and 3 in the code), a link preview requested twice with 1 and 2 (2 and 3), or an attachment requested once with 1 and 1 (3 and 3), 2 operators, 2 commands, 1 replay | `AttemptTrail`, `TerminalRowsClose`, `SuccessIsServed`, `ReplayLimit`, refinement `ImplementsJob`, `EventuallySettled` |
| `task_terminal_row` | 1 worker, 1 request, limits 5 and 3 as in the code | **violated**: `TerminalIsFinal` |
| `federation` | out: 2 workers, 2 retries, the last of them slow, 1 fault; in: 2 processes, 1 id, 2 URIs, window 1, clock to 4, 2 requests, 1 death | `RetryTreeBounded`, `SuccessWasAccepted`, `OnRecord`, `ReplayIsRecent`, `ImplementsJob`, `EventuallyWorkedOff` |
| `federation_idempotence` | 2 workers, 1 retry, no fault | **violated**: `IdempotentAfterSuccess` |
| `live_updates` | 3 sends of 2 participants, limit 1 per window 1, clock to 5, pages of 1, 1 dead transaction, 1 lost connection or poll | `RateLimit`, `VisibleInOrder`, `NoPhantom`, `ReadWasGiven`, `OnlyKnownGaps`, `CatchesUp` |
| `live_updates_recovery` | 3 sends, no fault | **violated**: `PollingRecovers` |
| `engagement` (`AbuseControl.cfg`) | 2 likes, 1 dislike, 2 reposts of one post, threshold 0, 3 in flight, 1 death, 1 report resolved; trust: default settings but hour limits of 1, 2 traits, 2 ages, 4 reports, 3 actions | `OneReaction`, `DeniedLeavesNothing`, `NoReportFlood`, `StaleIsLenient` |
| `engagement_limit` | 3 likes one after the other, threshold 1 | **violated**: `LimitIsTemporary` |
| `account_lifecycle` (`Accounts.cfg`) | 4 scenarios out of 1 deactivation, 1 deletion, 1 support link, 1 visited link, 3 visits, a reset, staff; windows 2 and 1, clock to 4, sets of 1 code, 1 fault | `RecoverableInTime`, `SparedUnlessUndone`, `LeavingEnds`, `SpentOnce`, `OldCodesGone`, `SuspensionHolds` |
| `guardian_controls` | 2 requests of the owner, 3 visits of guardians, 2 addresses, 4 forms, 2 in flight | `VerifiedByLink`, `ProtectionsHold` |
| `social` | 2 actors, 2 slots, 3 requests, 1 death, none or 2 old threads | `FollowNeedsConsent`, `BlockCutsFollow`, `NoticesBounded`, `ListsAgree`, `OneConversation`, `OneActiveKey` |
| `moderation` | 2 posts, 1 comment, 2 texts, 1 report, 4 reasons, 2 statuses, 5 times, 3 requests in 2 slots, 1 death | `HistoryTellsAll`, `WithdrawnStays`, `EvidenceFirst`, `SlaAgrees` |

Why the bounds suffice. *Tasks:* two workers with two requests give every
overlap of a first attempt with a second request and with a retry of either; a
replay limit of 1 is exceeded by any second replay, and two commands are the
least that overlap on a row, or dismiss one that is still being retried. Commands
multiply the states and do the same to every row, so they meet the attachment
only, whose second request a replay is. The two limits keep the order that they
have in the code, which decides what the rows of a task mean: equal for
attachments (and for the notifications that are not modelled), autoretry's the
smaller one for previews and the greater one for e-mails. *Deliveries:* two
retries reach a first, a middle and a last attempt, the three cases the limits
distinguish, and the first two doublings of the tree. *Inbox:* with a window of
1 and a clock to 4, a copy is late, just in time, and too late by one; two URIs
let an activity come again with another object. *Live updates:* three sends are
the least for "a younger message overtakes an older one that the page has not
seen" with a message of the viewer itself, a page size of 1 makes every gap
of two a paged one, and a clock to 5 lets the cursor go back behind two messages
it has skipped, which a clock to 4 does not. *Engagement:* three toggles in flight are enough for a like,
a dislike and a removal to overlap; reports and actions reach each threshold of
the score from both sides. *Accounts:* both orders and the overlap of the two
ways to leave fit before the clock ends, each deadline is passed with the other
still open, the purge runs as often as it likes, and three visits make a set of
codes, spend one and replace the set, in any order and overlap. *Profiles:* one request
may set a guardian or ask for a change and the other overlap with it, and three
visits are the least that verify an address, apply a change and set a lock.
*Social:* the rules speak of two actors at a time; three requests in two
processes are a state of the tables, and two requests that overlap on it.
*Moderation:* likewise; the two texts make "changed" and "unchanged" differ, the
reasons have all four severities, and each time but the first is the first
minute after a deadline (the proof covers the minutes in between).

One fault at a time reaches every error path; two would add pairs of unrelated
losses. Symmetry (`engagement`, `social`, `moderation`, `guardian_controls`) is
sound as no property of these runs is about liveness and no definition tells
symmetric values apart (in `engagement` the two likes, and the two reposts).

Where two parts of a system share next to nothing (a delivery and the inbox, the
toggles and the score, the tasks, the scenarios of an account), a
variable that is chosen at the start says which part a behaviour shows. Each
part is explored as it would be alone, and properties hold of all of them.

`CHECK_DEADLOCK FALSE` in all runs but `account_lifecycle`, whose purge recurs:
every other system here really stops, when the requests are worked off, the
clock is at its bound, or all sends are done.

### What the properties except

A property is stated as strong as the code makes it, and names its exceptions:

- `FollowNeedsConsent`, `BlockCutsFollow`: follow and answer read the tables
  and save later without a lock, so an approval may save a request that was
  cancelled meanwhile, and a follow that read before a block outlives it.
- `ListsAgree`: the home timeline also holds a followed author's posts with
  visibility `private`, and the tabs of an account filter by author and state
  of the post only; every other list is exactly the rule with its own narrowing.
- `NoticesBounded`: one notice per process that raced past the first SELECT.
- `OneActiveKey`: actors two of whose key requests overlapped.
- `WithdrawnStays`: whole-row saves of a row loaded earlier bring it back.
- `HistoryTellsAll`: a process that dies between save and history.
- `EvidenceFirst`: the quick status change and an action without notes do not
  ask for evidence, and the latter may save over evidence it had not seen.
- `SlaAgrees`: a target set by hand in the admin, which the query ignores.
- `SpentOnce`: two confirmations that overlap both compare before one marks.
- `SuspensionHolds`: a verification or a reset that had read the account
  before it was suspended.
- `SparedUnlessUndone`: a password reset saves the whole row it has read
  (`apps/accounts/views.py:160`). If it had read the account while the deletion
  was scheduled and the owner cancels the deletion in between, the scheduled date
  is back without a new link, and the purge deletes a recovered account. Without
  a reset there is no such case: `RecoveredIsSpared` is a theorem of
  `AccountLifecycle` alone and false of `Accounts`.
- `TerminalRowsClose`: a row that an operator dismissed or replayed while
  autoretry was still at work, which says so in its reason, and, of a task whose
  autoretry has the greater limit (e-mails), rows at or above the limit they were
  compared with.
- `EventuallySettled` asks for the row of the last attempt, not for a terminal
  one: a preview that is given up never gets one.
- `NoReportFlood`: reports older than 24 hours stay open and are not counted, and
  neither are those that staff have resolved and opened again.
- `ProtectionsHold`: three ways around a guardian. The privacy API
  (`apps/profiles/api_views.py:7`) sets the visibility switches of a guarded
  profile and asks nobody, though `apps/profiles/views.py:184` says that these
  fields need approval. An edit that read the profile before it was guarded saves
  its form over the guarded row (`apps/profiles/views.py:247`), and the
  protection is gone, contrary to `apps/profiles/views.py:178`. And stale saves
  may put back locks that the guardian has changed meanwhile.
- `VerifiedByLink`: `verify_guardian_email_view` saving for an address that was
  changed after it had read the profile.
- `SuccessIsServed`: a database error in one of two overlapping requests.
- `ReplayLimit`: commands that overlap on a row, or one that died.
- `OnRecord`: a process that died, or an id that came with another object.
- `RecoverableInTime`: a process that died or a mail that was lost.

### Disagreements between code and documentation

The four violated runs show, each on a short trace:

1. `task_terminal_row`: rows say `max_retries_exceeded` at retry 3
   (`task.max_retries` keeps Celery's default) while autoretry goes to 5
   (`apps/accounts/tasks.py:42,155`). For link previews it is the other way
   round: autoretry stops at 2, so their failures never become terminal.
2. `federation_idempotence`: `raise self.retry` in the `try` block
   (`apps/federation/tasks.py:97`) is caught at line 116 and publishes twice,
   and the second message POSTs after the first has recorded its success.
3. `live_updates_recovery`: a socket event moves `pollCursor`
   (`detail.html:866`) past a message whose event the page did not get.
4. `engagement_limit`: the "temporary" velocity limit is never lifted, since
   counters are refreshed only after an allowed action
   (`apps/moderation/services.py:346`).

### Fairness and liveness

`TaskReliability` and `FederationDelivery` assume weak fairness of each
worker's task body (Celery runs what it took; the time limit ends what hangs)
and of taking a waiting message by some free worker; requests, crashes, errors
and operators' commands are never assumed. The liveness properties except
behaviours with faults where the code has no recovery: an acknowledged message
of a dead worker is lost. `RequestDelivery` is fair because the signal handler
continues after it created the row. `LiveUpdates` assumes weak fairness of
rendering, polling and event handling, which the page's timer and the browser's
event loop give; it does not assume that anybody sends. `AccountLifecycle`
assumes that time goes on, that handlers which did not die continue, and that
the purge runs again and again, as the beat schedule has it
(`config/settings/base.py:386-391`, `ACCOUNT_PURGE_ENABLED` is on by default);
that anybody leaves, visits a link or asks support is not assumed, and
`LeavingEnds` holds with faults: leaving is one statement, and the next purge
repeats what a dead one did not do. The other systems have no liveness
property: nobody has to go on.

## 4. What is proved

All proofs are checked by TLAPS, for every value of the constants. Each system
has a type theorem (`TypeCorrect`, `SendTypeCorrect`, `PageTypeCorrect`,
`TogglesTypeCorrect`, `SocialTypeCorrect`, `ModerationTypeCorrect`), whose invariant the others build
on. Type invariants are proved and therefore not in the runs.

*TaskReliability.* `AttemptsDoNotOverlap` (`OneIncarnation`), by an invariant
that adds "every message's id was issued" so that a fresh request cannot meet an
old one; `TasksImplementJob`, whose invariant says that a recorded success, or a
worker about to record one, implies a performed effect; a step then maps to
`Perform`, `Latch` or a stutter. These are theorems of the task layer with the
e-mail tasks; those that follow are of `DeadLetterSpec`, that is, with the post
tasks and the operators on top. There a step is one of the task layer or a *move*
(`PostMove`): a post task, whose body is another, or a command.
`TerminalRowsAreFinal` holds for any two limits of a task, in any order: what the
task layer makes terminal is the row of a last attempt or one at the limit, no
attempt goes beyond autoretry's own limit (`WithinLimit`), and a row that a
command has made terminal keeps that command's reason.
`ReplayedTasksImplementJob` carries the refinement over; it needs that an attachment or a preview that is there
was worked on. `TrailIsComplete` from `TrailInv`: the attempt that is about to be
published again has left its row already, or was cut short by a fault that no
other missing row stands for. `RecordedSuccessIsServed` from `ServedInv`: unless
it is excused, a task that is about to record its success, or has, left the work
done, and a request that was alone and has succeeded has no attempt left.
`ReplaysAreLimited` from `ReplayInv`: on an undisturbed row at most one operator
is at work, what this operator has read still stands, and the messages published
are those counted, plus one between publishing and saving.

*FederationDelivery.* `SuccessIsBacked`, strengthened with "an attempt that is
about to save or to mark has an accepted POST behind it"; and
`DeliveryImplementsJob`: duplicates that are still waiting when the success is
latched are skipped, so the doubling of retries cannot make a latched job POST.
The disagreement (2) is about the time before it is latched. `RetryTreeIsBounded`
from `TreeInv`: the messages published with number `r + 1`, two for each that
waits with number `r`, and what the workers that hold one may still publish are
at most twice the messages with number `r`. What workers owe is counted by two
sets, those that hold such a message and those of them that have not come to the
`except` clause. That `2^(r+1)` is twice `2^r` is proved by counting subsets,
since the provers do not know powers. `DeliveryIsUndisturbed` carries it all over
to both directions together (`DeliveryKeepsItsPromises`).

*FederationInbox.* `DeliveriesAreOnRecord`: `OnRecord` is inductive once one
knows that who fails holds an activity about nothing, that who saves a post has
an object, and that only the nameless row is about `Nowhere`. `ReplaysAreRecent`
from `RecentInv`: a saved post was signed at most a window ahead of the clock,
and what is being served at most a window ago, plus one tick for requests the
clock found in progress. Both are stated of `FederationSpec`, that is, of both
directions together.

*LiveUpdatesProofs.* Of sending: `MessagesAppearInOrder` rests on `LockIsHeld`
(an open transaction is the one that holds the lock) and `StoredInOrder` (what
is stored is younger than all that is committed); `RateIsLimited` adds
`RoomLeft`: while a transaction is open, its sender has fewer than `Limit`
committed messages in the window that ends at its `created_at` (now, before the
message is stored). Time moving on only shrinks that set, and nobody else can
commit while the lock is held. `SendingIsUndisturbed` shows that every step of
`LiveUpdates` is a step of `ConversationSend` or leaves its variables alone, from
which `PageSeesMessagesInOrder` and `RateIsLimitedWithPage` follow.

Of the page: `PageTypeCorrect`, `PageShowsWhatWasSent`, `AnswersReadWhatTheyHold`
and `GapsAreKnown` follow from `PageInv`, for every page size, any number of
messages and any losses. Its parts are: messages have different times and a
pending one is the youngest (`TimesInv`, the work of the lock); the three cursors
lie before every pending message that the page does not show (`Past`), so that a
commit alone never makes a gap; the answer is sorted and an unbroken stretch
behind the cursor it was asked for (`BatchInv`, `AnswerInv`), so that what the page
has handled and what is left of the answer leave no hole up to `next_cursor`; and
after an empty answer, a message that arrived between its two queries and is older
than one the page shows has been passed by the cursor already (`Settled`). That a
query returns such a stretch rests on `ByTimeFacts`: messages with different times
have an order, shown without induction, by counting for each the messages that are
not younger (`SortExists`).

The attempt to prove `ReadWasGiven` refuted an earlier form of it, as an invariant
over what is read, known, in the answer or skipped: an event older than the cursor
moves the cursor back, and what was skipped before is neither of these any more.
It takes one tick of the clock more than the run then had. What the code does
promise is about a step, and that is what the property says now.

*AbuseControl.* `StaleSignalsAreLenient`: the score falls and the length of the
throttle grows with reports and actions (`ScoreMonotone`, `HoursMonotone`), which
needs that the settings throttle longer for more serious reasons
(`WindowsAssumption`, true of the defaults). `ReactionsExclude` and
`DenialsLeaveNothing` follow from one invariant, `ToggleInv`: a row is always of
the request that it is named by and that request has not been denied
(`RowsAreOwned`), and of two opposite rows one belongs to a request that has
still to remove the other (`OneUnsettled`). `OneReaction` is not inductive as it
stands since it does not say whose rows these are. `ReportsDoNotFlood` counts the
reports of the last 24 hours that nobody has resolved together with the requests
about to file one (`FloodInv`): a request that finds no open report is in flight
with all that will file.

*Social.* `FollowsNeedConsent` and `BlocksCutFollows` rest on `AllSound`, what
each request knows to have been true when it read the tables;
`BlockCutsFollow` is then inductive. `ListsFollowTheRule` holds by type
correctness alone: it compares a dozen queries with the rule in every graph, for
any posts, and has a lemma per family of lists. `ConversationsAreUnique` uses
`Informed`: who is about to create a conversation knows that there is none
without a key, and the canonical key is unique. `NoticesAreBounded` counts
notices together with the requests about to insert one (`Outstanding`).
`KeysAreUnique` from `KeyInv`: a request about keys that is alone knows the
active keys (those its transaction has seen, none when it issues one), and who
is not alone is among the raced.

*AccountLifecycle.* `PurgeSparesTheRecovered` from `PurgeInv` (an active account
has no date of deletion; a deactivation date it may keep, since cancelling a
deletion leaves it there, which is why the second query of the purge must ask
for inactive accounts); `OwnerCanRecover` from `RecoveryInv`: the date the purge
goes by has a *way back*, which is a request that is about to send a link
lasting at least to that date, such a link unused, or a visit that has used one
and will restore the account. The stated property is not inductive because a
second leaving or a consumed link changes which of the three it is. `LinkInv`
(what is still to be sent nobody has used) supports it. A recovery between the
purge's queries and its deletion is lost; the theorem says that this is the only
way, and the deadline is over by then.

With logins, resets and staff, in `AccountsSpec`, the second holds as it is
(`VisitorCanRecover`): to the lifecycle a password reset is a stutter, or it writes
an older row back, which counts as a fault (`SaveFrame`), and what it may write
back is a row that satisfied the invariant when it was read (`ReadInv`). The first
does not hold; `PurgeSparesTheRecoveredVisitor` proves `SparedUnlessUndone`, from
`KeptInv` (a recovered account is active unless its recovery was undone) and the
part of `PurgeInv` that a stale save keeps (`PurgeDates`). `CodesAreSpentOnce` and `ClearedCodesAreGone` from `CodesInv`:
a code is there only after its set was written, which happens once; a code that
let a visit in is never fresh again, and no later visit holds it; of the sets that
were complete when a visit began, nothing is left after its deletion.
`SuspensionsHold` is by cases over what may write the state of the account.

*GuardianControls.* The type invariant says that a request sends one
verification link, as the last thing it does. `VerificationIsEarned` from
`LinkInv`: not only the row but everything requests have read, and may still
save whole, is verified by a used link. Address and verification are always
saved together, except by `verify_guardian_email_view`, which is the one
exception in the property. `LocksHold` proves `ProtectionsHold` from `ChangeInv` (a
change request in the hands of a visit was sent to the guardian that the visit
read); an edit that saves what it has read restores every locked field whatever
the form says. That the guardian is asked before a protection goes is not among
the theorems, since it is not so: see the exceptions of this property.

*Moderation.* `DeadlinesAgree` holds for all minutes, while the run has five.
`EvidenceComesFirst` from `EvidenceInv`: an update of a severe report brings
evidence with it, and a status change has seen evidence that nobody but an
action can have overwritten. `WithdrawnRowsStay` from `WithdrawnInv`, which says
that who does not look at its row again has been told that it is gone
(`LateIsLate`) and that rows not there are not withdrawn (`Unpublished`).
`HistoriesTellAll` from `HistoryInv`: the text an edit has loaded, and the one
it will call the previous text, are known to the history (`Told`); the
history's texts alone do not say that an overlapping edit will not bring an
unknown one.

Assumptions are those of the modules, named `...Assumption` and evaluated by TLC
in the runs.

Every safety property of the passing runs is a theorem. Only model-checked are the
liveness properties (`EventuallySettled`, `EventuallyWorkedOff`, `CatchesUp`,
`LeavingEnds`), which are outside the prover's reach, as is `ENABLED`; and the four
properties that the code violates, for which TLC's trace is the evidence.

## 5. Abstractions and what is not modelled

Texts, ciphertext, signatures, URLs and counters that no guard reads are left
out. Countdown and backoff are "some time later". Permission and form checks
that refuse before anything changes are left out where they only remove
behaviour. External behaviour (early acknowledgement, visibility timeout,
`Task.retry`, row locks, unique constraints, the channel layer, Django's reset
form) is modelled from how the code uses it and marked external. One execution
row, one delivery, one remote instance, one conversation with one viewing page,
one account, one profile and one actor's toggles are modelled at a time:
instances share no state but the broker, whose order is not assumed, and for
`Engagement` posts share the actor's counters. Each module's header lists what
it abstracts.

Not modelled:

- rendering, serializers, read-only lists, ranking and paging of timelines,
  search ranking, hashtags, mentions and upload validation: no state that
  anything later depends on;
- middleware, health pages, observability, settings (they enter as constants),
  deployment scripts;
- unread counters and resubmission of a message id; acknowledgement, cooldown
  messages and audit log of identity keys;
- fan-out of notifications other than those of follows, push and badges;
- bookmark, hide and mute toggles, each a `get_or_create` or a delete that
  nothing else depends on;
- `reprocess_failed_media`, which requests an attachment again under another
  idempotency suffix, that is, as a task of its own execution row;
- setting up a new e-mail address, what the guardian's age settings allow
  elsewhere, and staff who edit a profile in the admin;
- moderation notes and actions as rows (nothing reads them back), the admin but
  for the fields named above.

## 6. Plan

What is left, in order of weight:

1. `DirectChat`: unread counters and read markers of two tabs, resubmitted
   message ids, acknowledgement of a key by its fingerprint while it is rotated.
2. Notifications of replies, mentions and messages with the fan-out tasks on
   top of `TaskReliability`; `reprocess_failed_media` as a second execution row
   on one attachment.
3. The guardian's age settings as operators, composed with `DirectChat` (who may
   open a conversation with a minor) and `Visibility`.
4. An abstract conversation (a log that grows at its end, with readers behind
   it) that `LiveUpdates` implements, in place of the separate properties of the
   page; abstract specifications of the social graph and of the codes likewise.
5. Timelines with paging: that a page boundary loses or repeats a post only when
   it is created in between.
