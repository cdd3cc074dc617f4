----------------------------- MODULE DirectChat -----------------------------
(***************************************************************************)
(* Opening a direct conversation, and the identity keys of its             *)
(* participants (apps/private_messages/views.py, services.py).             *)
(*                                                                         *)
(* start_direct_conversation_view looks at the blocks of SocialGraph       *)
(* before it opens a transaction; the statements of the transaction see    *)
(* what others have committed so far.  Bootstrapping a key runs in         *)
(* autocommit, registering one in a transaction whose new key nobody sees  *)
(* before the commit.                                                      *)
(*                                                                         *)
(* Abstracted: the feature flag, parental restrictions, the formats of     *)
(* keys and the limits on keys and conversations only refuse, which is     *)
(* the step Refuse; the cooldown of rotations is modelled.  keys is the    *)
(* table in the order of created_at; a key is named by its place.          *)
(***************************************************************************)
EXTENDS SocialGraph, Sequences

CONSTANTS
    InitialLegacy \* how many conversations of two actors may be older than
                  \* direct_participant_key

ASSUME ChatAssumption == InitialLegacy \subseteq Nat

VARIABLES
    keys,     \* UserIdentityKey
    chat,     \* what the process in a slot is doing
    keyed,    \* pairs of actors with a conversation that has their key
    legacy,   \* legacy[P]: the conversations of pair P without one
    raced     \* history: actors with two key requests at the same time,
              \* and no undisturbed rotation since

chatVars == <<keys, chat, keyed, legacy, raced>>

Couples == {{p[1], p[2]} : p \in Pairs}

(* cooling: rotated_at lies within the cooldown.                           *)
Key == [owner : Actors, active : BOOLEAN, cooling : BOOLEAN]

(* A conversation is being opened: row is the thread without a key it has  *)
(* found, clear says that no block stood when it began.                    *)
Opening == [pc : {"lookup", "legacy", "adopt", "create"},
            couple : Couples, row : Nat, clear : BOOLEAN]

KeyLabels == {"retire", "issue", "deactivate", "commit"}

(* A key is being made active: key is 0 for a new one, seen are the keys   *)
(* that it replaces, alone says that no other key request of the actor was *)
(* under way at any time.                                                  *)
Keying == [pc : KeyLabels, actor : Actors, key : Nat, seen : SUBSET Nat, alone : BOOLEAN]

ChatTypeOK ==
    /\ keys \in Seq(Key)
    /\ chat \in [Slots -> Opening \union Keying \union {Idle}]
    /\ keyed \subseteq Couples
    /\ legacy \in [Couples -> Nat]
    /\ raced \subseteq Actors
    /\ \A c \in Slots : chat[c] \in Keying =>
          chat[c].key \in 0..Len(keys) /\ chat[c].seen \subseteq 1..Len(keys)

ChatInit ==
    /\ keys = <<>>
    /\ chat = [c \in Slots |-> Idle]
    /\ keyed = {}
    /\ legacy \in [Couples -> InitialLegacy]
    /\ raced = {}

-----------------------------------------------------------------------------

Is(c, label) == chat[c].pc = label

Step(c, label) == chat' = [chat EXCEPT ![c].pc = label]

Finish(c) == chat' = [chat EXCEPT ![c] = Idle]

(* start_direct_conversation_view                                          *)
StartChat(c, p) ==
    /\ Is(c, "idle")
    /\ p[2] \in active
    /\ ~Blocked(p)
    /\ Count
    /\ chat' = [chat EXCEPT ![c] = [pc |-> "lookup", couple |-> {p[1], p[2]},
                                    row |-> 0, clear |-> ~Blocked(p)]]
    /\ UNCHANGED <<keys, keyed, legacy, raced>>

(* get_or_create_direct_conversation: the canonical key,                   *)
Lookup(c) ==
    /\ Is(c, "lookup")
    /\ IF chat[c].couple \in keyed THEN Finish(c) ELSE Step(c, "legacy")
    /\ UNCHANGED <<keys, keyed, legacy, raced, bounds>>

(* Mutated LookupLegacy: threads from before the key are not looked for.   *)
LookupNothing(c) ==
    /\ Is(c, "legacy")
    /\ Step(c, "create")
    /\ UNCHANGED <<keys, keyed, legacy, raced, bounds>>

(* then the oldest thread without a key,                                   *)
LookupLegacy(c) ==
    /\ Is(c, "legacy")
    /\ chat' = [chat EXCEPT
          ![c].pc = IF legacy[chat[c].couple] > 0 THEN "adopt" ELSE "create",
          ![c].row = legacy[chat[c].couple]]
    /\ UNCHANGED <<keys, keyed, legacy, raced, bounds>>

(* which gets the key: no change if it has it by now, and an               *)
(* IntegrityError if another thread of the two has.                        *)
Adopt(c) ==
    LET P == chat[c].couple
    IN  /\ Is(c, "adopt")
        /\ IF P \in keyed
           THEN UNCHANGED <<keyed, legacy>>
           ELSE /\ keyed' = keyed \union {P}
                /\ legacy' = [legacy EXCEPT ![P] = chat[c].row - 1]
        /\ Finish(c)
        /\ UNCHANGED <<keys, raced, bounds>>

(* Or a new conversation; the unique constraint turns a second one into    *)
(* the first.                                                              *)
Create(c) ==
    /\ Is(c, "create")
    /\ keyed' = keyed \union {chat[c].couple}
    /\ Finish(c)
    /\ UNCHANGED <<keys, legacy, raced, bounds>>

-----------------------------------------------------------------------------

ActiveKeys(a) == {i \in DOMAIN keys : keys[i].owner = a /\ keys[i].active}

Others(c, a) ==
    {d \in Slots \ {c} : chat[d].pc \in KeyLabels /\ chat[d].actor = a}

(* A request about the keys of a begins; key k may be one of a's.          *)
BeginKey(c, a, k, label) ==
    /\ Is(c, "idle")
    /\ Count
    /\ chat' = [d \in Slots |->
          IF d = c THEN [pc |-> label, actor |-> a, key |-> k, seen |-> {},
                         alone |-> Others(c, a) = {}]
          ELSE IF d \in Others(c, a) THEN [chat[d] EXCEPT !.alone = FALSE] ELSE chat[d]]
    /\ raced' = IF Others(c, a) = {} THEN raced ELSE raced \union {a}
    /\ UNCHANGED <<keys, keyed, legacy>>

(* ensure_active_identity_key reads the active key; without one, or to     *)
(* rotate, it goes on.                                                     *)
Bootstrap(c, a) ==
    \/ ActiveKeys(a) = {} /\ BeginKey(c, a, 0, "issue")
    \/ BeginKey(c, a, 0, "retire")

Retired(set) ==
    [i \in DOMAIN keys |->
        IF i \in set THEN [keys[i] EXCEPT !.active = FALSE, !.cooling = TRUE] ELSE keys[i]]

(* rotate: update(is_active=False, rotated_at=now)                         *)
Retire(c) ==
    /\ Is(c, "retire")
    /\ keys' = Retired(ActiveKeys(chat[c].actor))
    /\ Step(c, "issue")
    /\ UNCHANGED <<keyed, legacy, raced, bounds>>

Fresh(a) == [owner |-> a, active |-> TRUE, cooling |-> FALSE]

(* The history: a rotation nobody has disturbed.                           *)
Settled(c) == raced' = IF chat[c].alone THEN raced \ {chat[c].actor} ELSE raced

(* UserIdentityKey.objects.create                                          *)
Issue(c) ==
    /\ Is(c, "issue")
    /\ keys' = Append(keys, Fresh(chat[c].actor))
    /\ Settled(c)
    /\ Finish(c)
    /\ UNCHANGED <<keyed, legacy, bounds>>

(* register_browser_identity_key: check_rotation_cooldown,                 *)
Register(c, a) ==
    /\ \A i \in DOMAIN keys : keys[i].owner = a => ~keys[i].cooling
    /\ \E k \in {0} \union {i \in DOMAIN keys : keys[i].owner = a} :
          BeginKey(c, a, k, "deactivate")

(* Mutated Deactivate: a key that exists is activated beside the others.   *)
DeactivateForNewOnly(c) ==
    LET k == chat[c].key
    IN  /\ Is(c, "deactivate")
        /\ k # 0 => \A d \in Slots : Is(d, "commit") => chat[d].key # k
        /\ IF k # 0 /\ keys[k].active
           THEN Finish(c)
           ELSE chat' = [chat EXCEPT ![c].pc = "commit",
                            ![c].seen = IF k = 0 THEN ActiveKeys(chat[c].actor) ELSE {}]
        /\ UNCHANGED <<keys, keyed, legacy, raced, bounds>>

(* the transaction: select_for_update of key k, which waits for another    *)
(* that has it; a key that is active is fine as it is; otherwise the       *)
(* UPDATE of the keys that are active, as far as they are visible,         *)
Deactivate(c) ==
    LET k == chat[c].key
    IN  /\ Is(c, "deactivate")
        /\ k # 0 => \A d \in Slots : Is(d, "commit") => chat[d].key # k
        /\ IF k # 0 /\ keys[k].active
           THEN Finish(c)
           ELSE chat' = [chat EXCEPT ![c].pc = "commit",
                                     ![c].seen = ActiveKeys(chat[c].actor)]
        /\ UNCHANGED <<keys, keyed, legacy, raced, bounds>>

(* and the commit, with the key created or active again.                   *)
CommitKey(c) ==
    LET k == chat[c].key
        a == chat[c].actor
    IN  /\ Is(c, "commit")
        /\ keys' = IF k = 0 THEN Append(Retired(chat[c].seen), Fresh(a))
                   ELSE [Retired(chat[c].seen) EXCEPT ![k] = Fresh(a)]
        /\ Settled(c)
        /\ Finish(c)
        /\ UNCHANGED <<keyed, legacy, bounds>>

-----------------------------------------------------------------------------

(* A limit, a format or a parental restriction refuses, or the process     *)
(* dies: a transaction leaves nothing, a rotation may leave no active key. *)
Refuse(c) ==
    /\ ~Is(c, "idle")
    /\ Finish(c)
    /\ UNCHANGED <<keys, keyed, legacy, raced, bounds>>

(* The rotation cooldown is over.                                          *)
Cooled == keys' = [i \in DOMAIN keys |-> [keys[i] EXCEPT !.cooling = FALSE]]

OpenChat(c) ==
    \/ \E p \in Pairs : StartChat(c, p)
    \/ Lookup(c) \/ LookupLegacy(c) \/ Adopt(c) \/ Create(c)

ManageKeys(c) ==
    \/ \E a \in Actors : Bootstrap(c, a) \/ Register(c, a)
    \/ Retire(c) \/ Issue(c) \/ Deactivate(c) \/ CommitKey(c)

ChatNext == \E c \in Slots : OpenChat(c) \/ ManageKeys(c) \/ Refuse(c)

-----------------------------------------------------------------------------

(***************************************************************************)
(* "Register a browser-generated public identity key and rotate previous   *)
(* active keys" (services.py:582): an actor has two active keys only after *)
(* two of its key requests overlapped, in autocommit or with a new key     *)
(* that was not committed yet, and no longer than until a rotation runs    *)
(* undisturbed.                                                            *)
(***************************************************************************)
OneActiveKey ==
    \A a \in Actors \ raced : Cardinality(ActiveKeys(a)) <= 1

Threads(P) == legacy[P] + (IF P \in keyed THEN 1 ELSE 0)

(***************************************************************************)
(* get_or_create_direct_conversation: whatever overlaps, two actors who    *)
(* have a conversation, with or without the canonical key, never get a     *)
(* second one, and actors between whom a block stands get their first only *)
(* by a request that began before the block (views.py:261).                *)
(***************************************************************************)
OneConversation ==
    [][\A P \in Couples :
         Threads(P)' > Threads(P) =>
            /\ Threads(P) = 0
            /\ \E c \in Slots :
                  Is(c, "create") /\ chat[c].couple = P /\ chat[c].clear
                  /\ chat'[c] # chat[c]]_<<vars, chatVars>>
=============================================================================
