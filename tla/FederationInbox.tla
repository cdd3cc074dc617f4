--------------------------- MODULE FederationInbox ---------------------------
(***************************************************************************)
(* What one remote instance sends: signed activities POSTed to the inbox   *)
(* (apps/federation/views.py, signing.py) and ingested, and documents      *)
(* fetched from it on request (services.py).  The network may hold a       *)
(* request back and deliver it any number of times.  One database          *)
(* statement per action; time is coarse, and a process serves a request    *)
(* over at most one tick of the clock.                                     *)
(*                                                                         *)
(* Abstracted: keys and digests (who can sign is the instance), the text   *)
(* of posts (its place is taken by the time it was signed), attachments,   *)
(* handles, and the dates nobody reads.                                    *)
(* FEATURE_FEDERATION_INBOUND_ENABLED is on.                               *)
(***************************************************************************)
EXTENDS Integers, FiniteSets

CONSTANTS
    Ids,         \* identifiers of activities
    Uris,        \* identifiers of objects
    Null,        \* a field that is missing
    Processes,   \* web processes
    Configured,  \* metadata["signature_max_age_seconds"] of the instance
    Default,     \* FEDERATION_SIGNATURE_MAX_AGE_SECONDS
    MaxInbound,  \* bound on requests and fetches
    MaxClock,    \* bound on the clock
    Times,       \* the times at which something is signed
    MaxDeaths    \* bound on processes that die

ASSUME InboxAssumption ==
    /\ Configured \in Int /\ Default \in Nat \ {0}
    /\ MaxInbound \in Nat /\ MaxClock \in Nat /\ MaxDeaths \in Nat
    /\ Times \subseteq Nat
    /\ Ids \intersect Uris = {} /\ Null \notin Ids \union Uris

(* note: a Create with an object and its author; by its signature an       *)
(* activity has a time.  The field object may be the object or its name.   *)
Activity == [id : Ids \union {Null}, object : Uris \union {Null}, note : BOOLEAN,
             signed : Times]

VARIABLES
    clock,
    allowed,  \* allowlist_state is ALLOWED and the instance is not blocked
    actors,   \* RemoteActor rows: whether the author of the posts is known
    posts,    \* posts[u]: the RemotePost row, or Null
    objects,  \* objects[e]: the FederationObject row by external_id, or Null
    inbound,  \* inbound[p]: the request a process serves, and where it is
    arrived,  \* requests and fetches so far
    overdue,  \* processes that served a request when the clock last ticked
    deaths,
    moved     \* history: objects that a row was about before another one

inboxVars == <<clock, allowed, actors, posts, objects, inbound, arrived, overdue,
               deaths, moved>>

(* urn:freeparty:failed:...: the name of an activity without any.          *)
Nowhere == "urn"
Externals == Ids \union Uris \union {Nowhere}

ASSUME NameAssumption ==
    /\ Nowhere \notin Ids \union Uris
    /\ Null \notin [canonical : Externals, state : {"processed", "failed"}]

Waiting == [at |-> "idle"]

InboxInit ==
    /\ clock = 0
    /\ allowed = TRUE
    /\ actors = FALSE
    /\ posts = [u \in Uris |-> Null]
    /\ objects = [e \in Externals |-> Null]
    /\ inbound = [p \in Processes |-> Waiting]
    /\ arrived = 0
    /\ overdue = {}
    /\ deaths = 0
    /\ moved = {}

-----------------------------------------------------------------------------

(* An unusable setting falls back to the default.                          *)
Window == IF Configured < 1 THEN Default ELSE Configured

(* Mutated Fresh: only signatures from the future are refused.             *)
FreshForEver(signed) == signed - clock <= Window

(* verify_signed_payload: the clock of the sender may be off either way.   *)
Fresh(signed) == clock - signed <= Window /\ signed - clock <= Window

NameOf(a) == IF a.id = Null THEN a.object ELSE a.id

(* Mutated ObjectOf: an activity that has a name is the object.            *)
ObjectOfNamed(a) == IF a.id = Null THEN a.object ELSE a.id

ObjectOf(a) == IF a.object = Null THEN a.id ELSE a.object

(* ingest_inbound_activity raises for an activity about nothing.           *)
AboutNothing(a) == a.id = Null /\ a.object = Null

Step(p, what) == inbound' = [inbound EXCEPT ![p] = what]

Done(p) == Step(p, Waiting)

At(p, label) == inbound[p].at = label

(* inbox: the instance is allowed and the signature is valid and fresh.    *)
Arrive(p) ==
    /\ At(p, "idle") /\ arrived < MaxInbound
    /\ allowed
    /\ \E a \in Activity :
          /\ Fresh(a.signed)
          /\ Step(p, [at |-> IF AboutNothing(a) THEN "fail"
                             ELSE IF a.note /\ a.object # Null THEN "actor" ELSE "object",
                      a |-> a])
    /\ arrived' = arrived + 1
    /\ overdue' = overdue \ {p}
    /\ UNCHANGED <<clock, allowed, actors, posts, objects, deaths, moved>>

(* update_or_create of the author,                                         *)
SaveActor(p) ==
    /\ At(p, "actor")
    /\ actors' = TRUE
    /\ Step(p, [inbound[p] EXCEPT !.at = "post"])
    /\ UNCHANGED <<clock, allowed, posts, objects, arrived, overdue, deaths, moved>>

(* of the post, whatever is known of it already,                           *)
SavePost(p) ==
    /\ At(p, "post")
    /\ posts' = [posts EXCEPT ![inbound[p].a.object] =
                     [signed |-> inbound[p].a.signed, delivered |-> TRUE]]
    /\ Step(p, [inbound[p] EXCEPT !.at = "object"])
    /\ UNCHANGED <<clock, allowed, actors, objects, arrived, overdue, deaths, moved>>

(* canonical_uri is unique as well.                                        *)
Taken(name, uri) ==
    \E e \in Externals \ {name} : objects[e] # Null /\ objects[e].canonical = uri

(* update_or_create of a row by the name of the activity.                  *)
Enter(name, uri, outcome) ==
    objects' = [objects EXCEPT ![name] = [canonical |-> uri, state |-> outcome]]

Forgotten(name, uri) ==
    IF objects[name] # Null /\ objects[name].canonical # uri
    THEN {objects[name].canonical} ELSE {}

(* and of the FederationObject; IntegrityError if another row has the URI. *)
SaveObject(p) ==
    /\ At(p, "object")
    /\ LET name == NameOf(inbound[p].a)
           uri == ObjectOf(inbound[p].a)
       IN  IF Taken(name, uri) THEN UNCHANGED <<objects, moved>>
           ELSE /\ Enter(name, uri, "processed")
                /\ moved' = (moved \union Forgotten(name, uri)) \ {uri}
    /\ Done(p)
    /\ UNCHANGED <<clock, allowed, actors, posts, arrived, overdue, deaths>>

(* The ValueError is answered with a failed row, under a made-up name if   *)
(* the activity has none.                                                  *)
Fallback(a) == IF a.id = Null THEN Nowhere ELSE a.id

SaveFailed(p) ==
    /\ At(p, "fail")
    /\ LET name == Fallback(inbound[p].a)
       IN  IF Taken(name, name) THEN UNCHANGED objects
           ELSE Enter(name, name, "failed")
    /\ Done(p)
    /\ UNCHANGED <<clock, allowed, actors, posts, arrived, overdue, deaths, moved>>

-----------------------------------------------------------------------------

(* fetch_remote_object: the allowlist is read before the document.         *)
Fetch(p) ==
    /\ At(p, "idle") /\ arrived < MaxInbound
    /\ allowed
    /\ \E u \in Uris : Step(p, [at |-> "get", u |-> u])
    /\ arrived' = arrived + 1
    /\ overdue' = overdue \ {p}
    /\ UNCHANGED <<clock, allowed, actors, posts, objects, deaths, moved>>

(* The document arrives, signed and fresh, or the request fails.           *)
Document(p) ==
    /\ At(p, "get")
    /\ \/ \E t \in Times :
             Fresh(t) /\ Step(p, [at |-> "author", u |-> inbound[p].u, signed |-> t])
       \/ Done(p)
    /\ UNCHANGED <<clock, allowed, actors, posts, objects, arrived, overdue, deaths, moved>>

(* fetch_remote_actor of the author asks the allowlist once more.          *)
FetchAuthor(p) ==
    /\ At(p, "author")
    /\ \/ allowed /\ actors' = TRUE /\ Step(p, [inbound[p] EXCEPT !.at = "store"])
       \/ UNCHANGED actors /\ Done(p)
    /\ UNCHANGED <<clock, allowed, posts, objects, arrived, overdue, deaths, moved>>

StorePost(p) ==
    /\ At(p, "store")
    /\ posts' = [posts EXCEPT ![inbound[p].u] =
                     [signed |-> inbound[p].signed, delivered |-> FALSE]]
    /\ Done(p)
    /\ UNCHANGED <<clock, allowed, actors, objects, arrived, overdue, deaths, moved>>
-----------------------------------------------------------------------------

(* Staff allows the instance or does not.                                  *)
SetAllowed ==
    /\ allowed' = ~allowed
    /\ UNCHANGED <<clock, actors, posts, objects, inbound, arrived, overdue, deaths, moved>>

Perish(p) ==
    /\ ~At(p, "idle") /\ deaths < MaxDeaths
    /\ deaths' = deaths + 1
    /\ Done(p)
    /\ UNCHANGED <<clock, allowed, actors, posts, objects, arrived, overdue, moved>>

Serving == {p \in Processes : ~At(p, "idle")}

Pass ==
    /\ clock < MaxClock
    /\ overdue \intersect Serving = {}
    /\ clock' = clock + 1
    /\ overdue' = Serving
    /\ UNCHANGED <<allowed, actors, posts, objects, inbound, arrived, deaths, moved>>

InboxNext ==
    \/ \E p \in Processes :
          \/ Arrive(p) \/ SaveActor(p) \/ SavePost(p) \/ SaveObject(p) \/ SaveFailed(p)
          \/ Fetch(p) \/ Document(p) \/ FetchAuthor(p) \/ StorePost(p)
          \/ Perish(p)
    \/ SetAllowed \/ Pass

-----------------------------------------------------------------------------

(***************************************************************************)
(* "Accepted" means on record: every post that was delivered is the object *)
(* of a FederationObject, also when the insertion of another row about it  *)
(* failed on its unique URI.  The exceptions: the request is still being   *)
(* served, a process died in between, or the same activity came again with *)
(* another object.                                                         *)
(***************************************************************************)
OnRecord ==
    deaths = 0 => \A u \in Uris : posts[u] # Null /\ posts[u].delivered =>
        \/ \E e \in Externals : objects[e] # Null /\ objects[e].canonical = u
        \/ \E p \in Processes : At(p, "object") /\ ObjectOf(inbound[p].a) = u
        \/ u \in moved

(***************************************************************************)
(* A copy that was held back may overwrite a newer version of a post, but  *)
(* only one that was signed at most two windows later (and the time a      *)
(* request is served): the window limits what a replay can undo.           *)
(***************************************************************************)
ReplayIsRecent ==
    [][\A u \in Uris : posts[u] # Null =>
          posts[u].signed - posts'[u].signed <= 2 * Window + 1]_inboxVars
=============================================================================
