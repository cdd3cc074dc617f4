----------------------------- MODULE Visibility -----------------------------
(***************************************************************************)
(* Who sees which post and which account.  The rule is written down in     *)
(* can_view_post and can_view_actor (apps/core/permissions.py); the lists, *)
(* the search, the API and the pages filter with queries of their own.     *)
(* Each of these is an operator here, over the state of SocialGraph.       *)
(*                                                                         *)
(* v is the viewer, an actor or Anonymous, a an author or the owner of an  *)
(* account, x a post of a.  Every actor has a profile (signals create it). *)
(* Filters that do not depend on the viewer (the text searched for, media  *)
(* and link tabs, pages) only shorten a list and are left out.             *)
(***************************************************************************)
EXTENDS SocialGraph

CONSTANTS
    Anonymous,  \* a visitor who is not logged in
    Posts       \* what posts may look like

(* bookmarked and hidden: by the viewer.                                   *)
Post == [visibility : {"public", "unlisted", "followers_only", "private"},
         moderation : {"normal", "limited", "hidden", "taken_down"},
         deleted : BOOLEAN, bookmarked : BOOLEAN, hidden : BOOLEAN]

ASSUME VisibilityAssumption ==
    /\ Anonymous \notin Actors
    /\ Posts \subseteq Post

-----------------------------------------------------------------------------
(* The rule.                                                               *)

(* _is_accepted_follower                                                   *)
Accepted(v, a) == <<v, a>> \in Pairs /\ follow[<<v, a>>] = "accepted"

CanViewActor(v, a) ==
    /\ a \in active
    /\ \/ v = a
       \/ v = Anonymous /\ a \notin private
       \/ v # Anonymous /\ ~Blocked(<<v, a>>) /\ (a \notin private \/ Accepted(v, a))

Withdrawn(x) == x.deleted \/ x.moderation \in {"hidden", "taken_down"}

CanViewPost(v, a, x) ==
    /\ ~Withdrawn(x)
    /\ \/ v = a
       \/ /\ v # Anonymous => ~Blocked(<<v, a>>)
          /\ a \in private => Accepted(v, a)
          /\ x.visibility = "followers_only" => Accepted(v, a)
          /\ x.visibility # "private"

-----------------------------------------------------------------------------
(* The queries.                                                            *)

Listed(x) == ~x.deleted /\ x.moderation = "normal"

(* author__profile__is_private_account=False, or the author is followed,   *)
(* or the viewer.                                                          *)
OpenTo(v, a) == a \notin private \/ Accepted(v, a) \/ v = a

(* The two exclude() for blocks of the viewer and of the viewer.           *)
NoBlock(v, a) == <<v, a>> \notin blocks /\ <<a, v>> \notin blocks

(* visible_posts_for_actor                                                 *)
VisiblePosts(v, a, x) ==
    /\ Listed(x)
    /\ \/ v = Anonymous /\ x.visibility \in {"public", "unlisted"} /\ a \notin private
       \/ /\ v # Anonymous
          /\ \/ v = a
             \/ x.visibility \in {"public", "unlisted"}
             \/ x.visibility = "followers_only" /\ Accepted(v, a)
          /\ OpenTo(v, a)
          /\ NoBlock(v, a)
          /\ ~x.hidden

(* Mutated VisiblePublicPosts: blocks of the author are forgotten.         *)
VisiblePublicOneSided(v, a, x) ==
    /\ Listed(x)
    /\ x.visibility = "public"
    /\ \/ v = Anonymous /\ a \notin private
       \/ v # Anonymous /\ OpenTo(v, a) /\ <<v, a>> \notin blocks /\ ~x.hidden

(* visible_public_posts_for_actor, the public timelines.                   *)
VisiblePublicPosts(v, a, x) ==
    /\ Listed(x)
    /\ x.visibility = "public"
    /\ \/ v = Anonymous /\ a \notin private
       \/ v # Anonymous /\ OpenTo(v, a) /\ NoBlock(v, a) /\ ~x.hidden

(* visible_home_posts_for_actor                                            *)
VisibleHomePosts(v, a, x) ==
    Accepted(v, a) /\ ~Withdrawn(x) /\ NoBlock(v, a) /\ ~x.hidden

(* home_view: whoever is not logged in gets the public timeline.           *)
HomePage(v, a, x) ==
    IF v = Anonymous THEN VisiblePublicPosts(v, a, x) ELSE VisibleHomePosts(v, a, x)

(* public_posts_view, by public_timeline and federated_public_timeline;    *)
(* remote posts have no author here.                                       *)
PublicPage(v, a, x) == VisiblePublicPosts(v, a, x)

(* post_detail_view                                                        *)
PostPage(v, a, x) == CanViewPost(v, a, x)

(* The posts and the people of search_view.                                *)
SearchedPosts(v, a, x) ==
    /\ Listed(x)
    /\ x.visibility = "public"
    /\ OpenTo(v, a)
    /\ v # Anonymous => NoBlock(v, a)

SearchedActors(v, a) ==
    a \in active /\ OpenTo(v, a) /\ (v # Anonymous => NoBlock(v, a))

(* ActorViewSet.get_queryset                                               *)
ApiActors(v, a) ==
    /\ a \in active
    /\ \/ v = Anonymous /\ a \notin private
       \/ v # Anonymous /\ OpenTo(v, a) /\ NoBlock(v, a)

(* PostViewSet.get_queryset                                                *)
ApiPosts(v, a, x) ==
    \/ v = a /\ ~x.deleted
    \/ VisiblePublicPosts(v, a, x)

(* The filters in the loops of bookmarks_view and hidden_posts_view.       *)
Shown(v, a, x) ==
    /\ ~Withdrawn(x)
    /\ NoBlock(v, a)
    /\ v # a =>
          /\ a \in private => Accepted(v, a)
          /\ x.visibility = "followers_only" => Accepted(v, a)
          /\ x.visibility # "private"

BookmarksPage(v, a, x) == x.bookmarked /\ ~x.hidden /\ Shown(v, a, x)

HiddenPage(v, a, x) == x.hidden /\ Shown(v, a, x)

(* actor_detail_view: the blocked page comes before can_view_actor; the    *)
(* tabs filter by author and state only.                                   *)
ActorPage(v, a) ==
    /\ a \in active
    /\ v \notin {a, Anonymous} => NoBlock(v, a)
    /\ CanViewActor(v, a)

ActorTab(v, a, x) == ActorPage(v, a) /\ Listed(x)

-----------------------------------------------------------------------------

(***************************************************************************)
(* "Centralized object permission policy layer" and "Block-aware           *)
(* visibility enforcement in timeline and search queries" (README.md:64,   *)
(* 65): the queries written out in selectors, search, API, bookmarks and   *)
(* hidden posts give exactly what the rule allows, each with its own       *)
(* narrowing; the pages of an account open exactly to whom can_view_actor  *)
(* admits.  Two lists are wider and are stated as they are: the home       *)
(* timeline holds a followed author's posts whatever their visibility, and *)
(* the tabs of an account whatever theirs.                                 *)
(***************************************************************************)
ListsAgree ==
    \A a \in Actors, v \in Actors \union {Anonymous} :
        LET viewer == v # Anonymous
        IN  /\ SearchedActors(v, a) <=> CanViewActor(v, a)
            /\ ApiActors(v, a) <=> CanViewActor(v, a)
            /\ ActorPage(v, a) <=> CanViewActor(v, a)
            /\ \A x \in Posts :
                  LET may == PostPage(v, a, x)
                      normal == x.moderation = "normal"
                      public == x.visibility = "public"
                      spared == viewer => ~x.hidden
                  IN  /\ VisiblePosts(v, a, x) <=> may /\ normal /\ spared
                      /\ PublicPage(v, a, x) <=> may /\ normal /\ public /\ spared
                      /\ SearchedPosts(v, a, x) <=> may /\ normal /\ public
                      /\ ApiPosts(v, a, x) <=>
                            \/ v = a /\ ~x.deleted
                            \/ may /\ normal /\ public /\ spared
                      /\ viewer => /\ BookmarksPage(v, a, x) <=> x.bookmarked /\ may /\ spared
                                   /\ HiddenPage(v, a, x) <=> x.hidden /\ may
                      /\ viewer /\ v # a /\ x.visibility # "private" =>
                            (HomePage(v, a, x) <=> Accepted(v, a) /\ may /\ spared)
                      /\ ActorTab(v, a, x) /\ v # a /\ viewer =>
                            ~Blocked(<<v, a>>) /\ (a \in private => Accepted(v, a))
=============================================================================
