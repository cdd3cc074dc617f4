------------------------------ MODULE MCSocial ------------------------------
(* Two actors who may have threads from before the canonical key, three     *)
(* requests of any kind, and two processes to serve them.                   *)
EXTENDS Social, TLC

MCSymmetry == Permutations(Actors) \union Permutations(Slots)

(* Strangers, friends, or one who has asked to follow the other.            *)
MCInitialFollows ==
    {f \in [Pairs -> {"none", "pending", "accepted"}] :
        \/ \A p \in Pairs : f[p] = "accepted"
        \/ (\A p \in Pairs : f[p] # "accepted") /\ (\E p \in Pairs : f[p] = "none")}

Plain(visibility) == [visibility |-> visibility, moderation |-> "normal", deleted |-> FALSE,
                      bookmarked |-> TRUE, hidden |-> FALSE]

(* One post per visibility, and one for each filter besides.                *)
MCPosts ==
    {Plain(visibility) : visibility \in {"public", "unlisted", "followers_only", "private"}}
        \union {[Plain("public") EXCEPT !.hidden = TRUE],
                [Plain("public") EXCEPT !.moderation = "limited"],
                [Plain("public") EXCEPT !.deleted = TRUE]}
=============================================================================
