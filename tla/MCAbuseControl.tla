--------------------------- MODULE MCAbuseControl ---------------------------
(* Two likes and a dislike of the same post, and two reposts of it; or the *)
(* trust signal of an actor, with the default settings but for the limits  *)
(* of an hour, which are lower.                                            *)
EXTENDS AbuseControl, TLC

CONSTANTS l1, m1, d1, r1, s1

MCKind == [r \in Requests |->
    IF r \in {l1, m1} THEN "like" ELSE
    IF r = d1 THEN "dislike" ELSE "repost"]
MCPost == [r \in Requests |-> "post"]

MCSymmetry == Permutations({l1, m1}) \union Permutations({r1, s1})

MCBonus == [t \in AllTraits |->
    CASE t = "verified" -> 25
      [] t \in {"avatar", "followers"} -> 10
      [] t = "bio" -> 8
      [] OTHER -> 5]

MCHours == [r \in Reasons |->
    CASE r = "recent_moderation_actions" -> 168
      [] r = "recent_reports" -> 72
      [] r = "posting_velocity" -> 1
      [] r = "low_trust_score" -> 6]

MCSettings ==
    [bonus |-> MCBonus, limit |-> [d \in Deeds |-> 1], hours |-> MCHours,
     minimumAge |-> 7, perReport |-> 10, perAction |-> 15,
     reports |-> 4, actions |-> 3, threshold |-> 30]
=============================================================================
