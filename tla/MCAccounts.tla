----------------------------- MODULE MCAccounts -----------------------------
(* A deactivation and a deletion, at once or one after the other, one link *)
(* sent again by support and a visit of a link; or visits that sign in,    *)
(* verify and reset; or one of each.                                       *)
EXTENDS Accounts

MCLeaves == {"a1", "d1"}
MCSupports == {"s1"}
MCClicks == {"c1"}
MCKind == [r \in MCLeaves \union MCSupports |->
    IF r = "d1" THEN "delete" ELSE "deactivate"]
MCRetention == [k \in Kinds |-> IF k = "delete" THEN 1 ELSE 2]
MCScenarios ==
    {MCLeaves \union MCSupports \union MCClicks,
     {"v1", "v2", "v3"},
     {"v1", "v2", "t", "staff"},
     {"d1", "c1", "v1"}}
=============================================================================
