---------------------------- MODULE MCModeration ----------------------------
(* A post and a comment with two texts, one report of any severity, three   *)
(* requests of any kind, and two processes to serve them.                   *)
EXTENDS Moderation, TLC

CONSTANTS p, q, c

MCPostOf == c :> p

MCSymmetry == Permutations(Slots)

(* One minute after each target, for a report of minute 0.                  *)
MCTimes == {0, 31, 121, 481, 1441}
=============================================================================
