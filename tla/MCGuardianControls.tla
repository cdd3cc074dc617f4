------------------------- MODULE MCGuardianControls -------------------------
(* Two edits that may remove or replace the guardian, or add one first, and *)
(* three visits: enough to verify, approve and manage.                      *)
EXTENDS GuardianControls, TLC

(* Edits are alike, and so are visits.                                      *)
MCSymmetry == Permutations(Edits) \union Permutations(Visits)

MCAddresses == {"g", "h"}

Submit(minor, guardian, basic) ==
    [minor |-> minor, guardian |-> guardian, private |-> FALSE, basic |-> basic]

MCForms == {Submit(TRUE, "g", TRUE), Submit(TRUE, "h", FALSE), Submit(FALSE, NoGuardian, TRUE),
            [Submit(FALSE, "g", FALSE) EXCEPT !.private = TRUE]}
=============================================================================
