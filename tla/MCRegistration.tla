--------------------------- MODULE MCRegistration ---------------------------
(* Registration on small instances, for TLC.                               *)
EXTENDS Registration, TLC

CONSTANTS e1, e2, a1, a2, r1, r2, r3

MCEmails   == {e1, e2}
MCAccounts == {a1, a2}
MCSlots    == {r1, r2, r3}

Symmetry == Permutations(MCEmails) \cup Permutations(MCAccounts) \cup Permutations(MCSlots)
=============================================================================
