---------------------------- MODULE MCDirectChat ----------------------------
(* DirectChat on small instances, for TLC.                                 *)
EXTENDS DirectChat, TLC

CONSTANTS a, b, r1, r2, r3

MCUsers == {a, b}
MCSlots == {r1, r2, r3}

Symmetry == Permutations(MCUsers) \cup Permutations(MCSlots)
=============================================================================
