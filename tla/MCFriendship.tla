---------------------------- MODULE MCFriendship ----------------------------
(* Friendship on small instances, for TLC.                                 *)
EXTENDS Friendship, TLC

CONSTANTS a, b, r1

MCUsers == {a, b}
MCSlots == {r1}

Symmetry == Permutations(MCUsers)
=============================================================================
