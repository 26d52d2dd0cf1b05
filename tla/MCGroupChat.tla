---------------------------- MODULE MCGroupChat ----------------------------
(***************************************************************************)
(* GroupChat on small instances, for TLC.                                  *)
(***************************************************************************)
EXTENDS GroupChat, TLC

CONSTANTS m, a, b, r1, r2, r3

MCUsers == {m, a, b}
MCTwoSlots == {r1, r2}
MCThreeSlots == {r1, r2, r3}

Symmetry == Permutations(MCUsers) \cup Permutations(MCThreeSlots)

EveryKind == Kinds
KindsAndCrash == Kinds \cup {"crash"}

(* Nothing is kept apart: the handlers as they run.                        *)
NoKind == {}

(* The requests that change the member list or create conversations run    *)
(* one after the other; erase, read, invite and reject overlap them.       *)
Writers == {"create", "create2", "accept", "kick", "leave", "send", "disband"}
=============================================================================
