---------------------------- MODULE MCUserAccount ----------------------------
(* The account of a user, checked by UserAccount.cfg.                      *)
EXTENDS UserAccount, TLC

SlotSymmetry == Permutations(Slots)
=============================================================================
