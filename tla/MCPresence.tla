----------------------------- MODULE MCPresence -----------------------------
(* Presence on small instances, for TLC.  No symmetry: liveness is checked.*)
EXTENDS Presence

CONSTANTS c1, c2

MCSockets == {c1, c2}
=============================================================================
