------------------------------ MODULE MCDelivery ------------------------------
(* Delivery on a small instance, for TLC: a row that asks for a session and *)
(* one that does not.  No symmetry: liveness is checked.                    *)
EXTENDS Delivery

CONSTANTS c1, c2, c3, message, groupMessage

MCSockets == {c1, c2, c3}
MCItems   == {message, groupMessage}
MCAsking  == {message}
=============================================================================
