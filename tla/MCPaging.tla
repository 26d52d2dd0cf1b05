------------------------------ MODULE MCPaging ------------------------------
(* Paging on a small instance, for TLC.                                    *)
EXTENDS Paging

MCLimits == {1, 2}
=============================================================================
