----------------------------- MODULE Membership -----------------------------
(***************************************************************************)
(* What the membership of one chat group promises to its users, with no    *)
(* requests, rows or transactions in it: a group is founded once, a user   *)
(* enters it alone and only after having been admitted (as a founder or by *)
(* accepting an invitation), leaves it alone, and a disbanded group stays  *)
(* disbanded.  GroupChat implements this specification when the requests   *)
(* that write the member list are not handled at the same time.            *)
(***************************************************************************)
CONSTANT Users

VARIABLES
  group,       \* "unborn", "live" or "gone"
  members,     \* the users that belong to the group
  admitted     \* the users that founded it or accepted an invitation to it

vars == <<group, members, admitted>>

Init ==
  /\ group = "unborn"
  /\ members = {}
  /\ admitted = {}

Found(F) ==
  /\ group = "unborn"
  /\ group' = "live"
  /\ members' = F
  /\ admitted' = admitted \cup F

Admit(u) ==
  /\ group = "live"
  /\ admitted' = admitted \cup {u}
  /\ UNCHANGED <<group, members>>

Join(u) ==
  /\ group = "live"
  /\ u \in admitted \ members
  /\ members' = members \cup {u}
  /\ UNCHANGED <<group, admitted>>

Depart(u) ==
  /\ u \in members
  /\ members' = members \ {u}
  /\ UNCHANGED <<group, admitted>>

Disband ==
  /\ group = "live"
  /\ group' = "gone"
  /\ members' = {}
  /\ UNCHANGED admitted

Next ==
  \/ \E F \in SUBSET Users : Found(F)
  \/ \E u \in Users : Admit(u) \/ Join(u) \/ Depart(u)
  \/ Disband

Spec == Init /\ [][Next]_vars
=============================================================================
