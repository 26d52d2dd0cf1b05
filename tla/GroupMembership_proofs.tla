----------------------- MODULE GroupMembership_proofs -----------------------
(***************************************************************************)
(* GroupChat implements Membership when the requests that write the member *)
(* list exclude each other: acceptances, kicks, leaves and the group's     *)
(* deletion.  Everything else may overlap them, in any number.             *)
(*                                                                         *)
(* Less is needed for OneAcceptanceLosesNobody: if only acceptances        *)
(* exclude each other, no member disappears whom nobody removed; and if    *)
(* only acceptances and the deletion do, a deleted group stays deleted.    *)
(* More is needed for the conversation rows to follow the members: the     *)
(* requests that create rows have to be kept apart, too.                   *)
(***************************************************************************)
EXTENDS GroupChat_proofs

Rewriters == {"accept", "kick", "leave", "disband"}

(* What a request may rely on, when no other rewriter is in progress: the  *)
(* member list an acceptance holds is the stored one, so that saving it    *)
(* inserts one row and deletes none.                                       *)
Current(q, g, M) ==
  /\ q.at # "reinsert"
  /\ q.at \in {"saveRead", "saveWrite"} => q.op = "accept" /\ g = "live" /\ q.by \notin M
  /\ q.at = "saveRead" => q.seen = M
  /\ q.at = "saveWrite" => q.add = {q.by} /\ q.drop = {}
  /\ q.at = "wipe" => q.op = "disband"
  /\ q.at \in {"txRead", "findRow", "commit"} => q.op \in {"kick", "leave"}
  /\ q.at = "removeRow" => q.op \in {"kick", "leave", "erase"}

Orderly ==
  /\ \A s \in Slots : Current(reqs[s], group, members)
  /\ \A s, t \in Slots : s # t /\ reqs[s].op \in Rewriters => reqs[t].op \notin Rewriters

(* A step of one request preserves the invariant if the request does, and  *)
(* if it writes the group or its members only as a rewriter.               *)
LEMMA OrderlyStep ==
  ASSUME TypeOK, Orderly, NEW s \in Slots, NEW q, reqs' = [reqs EXCEPT ![s] = q],
         \/ q.op = reqs[s].op
         \/ q.op \notin Rewriters
         \/ \A t \in Slots : reqs[t].op \notin Rewriters,
         \/ UNCHANGED <<group, members>>
         \/ reqs[s].op \in Rewriters
         \/ group # "live",
         Current(q, group', members')
  PROVE  Orderly'
<1>1. \A t \in Slots : reqs'[t] = IF t = s THEN q ELSE reqs[t]
  BY DEF TypeOK
<1>2. ASSUME NEW t \in Slots
      PROVE  Current(reqs'[t], group', members')
  <2>1. CASE t = s
    BY <1>1, <2>1
  <2>2. CASE t # s /\ UNCHANGED <<group, members>>
    BY <1>1, <2>2 DEF Orderly
  <2>3. CASE t # s /\ (reqs[s].op \in Rewriters \/ group # "live")
    <3>1. reqs[t].at \notin {"saveRead", "saveWrite"}
      BY <2>3 DEF Orderly, Current, Rewriters
    <3> QED BY <1>1, <2>3, <3>1 DEF Orderly, Current
  <2> QED BY <2>1, <2>2, <2>3
<1>3. ASSUME NEW t \in Slots, NEW v \in Slots, t # v, reqs'[t].op \in Rewriters
      PROVE  reqs'[v].op \notin Rewriters
  BY <1>1, <1>3 DEF Orderly
<1> QED BY <1>2, <1>3 DEF Orderly

(* An answer leaves the other requests as they were.                       *)
LEMMA OrderlyAnswer ==
  ASSUME TypeOK, Orderly, NEW s \in Slots,
         Answer(s) \/ reqs' = [reqs EXCEPT ![s] = Idle],
         \/ UNCHANGED <<group, members>>
         \/ reqs[s].op \in Rewriters
         \/ group # "live"
  PROVE  Orderly'
<1>1. Current(Idle, group', members') /\ Idle.op \notin Rewriters
  BY DEF Current, Idle, Rewriters
<1> QED BY <1>1, OrderlyStep DEF Answer, Continue

(* A request enters only when no other rewriter is in progress.            *)
LEMMA EnterOrderly ==
  ASSUME TypeOK, Orderly, Rewriters \subseteq Exclusive, NEW s \in Slots, Enter(s)
  PROVE  Orderly' /\ [Promise!Next]_(Promise!vars)
<1>1. ASSUME NEW op, NEW q, Receive(s, op, q), q.op = op,
             UNCHANGED <<group, members>> \/ group # "live", Current(q, group', members')
      PROVE  Orderly'
  <2>1. op \notin Rewriters \/ \A t \in Slots : reqs[t].op \notin Rewriters
    BY <1>1 DEF Receive
  <2> QED BY <1>1, <2>1, OrderlyStep DEF Receive
<1>2. ASSUME UNCHANGED db
      PROVE  UNCHANGED Promise!vars /\ UNCHANGED <<group, members>>
  BY <1>2 DEF db, Promise!vars
<1>3. ASSUME NEW u \in Users, NEW op \in {"create", "create2"}, NEW F \in SUBSET Users, NEW G,
             Found(s, u, op, F, G)
      PROVE  Orderly' /\ [Promise!Next]_(Promise!vars)
  <2>1. Orderly'
    BY <1>1, <1>3 DEF Found, Idle, Current
  <2>2. Promise!Found(F)
    BY <1>3 DEF Found, Promise!Found
  <2> QED BY <2>1, <2>2 DEF Promise!Next
<1>4. ASSUME NEW u \in Users, NEW G, AddMember(s, u, G)
      PROVE  Orderly' /\ UNCHANGED Promise!vars
  BY <1>1, <1>2, <1>4 DEF AddMember, Idle, Current
<1>5. ASSUME NEW u \in Users, NEW n, NEW op \in {"accept", "reject"}, UpdateInvitation(s, u, n, op)
      PROVE  Orderly' /\ UNCHANGED Promise!vars
  BY <1>1, <1>2, <1>5 DEF UpdateInvitation, Idle, Current
<1>6. ASSUME NEW u \in Users, NEW v \in Users, KickMember(s, u, v)
      PROVE  Orderly' /\ UNCHANGED Promise!vars
  BY <1>1, <1>2, <1>6 DEF KickMember, Idle, Current
<1>7. ASSUME NEW u \in Users, LeaveGroup(s, u)
      PROVE  Orderly' /\ UNCHANGED Promise!vars
  BY <1>1, <1>2, <1>7 DEF LeaveGroup, Idle, Current
<1>8. ASSUME NEW u \in Users, DeleteConversation(s, u)
      PROVE  Orderly' /\ UNCHANGED Promise!vars
  BY <1>1, <1>2, <1>8 DEF DeleteConversation, Idle, Current
<1>9. ASSUME NEW u \in Users, ReadAllGroup(s, u)
      PROVE  Orderly' /\ UNCHANGED Promise!vars
  BY <1>1, <1>2, <1>9 DEF ReadAllGroup, Idle, Current
<1>10. ASSUME NEW u \in Users, SendMessageGroup(s, u)
       PROVE  Orderly' /\ UNCHANGED Promise!vars
  BY <1>1, <1>2, <1>10 DEF SendMessageGroup, Idle, Current
<1>11. ASSUME NEW u \in Users, DeleteGroup(s, u)
       PROVE  Orderly' /\ UNCHANGED Promise!vars
  BY <1>1, <1>2, <1>11 DEF DeleteGroup, Idle, Current
<1> QED BY <1>3, <1>4, <1>5, <1>6, <1>7, <1>8, <1>9, <1>10, <1>11
        DEF Enter, CreateChatGroup, CreateChatGroup2

(* A later step is a step of Membership, or changes nothing of it.         *)
LEMMA ProceedOrderly ==
  ASSUME TypeOK, Admission, Orderly, NEW s \in Slots, Proceed(s)
  PROVE  Orderly' /\ [Promise!Next]_(Promise!vars)
<1> DEFINE r == reqs[s]
<1>a. ASSUME NEW q, Continue(s, q), q.op = r.op, Current(q, group', members'),
             UNCHANGED <<group, members>> \/ r.op \in Rewriters
      PROVE  Orderly'
  BY <1>a, OrderlyStep DEF Continue
<1>b. UNCHANGED db => UNCHANGED Promise!vars /\ UNCHANGED <<group, members>>
  BY DEF db, Promise!vars
<1>c. UNCHANGED <<group, members, admitted>> =>
        UNCHANGED Promise!vars /\ UNCHANGED <<group, members>>
  BY DEF Promise!vars
<1>d. Current(r, group, members)
  BY DEF Orderly
<1>e. ASSUME r.at \in Places \/ r.missing # {}
      PROVE  r \in Request
  BY <1>e, RequestFields
<1>1. CASE FoundersInformed(s)
  BY <1>1, <1>b, OrderlyAnswer DEF FoundersInformed
<1>2. CASE CreateMultipleInvites(s)
  BY <1>2, <1>c, OrderlyAnswer DEF CreateMultipleInvites
<1>f. ASSUME NEW q, q.op = r.op, q.at = r.at, q.by = r.by, q.seen = r.seen, q.add = r.add,
             q.drop = r.drop, Continue(s, q), UNCHANGED <<group, members>>
      PROVE  Orderly'
  <2>1. Current(q, group', members')
    BY <1>d, <1>f DEF Current
  <2> QED BY <1>a, <1>f, <2>1
<1>g. ASSUME NEW q, q.op = r.op, q.at \in {"conversations", "receivers", "notify", "store"},
             Continue(s, q), UNCHANGED <<group, members>> \/ r.op \in Rewriters
      PROVE  Orderly'
  <2>1. Current(q, group', members')
    BY <1>g DEF Current
  <2> QED BY <1>a, <1>g, <2>1
<1>3. ASSUME NEW u \in Users, FindConversation(s, u)
      PROVE  Orderly' /\ UNCHANGED Promise!vars
  <2>1. r \in Request
    BY <1>3, <1>e DEF FindConversation, Places
  <2>2. UNCHANGED db
    BY <1>3 DEF FindConversation
  <2>3. CASE Continue(s, [r EXCEPT !.todo = @ \ {u}, !.missing = @ \cup {u}])
    BY <2>1, <2>2, <2>3, <1>b, <1>f DEF Request
  <2>4. ASSUME NEW k, Continue(s, [r EXCEPT !.todo = @ \ {u}, !.rows = @ \cup {k}])
        PROVE  Orderly' /\ UNCHANGED Promise!vars
    BY <2>1, <2>2, <2>4, <1>b, <1>f DEF Request
  <2> QED BY <1>3, <2>3, <2>4 DEF FindConversation
<1>4. ASSUME NEW u \in Users, CreateConversation(s, u)
      PROVE  Orderly' /\ UNCHANGED Promise!vars
  <2>1. r \in Request
    BY <1>4, <1>e DEF CreateConversation
  <2>2. ASSUME NEW k, Continue(s, [r EXCEPT !.missing = @ \ {u}, !.rows = @ \cup {k}])
        PROVE  Orderly' /\ UNCHANGED Promise!vars
    BY <1>4, <2>1, <2>2, <1>c, <1>f DEF CreateConversation, Request
  <2> QED BY <1>4, <2>2, <1>c, OrderlyAnswer DEF CreateConversation
<1>5. CASE MarkInvitation(s)
  <2>1. r \in Request
    BY <1>5, <1>e DEF MarkInvitation, At, Places
  <2>2. CASE Live /\ r.op = "accept"
    <3>1. Continue(s, [r EXCEPT !.at = "conversations", !.inv = {}, !.todo = {r.by}])
      BY <1>5, <2>2 DEF MarkInvitation
    <3>2. Orderly'
      BY <1>5, <2>1, <3>1, <1>g DEF Request, MarkInvitation
    <3>3. Promise!Admit(r.by)
      BY <1>5, <2>2 DEF MarkInvitation, Promise!Admit, Live
    <3> QED BY <2>1, <3>2, <3>3 DEF Promise!Next, Request
  <2>3. CASE ~(Live /\ r.op = "accept")
    BY <1>5, <2>3, <1>c, OrderlyAnswer DEF MarkInvitation
  <2> QED BY <2>2, <2>3
<1>6. CASE ReadMembers(s)
  <2>1. r \in Request
    BY <1>6, <1>e DEF ReadMembers, At, Places
  <2>2. CASE Live /\ r.by \notin members
    <3> DEFINE q == [r EXCEPT !.at = "saveRead", !.rows = {}, !.seen = members]
    <3>1. /\ q.at = "saveRead" /\ q.op = "accept" /\ q.by = r.by /\ q.seen = members
          /\ r.op = "accept"
      BY <1>6, <2>1 DEF Request, ReadMembers
    <3>2. Continue(s, q) /\ UNCHANGED db
      BY <1>6, <2>2 DEF ReadMembers
    <3>3. Current(q, group', members')
      BY <2>2, <3>1, <3>2, <1>b DEF Current, Live
    <3> QED BY <3>1, <3>2, <3>3, <1>a, <1>b
  <2>3. CASE ~(Live /\ r.by \notin members)
    BY <1>6, <2>3, <1>b, OrderlyAnswer DEF ReadMembers
  <2> QED BY <2>2, <2>3
<1>7. CASE SaveRead(s)
  <2> DEFINE array == r.seen \cup {r.by}
  <2> DEFINE q == [r EXCEPT !.at = "saveWrite", !.seen = {}, !.add = array \ members,
                            !.drop = members \ array]
  <2>1. r \in Request
    BY <1>7, <1>e DEF SaveRead, At, Places
  <2>2. r.op = "accept" /\ Live /\ r.by \notin members /\ r.seen = members
    BY <1>7, <1>d DEF SaveRead, At, Current, Live
  <2>3. Continue(s, q) /\ UNCHANGED db
    BY <1>7, <2>2 DEF SaveRead
  <2>4. /\ q.at = "saveWrite" /\ q.op = "accept" /\ q.by = r.by
        /\ q.add = array \ members /\ q.drop = members \ array
    BY <2>1, <2>2 DEF Request
  <2>5. array \ members = {r.by} /\ members \ array = {}
    BY <2>2
  <2>6. Current(q, group', members')
    BY <2>2, <2>3, <2>4, <2>5, <1>b DEF Current, Live
  <2> QED BY <2>2, <2>3, <2>4, <2>6, <1>a, <1>b
<1>8. CASE SaveWrite(s)
  <2>1. r \in Request
    BY <1>8, <1>e DEF SaveWrite, At, Places
  <2>2. /\ r.op = "accept" /\ Live /\ r.by \notin members /\ r.add = {r.by} /\ r.drop = {}
        /\ r.by \in admitted
    BY <1>8, <1>d DEF SaveWrite, At, Current, Live, Admission, AdmittedRequest
  <2>3. /\ members' = members \cup {r.by} /\ UNCHANGED <<group, admitted>>
        /\ Continue(s, [r EXCEPT !.at = "notify", !.add = {}, !.drop = {}])
    BY <1>8, <2>2 DEF SaveWrite, Joined
  <2>4. Orderly'
    BY <2>1, <2>2, <2>3, <1>g DEF Request, Rewriters
  <2>5. Promise!Join(r.by)
    BY <2>2, <2>3 DEF Promise!Join, Live
  <2> QED BY <2>1, <2>4, <2>5 DEF Promise!Next, Request
<1>9. ~Reinsert(s)
  BY <1>d DEF Current, Reinsert, At
<1>10. CASE BeginRemoval(s)
  <2> DEFINE q == [r EXCEPT !.at = "findRow"]
  <2>1. r \in Request /\ r.op \in {"kick", "leave"}
    BY <1>10, <1>d, <1>e DEF BeginRemoval, At, Places, Current
  <2>2. q.at = "findRow" /\ q.op = r.op
    BY <2>1 DEF Request
  <2>3. Current(q, group', members')
    BY <2>1, <2>2 DEF Current
  <2> QED BY <1>10, <2>2, <2>3, <1>a, <1>b, OrderlyAnswer DEF BeginRemoval
<1>11. ASSUME r.who \in Users \cup {NoUser}, members' \in {members, members \ {r.who}},
              UNCHANGED <<group, admitted>>
       PROVE  [Promise!Next]_(Promise!vars)
  <2>1. CASE members' = members
    BY <1>11, <2>1 DEF Promise!vars
  <2>2. CASE members' # members
    <3>1. r.who \in Users /\ Promise!Depart(r.who)
      BY <1>11, <2>2 DEF Promise!Depart, TypeOK
    <3> QED BY <3>1 DEF Promise!Next
  <2> QED BY <2>1, <2>2
<1>12. CASE FindRemovedConversation(s)
  <2>1. r \in Request /\ r.op \in {"kick", "leave"}
    BY <1>12, <1>d, <1>e DEF FindRemovedConversation, At, Places, Current
  <2>2. ASSUME NEW k, Continue(s, [r EXCEPT !.at = "removeRow", !.rows = {k}])
        PROVE  Orderly'
    <3> DEFINE q == [r EXCEPT !.at = "removeRow", !.rows = {k}]
    <3>1. q.at = "removeRow" /\ q.op = r.op
      BY <2>1 DEF Request
    <3>2. Current(q, group', members')
      BY <2>1, <3>1 DEF Current
    <3> QED BY <2>1, <2>2, <3>1, <3>2, <1>a DEF Rewriters
  <2>3. Orderly'
    BY <1>12, <2>1, <2>2, OrderlyAnswer DEF FindRemovedConversation, Rewriters
  <2> QED BY <1>11, <1>12, <2>1, <2>3 DEF FindRemovedConversation, Request
<1>13. CASE RemoveRow(s)
  <2> DEFINE q == [r EXCEPT !.at = "commit", !.rows = {}]
  <2>1. r \in Request /\ r.op \in {"kick", "leave", "erase"}
    BY <1>13, <1>d, <1>e DEF RemoveRow, At, Places, Current
  <2>2. q.at = "commit" /\ q.op = r.op
    BY <2>1 DEF Request
  <2>3. CASE r.op # "erase"
    <3>1. Current(q, group', members')
      BY <2>1, <2>2, <2>3 DEF Current
    <3> QED BY <1>13, <2>2, <2>3, <3>1, <1>a, <1>c DEF RemoveRow
  <2>4. CASE r.op = "erase"
    BY <1>13, <2>4, <1>c, OrderlyAnswer DEF RemoveRow
  <2> QED BY <2>3, <2>4
<1>14. CASE CommitRemoval(s)
  <2>1. r \in Request /\ r.op \in Rewriters
    BY <1>14, <1>d, <1>e DEF CommitRemoval, At, Places, Current, Rewriters
  <2>2. Continue(s, [r EXCEPT !.at = "notify", !.who = NoUser])
    BY <1>14 DEF CommitRemoval
  <2>3. Orderly'
    BY <2>1, <2>2, <1>g DEF Request
  <2> QED BY <1>11, <1>14, <2>1, <2>3 DEF CommitRemoval, Request
<1>15. CASE ResetUnread(s)
  BY <1>15, <1>c, OrderlyAnswer DEF ResetUnread
<1>16. CASE ReadReceivers(s)
  <2>1. r \in Request
    BY <1>16, <1>e DEF ReadReceivers, At, Places
  <2>2. CASE Live
    BY <1>16, <2>1, <2>2, <1>b, <1>g DEF ReadReceivers, Request
  <2>3. CASE ~Live
    BY <1>16, <2>3, <1>b, OrderlyAnswer DEF ReadReceivers
  <2> QED BY <2>2, <2>3
<1>17. CASE IncrementUnread(s)
  <2>1. r \in Request
    BY <1>17, <1>e DEF IncrementUnread, At, Places
  <2> QED BY <1>17, <2>1, <1>c, <1>g DEF IncrementUnread, Request
<1>18. CASE CreateMessageInGroup(s)
  BY <1>18, <1>c, OrderlyAnswer DEF CreateMessageInGroup
<1>19. CASE Wipe(s)
  <2>1. r.op \in Rewriters
    BY <1>19, <1>d DEF Wipe, At, Current, Rewriters
  <2>2. CASE Live
    <3>1. Promise!Disband
      BY <1>19, <2>2 DEF Wipe, Promise!Disband, Live
    <3> QED BY <1>19, <2>1, <3>1, OrderlyAnswer DEF Wipe, Promise!Next
  <2>3. CASE ~Live
    BY <1>19, <2>3, <1>c, OrderlyAnswer DEF Wipe
  <2> QED BY <2>2, <2>3
<1> QED BY <1>1, <1>2, <1>3, <1>4, <1>5, <1>6, <1>7, <1>8, <1>9, <1>10, <1>12, <1>13,
           <1>14, <1>15, <1>16, <1>17, <1>18, <1>19 DEF Proceed

(* Every step, a stop of the process included.                             *)
LEMMA OrderlyStepping ==
  ASSUME Rewriters \subseteq Exclusive, TypeOK, Admission, Orderly, [Next]_vars
  PROVE  Orderly' /\ [Promise!Next]_(Promise!vars)
<1>1. CASE \E s \in Slots : Enter(s) \/ Proceed(s)
  BY <1>1, EnterOrderly, ProceedOrderly
<1>2. CASE Crash
  BY <1>2 DEF Crash, db, Orderly, Current, Idle, Rewriters, Promise!vars
<1>3. CASE UNCHANGED vars
  BY <1>3 DEF vars, db, Orderly, Promise!vars
<1> QED BY <1>1, <1>2, <1>3 DEF Next, Done

(* When acceptances, kicks, leaves and the group's deletion are handled    *)
(* one after the other, the member list behaves as Membership says: one    *)
(* user at a time enters or leaves it, only the admitted enter, and a      *)
(* deleted group stays deleted (addMemberToGroup, deleteMemberFromGroup,   *)
(* deleteGroup), whatever other requests and crashes intervene.            *)
THEOREM OrderlyMembership ==
  ASSUME Rewriters \subseteq Exclusive
  PROVE  Spec => MembershipPromise
<1>1. Init => Promise!Init /\ Orderly /\ Admission /\ TypeOK
  BY DEF Init, Promise!Init, Orderly, Current, Idle, Rewriters, Admission, AdmittedRequest, TypeOK
<1>2. TypeOK /\ Admission /\ Orderly /\ [Next]_vars => Orderly' /\ [Promise!Next]_(Promise!vars)
  BY OrderlyStepping
<1>3. TypeOK /\ Admission /\ [Next]_vars => TypeOK' /\ Admission'
  BY TypeStep, AdmissionInductive
<1> QED BY <1>1, <1>2, <1>3, PTL DEF Spec, MembershipPromise, Promise!Spec

-----------------------------------------------------------------------------
(***************************************************************************)
(* Acceptances alone.  For the weaker promise that nobody is removed by      *)
(* another one's acceptance it is enough that acceptances exclude each     *)
(* other: the list an acceptance holds may then be too long, when members  *)
(* left meanwhile, but it is never too short.                              *)
(***************************************************************************)
Complete(q, M) ==
  /\ q.at \in {"saveRead", "saveWrite", "reinsert"} => q.op = "accept"
  /\ q.at = "saveRead" => M \subseteq q.seen \cup {q.by}
  /\ q.at = "saveWrite" => q.drop = {}
  /\ q.at \in {"txRead", "findRow", "commit"} => q.op \in {"kick", "leave"}
  /\ q.at = "removeRow" => q.op \in {"kick", "leave", "erase"}

OneAcceptance ==
  /\ \A s \in Slots : Complete(reqs[s], members)
  /\ \A s, t \in Slots : s # t /\ reqs[s].op = "accept" => reqs[t].op # "accept"
  /\ group = "unborn" => \A s \in Slots : reqs[s] = Idle

(* What the property asks of a step.                                       *)
AskedFor ==
  group' = "live" =>
    \A u \in members \ members' :
      \E s \in Slots : reqs[s].op \in {"kick", "leave"} /\ reqs[s].who = u

(* A step of one request preserves the invariant if the request does, and  *)
(* adds members only as the acceptance, or when nobody holds a list.       *)
LEMMA AcceptanceStep ==
  ASSUME TypeOK, OneAcceptance, NEW s \in Slots, NEW q, reqs' = [reqs EXCEPT ![s] = q],
         \/ q.op = reqs[s].op
         \/ q.op # "accept"
         \/ \A t \in Slots : reqs[t].op # "accept",
         \/ members' \subseteq members
         \/ reqs[s].op = "accept"
         \/ group = "unborn",
         Complete(q, members'), group' # "unborn"
  PROVE  OneAcceptance'
<1>1. \A t \in Slots : reqs'[t] = IF t = s THEN q ELSE reqs[t]
  BY DEF TypeOK
<1>2. ASSUME NEW t \in Slots
      PROVE  Complete(reqs'[t], members')
  <2>1. CASE t = s
    BY <1>1, <2>1
  <2>2. CASE t # s /\ members' \subseteq members
    BY <1>1, <2>2 DEF OneAcceptance, Complete
  <2>3. CASE t # s /\ (reqs[s].op = "accept" \/ group = "unborn")
    <3>1. reqs[t].at # "saveRead"
      BY <2>3, IdleFields DEF OneAcceptance, Complete
    <3> QED BY <1>1, <2>3, <3>1 DEF OneAcceptance, Complete
  <2> QED BY <2>1, <2>2, <2>3
<1>3. ASSUME NEW t \in Slots, NEW v \in Slots, t # v, reqs'[t].op = "accept"
      PROVE  reqs'[v].op # "accept"
  BY <1>1, <1>3 DEF OneAcceptance
<1> QED BY <1>2, <1>3 DEF OneAcceptance

(* An answer leaves the other requests as they were.                       *)
LEMMA AcceptanceAnswer ==
  ASSUME TypeOK, OneAcceptance, NEW s \in Slots, group' # "unborn",
         Answer(s) \/ reqs' = [reqs EXCEPT ![s] = Idle],
         members' \subseteq members \/ reqs[s].op = "accept"
  PROVE  OneAcceptance'
<1>1. Complete(Idle, members') /\ Idle.op # "accept"
  BY DEF Complete, Idle
<1> QED BY <1>1, AcceptanceStep DEF Answer, Continue

(* An entering request removes nobody, and is the only acceptance.         *)
LEMMA EnterAsked ==
  ASSUME TypeOK, NothingSurvivesTheGroup, OneAcceptance, "accept" \in Exclusive,
         NEW s \in Slots, Enter(s)
  PROVE  OneAcceptance' /\ AskedFor
<1>1. ASSUME NEW op, NEW q, Receive(s, op, q), q.op = op, Complete(q, members'),
             members' \subseteq members \/ group = "unborn", group' # "unborn"
      PROVE  OneAcceptance'
  <2>1. op # "accept" \/ \A t \in Slots : reqs[t].op # "accept"
    BY <1>1 DEF Receive
  <2> QED BY <1>1, <2>1, AcceptanceStep DEF Receive
<1>2. UNCHANGED db => UNCHANGED <<group, members>> /\ AskedFor
  BY DEF db, AskedFor
<1>3. DOMAIN invitations # {} \/ DOMAIN conversations # {} => group # "unborn"
  BY DEF NothingSurvivesTheGroup, Live
<1> USE DEF Idle, Complete, Live
<1>4. ASSUME NEW u, NEW op, NEW F, NEW G, Found(s, u, op, F, G)
      PROVE  OneAcceptance' /\ AskedFor
  <2>1. members = {}
    BY <1>4 DEF Found, NothingSurvivesTheGroup
  <2> QED BY <1>1, <1>4, <2>1 DEF Found, AskedFor
<1>5. ASSUME NEW u, NEW G, AddMember(s, u, G)
      PROVE  OneAcceptance' /\ AskedFor
  BY <1>1, <1>2, <1>5 DEF AddMember
<1>6. ASSUME NEW u, NEW n, NEW op, UpdateInvitation(s, u, n, op)
      PROVE  OneAcceptance' /\ AskedFor
  BY <1>1, <1>2, <1>3, <1>6 DEF UpdateInvitation
<1>7. ASSUME NEW u, NEW v, KickMember(s, u, v)
      PROVE  OneAcceptance' /\ AskedFor
  BY <1>1, <1>2, <1>7 DEF KickMember
<1>8. ASSUME NEW u, LeaveGroup(s, u)
      PROVE  OneAcceptance' /\ AskedFor
  BY <1>1, <1>2, <1>8 DEF LeaveGroup
<1>9. ASSUME NEW u, DeleteConversation(s, u)
      PROVE  OneAcceptance' /\ AskedFor
  BY <1>1, <1>2, <1>3, <1>9 DEF DeleteConversation, RowsOf
<1>10. ASSUME NEW u, ReadAllGroup(s, u)
       PROVE  OneAcceptance' /\ AskedFor
  BY <1>1, <1>2, <1>3, <1>10 DEF ReadAllGroup, RowsOf
<1>11. ASSUME NEW u, SendMessageGroup(s, u)
       PROVE  OneAcceptance' /\ AskedFor
  BY <1>1, <1>2, <1>11 DEF SendMessageGroup
<1>12. ASSUME NEW u, DeleteGroup(s, u)
       PROVE  OneAcceptance' /\ AskedFor
  BY <1>1, <1>2, <1>12 DEF DeleteGroup
<1> QED BY <1>4, <1>5, <1>6, <1>7, <1>8, <1>9, <1>10, <1>11, <1>12
        DEF Enter, CreateChatGroup, CreateChatGroup2

(* Only a kick or a leave takes a member off, and only the one it is for.  *)
LEMMA ProceedAsked ==
  ASSUME TypeOK, NothingSurvivesTheGroup, OneAcceptance, NEW s \in Slots, Proceed(s)
  PROVE  OneAcceptance' /\ AskedFor
<1> DEFINE r == reqs[s]
<1> USE DEF At
<1>a. group # "unborn"
  <2>1. r # Idle
    BY IdleFields
       DEF Proceed, FoundersInformed, CreateMultipleInvites, FindConversation,
           CreateConversation, MarkInvitation, ReadMembers, SaveRead, SaveWrite, Reinsert,
           BeginRemoval, FindRemovedConversation, RemoveRow, CommitRemoval, ResetUnread,
           ReadReceivers, IncrementUnread, CreateMessageInGroup, Wipe
  <2> QED BY <2>1 DEF OneAcceptance
<1>b. r.at \in Places \/ r.missing # {} => r \in Request
  BY RequestFields
<1>c. Complete(r, members)
  BY DEF OneAcceptance
<1>d. ASSUME NEW q, Continue(s, q), q.op = r.op, Complete(q, members'), group' # "unborn",
             members' \subseteq members \/ r.op = "accept"
      PROVE  OneAcceptance'
  BY <1>d, AcceptanceStep DEF Continue
<1>e. ASSUME UNCHANGED <<group, members>>
      PROVE  AskedFor /\ group' # "unborn"
  BY <1>a, <1>e DEF AskedFor
<1>f. ASSUME UNCHANGED <<group, members>>, Answer(s) \/ reqs' = [reqs EXCEPT ![s] = Idle]
      PROVE  OneAcceptance' /\ AskedFor
  BY <1>e, <1>f, AcceptanceAnswer
<1>g. UNCHANGED db => UNCHANGED <<group, members>>
  BY DEF db
<1>h. ASSUME NEW q, q.op = r.op, q.at \in {"conversations", "receivers", "notify", "store"},
             Continue(s, q), group' # "unborn", members' \subseteq members \/ r.op = "accept"
      PROVE  OneAcceptance'
  BY <1>d, <1>h DEF Complete
<1>i. ASSUME NEW q, q.op = r.op, q.at = r.at, q.by = r.by, q.seen = r.seen, q.drop = r.drop,
             Continue(s, q), UNCHANGED <<group, members>>
      PROVE  OneAcceptance' /\ AskedFor
  BY <1>c, <1>d, <1>e, <1>i DEF Complete
<1>1. CASE \/ FoundersInformed(s) \/ CreateMultipleInvites(s) \/ ResetUnread(s)
           \/ CreateMessageInGroup(s)
  BY <1>1, <1>f, <1>g
     DEF FoundersInformed, CreateMultipleInvites, ResetUnread, CreateMessageInGroup
<1>2. ASSUME NEW u \in Users, FindConversation(s, u)
      PROVE  OneAcceptance' /\ AskedFor
  <2>1. r \in Request
    BY <1>2, <1>b DEF FindConversation, Places
  <2> QED BY <1>2, <2>1, <1>g, <1>i DEF FindConversation, Request
<1>3. ASSUME NEW u \in Users, CreateConversation(s, u)
      PROVE  OneAcceptance' /\ AskedFor
  <2>1. r \in Request
    BY <1>3, <1>b DEF CreateConversation
  <2> QED BY <1>3, <2>1, <1>f, <1>i DEF CreateConversation, Request
<1>4. CASE MarkInvitation(s) \/ ReadReceivers(s) \/ IncrementUnread(s)
  <2>1. r \in Request
    BY <1>4, <1>b DEF MarkInvitation, ReadReceivers, IncrementUnread, Places
  <2>2. UNCHANGED <<group, members>>
    BY <1>4, <1>g DEF MarkInvitation, ReadReceivers, IncrementUnread
  <2> QED BY <1>4, <2>1, <2>2, <1>e, <1>f, <1>h
          DEF MarkInvitation, ReadReceivers, IncrementUnread, Request
<1>5. CASE ReadMembers(s)
  <2> DEFINE q == [r EXCEPT !.at = "saveRead", !.rows = {}, !.seen = members]
  <2>1. r \in Request /\ r.op = "accept" /\ UNCHANGED <<group, members>>
    BY <1>5, <1>b, <1>g DEF ReadMembers, Places
  <2>2. q.at = "saveRead" /\ q.op = r.op /\ q.seen = members
    BY <2>1 DEF Request
  <2>3. Complete(q, members')
    BY <2>1, <2>2 DEF Complete
  <2> QED BY <1>5, <2>1, <2>2, <2>3, <1>d, <1>e, <1>f DEF ReadMembers
<1>6. CASE SaveRead(s)
  <2> DEFINE array == r.seen \cup {r.by}
  <2> DEFINE q == [r EXCEPT !.at = "saveWrite", !.seen = {}, !.add = array \ members,
                            !.drop = members \ array]
  <2> DEFINE p == [r EXCEPT !.at = "reinsert", !.seen = {}, !.add = array]
  <2>1. r \in Request /\ r.op = "accept" /\ UNCHANGED <<group, members>>
    BY <1>6, <1>b, <1>c, <1>g DEF SaveRead, Places, Complete
  <2>2. members \subseteq array
    BY <1>6, <1>c DEF SaveRead, Complete
  <2>3. q.at = "saveWrite" /\ q.op = r.op /\ q.drop = {}
    BY <2>1, <2>2 DEF Request
  <2>4. p.at = "reinsert" /\ p.op = r.op
    BY <2>1 DEF Request
  <2>5. Complete(q, members') /\ Complete(p, members')
    BY <2>1, <2>3, <2>4 DEF Complete
  <2> QED BY <1>6, <2>1, <2>3, <2>4, <2>5, <1>d, <1>e DEF SaveRead
<1>7. CASE SaveWrite(s)
  <2>1. r \in Request /\ r.op = "accept" /\ r.drop = {} /\ UNCHANGED group
    BY <1>7, <1>b, <1>c DEF SaveWrite, Places, Complete
  <2>2. members \subseteq members'
    BY <1>7, <2>1 DEF SaveWrite
  <2>3. OneAcceptance'
    BY <1>7, <2>1, <1>a, <1>h, AcceptanceAnswer DEF SaveWrite, Joined, Request
  <2> QED BY <2>2, <2>3 DEF AskedFor
<1>8. CASE Reinsert(s)
  <2>1. r \in Request /\ r.op = "accept"
    BY <1>8, <1>b, <1>c DEF Reinsert, Places, Complete
  <2>2. members \subseteq members' /\ group' # "unborn"
    BY <1>8, <1>a DEF Reinsert, NothingSurvivesTheGroup
  <2>3. OneAcceptance'
    BY <1>8, <2>1, <2>2, <1>h, AcceptanceAnswer DEF Reinsert, Joined, Request
  <2> QED BY <2>2, <2>3 DEF AskedFor
<1>9. CASE BeginRemoval(s)
  <2> DEFINE q == [r EXCEPT !.at = "findRow"]
  <2>1. r \in Request /\ r.op \in {"kick", "leave"} /\ UNCHANGED <<group, members>>
    BY <1>9, <1>b, <1>c, <1>g DEF BeginRemoval, Places, Complete
  <2>2. q.at = "findRow" /\ q.op = r.op
    BY <2>1 DEF Request
  <2>3. Complete(q, members')
    BY <2>1, <2>2 DEF Complete
  <2> QED BY <1>9, <2>1, <2>2, <2>3, <1>d, <1>e, <1>f DEF BeginRemoval
<1>10. CASE FindRemovedConversation(s)
  <2>1. /\ r \in Request /\ r.op \in {"kick", "leave"} /\ UNCHANGED group
        /\ members' \in {members, members \ {r.who}}
    BY <1>10, <1>b, <1>c DEF FindRemovedConversation, Places, Complete
  <2>2. AskedFor
    BY <2>1 DEF AskedFor
  <2>3. ASSUME NEW k, Continue(s, [r EXCEPT !.at = "removeRow", !.rows = {k}])
        PROVE  OneAcceptance'
    <3> DEFINE q == [r EXCEPT !.at = "removeRow", !.rows = {k}]
    <3>1. q.at = "removeRow" /\ q.op = r.op
      BY <2>1 DEF Request
    <3>2. Complete(q, members')
      BY <2>1, <3>1 DEF Complete
    <3> QED BY <2>1, <2>3, <3>1, <3>2, <1>a, <1>d
  <2> QED BY <1>10, <2>1, <2>2, <2>3, <1>a, AcceptanceAnswer DEF FindRemovedConversation
<1>11. CASE RemoveRow(s)
  <2> DEFINE q == [r EXCEPT !.at = "commit", !.rows = {}]
  <2>1. r \in Request /\ r.op \in {"kick", "leave", "erase"} /\ UNCHANGED <<group, members>>
    BY <1>11, <1>b, <1>c DEF RemoveRow, Places, Complete
  <2>2. q.at = "commit" /\ q.op = r.op
    BY <2>1 DEF Request
  <2>3. r.op # "erase" => Complete(q, members')
    BY <2>1, <2>2 DEF Complete
  <2> QED BY <1>11, <2>1, <2>2, <2>3, <1>d, <1>e, <1>f DEF RemoveRow
<1>12. CASE CommitRemoval(s)
  <2>1. /\ r \in Request /\ r.op \in {"kick", "leave"} /\ UNCHANGED group
        /\ members' = members \ {r.who}
    BY <1>12, <1>b, <1>c DEF CommitRemoval, Places, Complete
  <2>2. AskedFor
    BY <2>1 DEF AskedFor
  <2>3. OneAcceptance'
    BY <1>12, <2>1, <1>a, <1>h DEF CommitRemoval, Request
  <2> QED BY <2>2, <2>3
<1>13. CASE Wipe(s)
  <2>1. members' \subseteq members /\ group' # "unborn" /\ Answer(s)
    BY <1>13, <1>a DEF Wipe
  <2>2. AskedFor
    BY <1>13 DEF Wipe, AskedFor
  <2> QED BY <2>1, <2>2, AcceptanceAnswer
<1> QED BY <1>1, <1>2, <1>3, <1>4, <1>5, <1>6, <1>7, <1>8, <1>9, <1>10, <1>11, <1>12, <1>13
        DEF Proceed

(* When acceptances are handled one after the other, no member disappears  *)
(* that nobody removed, whatever kicks, leaves, deletions of the group and *)
(* crashes overlap them: the overlap of two acceptances (addMemberToGroup) *)
(* is the only way to lose a member.                                       *)
THEOREM OneAcceptanceLosesNobody ==
  ASSUME "accept" \in Exclusive
  PROVE  Spec => OnlyRemovedMembersVanish
<1>1. Init => OneAcceptance
  BY DEF Init, OneAcceptance, Complete, Idle
<1>2. TypeOK /\ NothingSurvivesTheGroup /\ OneAcceptance /\ [Next]_vars =>
        OneAcceptance' /\ [AskedFor]_vars
  <2> SUFFICES ASSUME TypeOK, NothingSurvivesTheGroup, OneAcceptance, [Next]_vars
               PROVE  OneAcceptance' /\ [AskedFor]_vars
    OBVIOUS
  <2>1. CASE \E s \in Slots : Enter(s) \/ Proceed(s)
    BY <2>1, EnterAsked, ProceedAsked
  <2>2. CASE Crash
    <3>1. UNCHANGED <<group, members>> /\ \A s \in Slots : reqs'[s] = Idle
      BY <2>2 DEF Crash, db
    <3> QED BY <3>1, IdleFields DEF OneAcceptance, Complete, AskedFor
  <2>3. CASE UNCHANGED vars
    BY <2>3 DEF vars, db, OneAcceptance
  <2> QED BY <2>1, <2>2, <2>3 DEF Next, Done
<1>3. [AskedFor]_vars => [group' = "live" =>
        \A u \in members \ members' :
          \E s \in Slots : reqs[s].op \in {"kick", "leave"} /\ reqs[s].who = u]_vars
  BY DEF AskedFor
<1> QED BY <1>1, <1>2, <1>3, TypeCorrect, NothingSurvives, PTL
        DEF Spec, OnlyRemovedMembersVanish

-----------------------------------------------------------------------------
(***************************************************************************)
(* Deletions and acceptances.  For the promise that a deleted group stays  *)
(* deleted it is enough that these two exclude each other: an acceptance   *)
(* then finds the group it read when it saves, and never inserts it again. *)
(***************************************************************************)
Ending == {"accept", "disband"}

Steady(q, g) ==
  /\ q.at # "reinsert"
  /\ q.at \in {"saveRead", "saveWrite"} => q.op = "accept"
  /\ q.at = "saveRead" => g = "live"
  /\ q.at = "wipe" => q.op = "disband"

NoneRevives ==
  /\ \A s \in Slots : Steady(reqs[s], group)
  /\ \A s, t \in Slots : s # t /\ reqs[s].op \in Ending => reqs[t].op \notin Ending

(* What the property asks of a step.                                       *)
StaysGone == group = "gone" => group' = "gone"

(* A step of one request preserves the invariant if the request does, and  *)
(* if a group that it takes away is taken away by a deletion.              *)
LEMMA RevivingStep ==
  ASSUME TypeOK, NoneRevives, NEW s \in Slots, NEW q, reqs' = [reqs EXCEPT ![s] = q],
         \/ q.op = reqs[s].op
         \/ q.op \notin Ending
         \/ \A t \in Slots : reqs[t].op \notin Ending,
         \/ group = "live" => group' = "live"
         \/ reqs[s].op \in Ending,
         Steady(q, group')
  PROVE  NoneRevives'
<1>1. \A t \in Slots : reqs'[t] = IF t = s THEN q ELSE reqs[t]
  BY DEF TypeOK
<1>2. ASSUME NEW t \in Slots
      PROVE  Steady(reqs'[t], group')
  <2>1. CASE t = s
    BY <1>1, <2>1
  <2>2. CASE t # s /\ (group = "live" => group' = "live")
    BY <1>1, <2>2 DEF NoneRevives, Steady
  <2>3. CASE t # s /\ reqs[s].op \in Ending
    <3>1. reqs[t].at # "saveRead"
      BY <2>3 DEF NoneRevives, Steady, Ending
    <3> QED BY <1>1, <2>3, <3>1 DEF NoneRevives, Steady
  <2> QED BY <2>1, <2>2, <2>3
<1>3. ASSUME NEW t \in Slots, NEW v \in Slots, t # v, reqs'[t].op \in Ending
      PROVE  reqs'[v].op \notin Ending
  BY <1>1, <1>3 DEF NoneRevives
<1> QED BY <1>2, <1>3 DEF NoneRevives

(* An answer leaves the other requests as they were.                       *)
LEMMA RevivingAnswer ==
  ASSUME TypeOK, NoneRevives, NEW s \in Slots,
         Answer(s) \/ reqs' = [reqs EXCEPT ![s] = Idle],
         (group = "live" => group' = "live") \/ reqs[s].op \in Ending
  PROVE  NoneRevives'
<1>1. Steady(Idle, group') /\ Idle.op \notin Ending
  BY DEF Steady, Idle, Ending
<1> QED BY <1>1, RevivingStep DEF Answer, Continue

(* A request enters at a place where it relies on nothing yet.             *)
LEMMA EnterReviving ==
  ASSUME TypeOK, NoneRevives, Ending \subseteq Exclusive, NEW s \in Slots, Enter(s)
  PROVE  NoneRevives' /\ StaysGone
<1>1. ASSUME NEW op, NEW q, Receive(s, op, q), q.op = op, Steady(q, group'),
             group' = group \/ group = "unborn"
      PROVE  NoneRevives' /\ StaysGone
  <2>1. op \notin Ending \/ \A t \in Slots : reqs[t].op \notin Ending
    BY <1>1 DEF Receive
  <2>2. reqs' = [reqs EXCEPT ![s] = q] /\ (group = "live" => group' = "live")
    BY <1>1 DEF Receive
  <2>3. NoneRevives'
    BY <1>1, <2>1, <2>2, RevivingStep
  <2> QED BY <1>1, <2>3 DEF StaysGone
<1> USE DEF Idle, Steady
<1>2. ASSUME NEW u, NEW op, NEW F, NEW G, Found(s, u, op, F, G)
      PROVE  NoneRevives' /\ StaysGone
  BY <1>1, <1>2 DEF Found
<1>3. ASSUME NEW u, NEW G, AddMember(s, u, G)
      PROVE  NoneRevives' /\ StaysGone
  BY <1>1, <1>3 DEF AddMember, db
<1>4. ASSUME NEW u, NEW n, NEW op, UpdateInvitation(s, u, n, op)
      PROVE  NoneRevives' /\ StaysGone
  BY <1>1, <1>4 DEF UpdateInvitation, db
<1>5. ASSUME NEW u, NEW v, KickMember(s, u, v)
      PROVE  NoneRevives' /\ StaysGone
  BY <1>1, <1>5 DEF KickMember, db
<1>6. ASSUME NEW u, LeaveGroup(s, u)
      PROVE  NoneRevives' /\ StaysGone
  BY <1>1, <1>6 DEF LeaveGroup, db
<1>7. ASSUME NEW u, DeleteConversation(s, u)
      PROVE  NoneRevives' /\ StaysGone
  BY <1>1, <1>7 DEF DeleteConversation, db
<1>8. ASSUME NEW u, ReadAllGroup(s, u)
      PROVE  NoneRevives' /\ StaysGone
  BY <1>1, <1>8 DEF ReadAllGroup, db
<1>9. ASSUME NEW u, SendMessageGroup(s, u)
      PROVE  NoneRevives' /\ StaysGone
  BY <1>1, <1>9 DEF SendMessageGroup, db
<1>10. ASSUME NEW u, DeleteGroup(s, u)
       PROVE  NoneRevives' /\ StaysGone
  BY <1>1, <1>10 DEF DeleteGroup, db
<1> QED BY <1>2, <1>3, <1>4, <1>5, <1>6, <1>7, <1>8, <1>9, <1>10
        DEF Enter, CreateChatGroup, CreateChatGroup2

(* Only a deletion takes the group away, and nothing brings it back.       *)
LEMMA ProceedReviving ==
  ASSUME TypeOK, NoneRevives, NEW s \in Slots, Proceed(s)
  PROVE  NoneRevives' /\ StaysGone
<1> DEFINE r == reqs[s]
<1> USE DEF At
<1>a. r.at \in Places \/ r.missing # {} => r \in Request
  BY RequestFields
<1>b. Steady(r, group)
  BY DEF NoneRevives
<1>c. group' = group => StaysGone
  BY DEF StaysGone
<1>d. ASSUME NEW q, Continue(s, q), q.op = r.op, Steady(q, group'), group' = group
      PROVE  NoneRevives' /\ StaysGone
  BY <1>c, <1>d, RevivingStep DEF Continue
<1>e. ASSUME Answer(s) \/ reqs' = [reqs EXCEPT ![s] = Idle], group' = group
      PROVE  NoneRevives' /\ StaysGone
  BY <1>c, <1>e, RevivingAnswer
<1>f. UNCHANGED db => group' = group
  BY DEF db
<1>g. ASSUME NEW q, q.op = r.op, Continue(s, q), group' = group,
             \/ q.at \in {"conversations", "receivers", "notify", "store",
                          "findRow", "removeRow", "commit"}
             \/ q.at = r.at
      PROVE  NoneRevives' /\ StaysGone
  BY <1>b, <1>d, <1>g DEF Steady
<1>1. CASE \/ FoundersInformed(s) \/ CreateMultipleInvites(s) \/ ResetUnread(s)
           \/ CreateMessageInGroup(s)
  BY <1>1, <1>e, <1>f
     DEF FoundersInformed, CreateMultipleInvites, ResetUnread, CreateMessageInGroup
<1>2. ASSUME NEW u \in Users, FindConversation(s, u)
      PROVE  NoneRevives' /\ StaysGone
  <2>1. r \in Request /\ group' = group
    BY <1>2, <1>a, <1>f DEF FindConversation, Places
  <2>2. CASE Continue(s, [r EXCEPT !.todo = @ \ {u}, !.missing = @ \cup {u}])
    BY <2>1, <2>2, <1>g DEF Request
  <2>3. ASSUME NEW k, Continue(s, [r EXCEPT !.todo = @ \ {u}, !.rows = @ \cup {k}])
        PROVE  NoneRevives' /\ StaysGone
    BY <2>1, <2>3, <1>g DEF Request
  <2> QED BY <1>2, <2>2, <2>3 DEF FindConversation
<1>3. ASSUME NEW u \in Users, CreateConversation(s, u)
      PROVE  NoneRevives' /\ StaysGone
  <2>1. r \in Request /\ group' = group
    BY <1>3, <1>a DEF CreateConversation
  <2>2. ASSUME NEW k, Continue(s, [r EXCEPT !.missing = @ \ {u}, !.rows = @ \cup {k}])
        PROVE  NoneRevives' /\ StaysGone
    BY <2>1, <2>2, <1>g DEF Request
  <2> QED BY <1>3, <2>1, <2>2, <1>e DEF CreateConversation
<1>4. CASE MarkInvitation(s) \/ ReadReceivers(s) \/ IncrementUnread(s) \/ BeginRemoval(s)
  <2>1. r \in Request /\ group' = group
    BY <1>4, <1>a, <1>f
       DEF MarkInvitation, ReadReceivers, IncrementUnread, BeginRemoval, Places
  <2> QED BY <1>4, <2>1, <1>e, <1>g
          DEF MarkInvitation, ReadReceivers, IncrementUnread, BeginRemoval, Request
<1>5. CASE FindRemovedConversation(s) \/ RemoveRow(s) \/ CommitRemoval(s)
  <2>1. r \in Request /\ group' = group
    BY <1>5, <1>a DEF FindRemovedConversation, RemoveRow, CommitRemoval, Places
  <2> QED BY <1>5, <2>1, <1>e, <1>g
          DEF FindRemovedConversation, RemoveRow, CommitRemoval, Request
<1>6. CASE ReadMembers(s)
  <2> DEFINE q == [r EXCEPT !.at = "saveRead", !.rows = {}, !.seen = members]
  <2>1. r \in Request /\ r.op = "accept" /\ group' = group
    BY <1>6, <1>a, <1>f DEF ReadMembers, Places
  <2>2. q.at = "saveRead" /\ q.op = r.op
    BY <2>1 DEF Request
  <2>3. Live => Steady(q, group')
    BY <2>1, <2>2 DEF Steady, Live
  <2> QED BY <1>6, <2>1, <2>2, <2>3, <1>d, <1>e DEF ReadMembers
<1>7. CASE SaveRead(s)
  <2> DEFINE array == r.seen \cup {r.by}
  <2> DEFINE q == [r EXCEPT !.at = "saveWrite", !.seen = {}, !.add = array \ members,
                            !.drop = members \ array]
  <2>1. r \in Request /\ r.op = "accept" /\ Live /\ group' = group
    BY <1>7, <1>a, <1>b, <1>f DEF SaveRead, Places, Steady, Live
  <2>2. q.at = "saveWrite" /\ q.op = r.op
    BY <2>1 DEF Request
  <2>3. Steady(q, group')
    BY <2>1, <2>2 DEF Steady
  <2> QED BY <1>7, <2>1, <2>2, <2>3, <1>d DEF SaveRead
<1>8. CASE SaveWrite(s)
  <2>1. r \in Request /\ group' = group
    BY <1>8, <1>a DEF SaveWrite, Places
  <2> QED BY <1>8, <2>1, <1>e, <1>g DEF SaveWrite, Joined, Request
<1>9. ~Reinsert(s)
  BY <1>b DEF Steady, Reinsert
<1>10. CASE Wipe(s)
  <2>1. r.op \in Ending /\ Answer(s) /\ StaysGone
    BY <1>10, <1>b DEF Wipe, Steady, Ending, StaysGone, Live
  <2> QED BY <2>1, RevivingAnswer
<1> QED BY <1>1, <1>2, <1>3, <1>4, <1>5, <1>6, <1>7, <1>8, <1>9, <1>10 DEF Proceed

(* When acceptances and the deletion are handled one after the other, a    *)
(* deleted group does not come back, whatever kicks, leaves, messages and  *)
(* crashes overlap them (deleteGroup, and Repository.save in               *)
(* addMemberToGroup): their overlap is the only way to revive a group.     *)
THEOREM DeletedStaysDeleted ==
  ASSUME Ending \subseteq Exclusive
  PROVE  Spec => DisbandedForGood
<1>1. Init => NoneRevives
  BY DEF Init, NoneRevives, Steady, Idle, Ending
<1>2. TypeOK /\ NoneRevives /\ [Next]_vars => NoneRevives' /\ [StaysGone]_vars
  <2> SUFFICES ASSUME TypeOK, NoneRevives, [Next]_vars
               PROVE  NoneRevives' /\ [StaysGone]_vars
    OBVIOUS
  <2>1. CASE \E s \in Slots : Enter(s) \/ Proceed(s)
    BY <2>1, EnterReviving, ProceedReviving
  <2>2. CASE Crash
    BY <2>2 DEF Crash, db, NoneRevives, Steady, Idle, Ending, StaysGone
  <2>3. CASE UNCHANGED vars
    BY <2>3 DEF vars, db, NoneRevives
  <2> QED BY <2>1, <2>2, <2>3 DEF Next, Done
<1>3. [StaysGone]_vars => [group = "gone" => group' = "gone"]_vars
  BY DEF StaysGone
<1> QED BY <1>1, <1>2, <1>3, TypeCorrect, PTL DEF Spec, DisbandedForGood
-----------------------------------------------------------------------------
(***************************************************************************)
(* Conversations follow memberships, when the requests that insert         *)
(* conversation rows or change the members exclude each other.  Clearing   *)
(* and reading conversations, invitations and rejections may overlap them. *)
(***************************************************************************)
Keepers == Rewriters \cup {"create", "create2", "send"}

(* What a request may rely on, with M the members and D the rows:          *)
(*  - only a keeper is creating rows, and those it found missing still are; *)
(*  - it creates them for members, or for the user it is about to add;     *)
(*  - a removal leaves the removed user no row.                            *)
Tended(q, M, D) ==
  /\ q.todo # {} \/ q.missing # {} => q.at \in {"conversations", "receivers"}
  /\ q.at \in {"conversations", "receivers", "notify"} => q.op \in Keepers
  /\ \A k \in D : k[1] \notin q.missing
  /\ q.todo \cup q.missing \subseteq
       IF q.op = "accept" /\ q.at = "conversations" THEN {q.by} ELSE M
  /\ q.at = "removeRow" /\ q.op # "erase" => \A k \in D : k[1] = q.who => k \in q.rows
  /\ q.at = "commit" => \A k \in D : k[1] # q.who

Kept ==
  /\ OneConversationPerUser
  /\ \A s \in Slots : Tended(reqs[s], members, DOMAIN conversations)
  /\ \A s, t \in Slots : s # t /\ reqs[s].op \in Keepers => reqs[t].op \notin Keepers

(* The request will make u a member: its save cannot fail any more.        *)
Joining(q, u) ==
  q.op = "accept" /\ q.by = u /\ q.at \in {"conversations", "saveRead", "saveWrite"}

Followed ==
  \A k \in DOMAIN conversations :
    k[1] \in members \/ \E s \in Slots : Joining(reqs[s], k[1])

(* A step of one request preserves the invariant if the request does, and  *)
(* if it adds rows or changes the members only as the one keeper.          *)
LEMMA KeptStep ==
  ASSUME TypeOK, Orderly, Kept, NEW s \in Slots, NEW q, reqs' = [reqs EXCEPT ![s] = q],
         \/ q.op = reqs[s].op
         \/ q.op \notin Keepers
         \/ \A t \in Slots : reqs[t].op \notin Keepers,
         \/ members' = members /\ DOMAIN conversations' \subseteq DOMAIN conversations
         \/ reqs[s].op \in Keepers
         \/ \A t \in Slots : reqs[t].op \notin Keepers,
         Tended(q, members', DOMAIN conversations'), OneConversationPerUser'
  PROVE  Kept'
<1>1. \A t \in Slots : reqs'[t] = IF t = s THEN q ELSE reqs[t]
  BY DEF TypeOK
<1>2. ASSUME NEW t \in Slots
      PROVE  Tended(reqs'[t], members', DOMAIN conversations')
  <2>1. CASE t = s
    BY <1>1, <2>1
  <2>2. CASE t # s /\ members' = members /\ DOMAIN conversations' \subseteq DOMAIN conversations
    BY <1>1, <2>2 DEF Kept, Tended
  <2>3. CASE t # s /\ reqs[t].op \notin Keepers
    <3>1. reqs[t].at \notin {"conversations", "receivers", "notify", "commit"}
      BY <2>3 DEF Kept, Tended, Orderly, Current, Keepers, Rewriters
    <3>2. reqs[t].at = "removeRow" => reqs[t].op = "erase"
      BY <2>3 DEF Orderly, Current, Keepers, Rewriters
    <3>3. reqs[t].todo = {} /\ reqs[t].missing = {}
      BY <3>1 DEF Kept, Tended
    <3> QED BY <1>1, <2>3, <3>1, <3>2, <3>3 DEF Tended
  <2> QED BY <2>1, <2>2, <2>3 DEF Kept
<1>3. ASSUME NEW t \in Slots, NEW v \in Slots, t # v, reqs'[t].op \in Keepers
      PROVE  reqs'[v].op \notin Keepers
  BY <1>1, <1>3 DEF Kept
<1> QED BY <1>2, <1>3 DEF Kept

(* Fewer rows are still one for each user.                                 *)
LEMMA FewerRows ==
  ASSUME OneConversationPerUser, DOMAIN conversations' \subseteq DOMAIN conversations
  PROVE  OneConversationPerUser'
BY DEF OneConversationPerUser

(* An empty slot is tended, whatever there is.                             *)
LEMMA IdleTended ==
  ASSUME NEW M, NEW D
  PROVE  Tended(Idle, M, D) /\ Idle.op \notin Keepers
BY IdleFields DEF Tended, Keepers, Rewriters

(* An answer leaves the other requests as they were.                       *)
LEMMA KeptAnswer ==
  ASSUME TypeOK, Orderly, Kept, NEW s \in Slots,
         Answer(s) \/ reqs' = [reqs EXCEPT ![s] = Idle],
         DOMAIN conversations' \subseteq DOMAIN conversations,
         members' = members \/ reqs[s].op \in Keepers
  PROVE  Kept'
BY KeptStep, FewerRows, IdleTended DEF Answer, Continue, Kept

(* Rows go on following members when none is added and no member goes, and *)
(* the request does not give up an addition before it is made.             *)
LEMMA FollowedStep ==
  ASSUME TypeOK, Followed, NEW s \in Slots, NEW q, reqs' = [reqs EXCEPT ![s] = q],
         members \subseteq members',
         DOMAIN conversations' \subseteq DOMAIN conversations,
         \A u : Joining(reqs[s], u) => Joining(q, u) \/ u \in members'
  PROVE  Followed'
<1>1. \A t \in Slots : reqs'[t] = IF t = s THEN q ELSE reqs[t]
  BY DEF TypeOK
<1> QED BY <1>1 DEF Followed

(* Without the group there are no rows to follow anybody.                  *)
LEMMA NoneToFollow ==
  ASSUME DOMAIN conversations' = {}
  PROVE  Followed' /\ OneConversationPerUser'
BY DEF Followed, OneConversationPerUser

(* A request that enters is the only keeper, and adds no row.              *)
LEMMA EnterKept ==
  ASSUME TypeOK, NothingSurvivesTheGroup, Orderly, Kept, Keepers \subseteq Exclusive,
         NEW s \in Slots, Enter(s)
  PROVE  Kept' /\ (Followed => Followed')
<1>1. ASSUME NEW op, NEW q, Receive(s, op, q), q.op = op,
             Tended(q, members', DOMAIN conversations'),
             members' = members \/ op \in Keepers, UNCHANGED conversations
      PROVE  Kept'
  <2>1. op \notin Keepers \/ \A t \in Slots : reqs[t].op \notin Keepers
    BY <1>1 DEF Receive
  <2>2. OneConversationPerUser'
    BY <1>1, FewerRows DEF Kept
  <2> QED BY <1>1, <2>1, <2>2, KeptStep DEF Receive
<1>2. ASSUME NEW op, NEW q, Receive(s, op, q), UNCHANGED <<members, conversations>>
      PROVE  Followed => Followed'
  BY <1>2, FollowedStep, IdleFields DEF Receive, Joining
<1>3. UNCHANGED db => UNCHANGED <<members, conversations>>
  BY DEF db
<1>a. ASSUME NEW op, NEW q, Receive(s, op, q), UNCHANGED db, q.op = op,
             q.todo = {}, q.missing = {},
             \/ q.at \in {"invite", "mark", "txRead", "findRow", "reset", "wipe"}
             \/ q.at = "removeRow" /\ op = "erase"
      PROVE  Kept' /\ (Followed => Followed')
  <2>1. Tended(q, members', DOMAIN conversations')
    BY <1>a DEF Tended
  <2> QED BY <1>1, <1>2, <1>3, <1>a, <2>1
<1> USE DEF Idle
<1>4. ASSUME NEW u \in Users, NEW op \in {"create", "create2"}, NEW F, NEW G,
             Found(s, u, op, F, G)
      PROVE  Kept' /\ (Followed => Followed')
  <2>1. DOMAIN conversations' = {}
    BY <1>4 DEF Found, NothingSurvivesTheGroup, Live
  <2> QED BY <1>1, <1>4, <2>1, NoneToFollow DEF Found, Keepers, Tended
<1>5. ASSUME NEW u, NEW G, AddMember(s, u, G)
      PROVE  Kept' /\ (Followed => Followed')
  BY <1>5, <1>a DEF AddMember
<1>6. ASSUME NEW u, NEW n, NEW op, UpdateInvitation(s, u, n, op)
      PROVE  Kept' /\ (Followed => Followed')
  BY <1>6, <1>a DEF UpdateInvitation
<1>7. ASSUME NEW u, NEW v, KickMember(s, u, v)
      PROVE  Kept' /\ (Followed => Followed')
  BY <1>7, <1>a DEF KickMember
<1>8. ASSUME NEW u, LeaveGroup(s, u)
      PROVE  Kept' /\ (Followed => Followed')
  BY <1>8, <1>a DEF LeaveGroup
<1>9. ASSUME NEW u, DeleteConversation(s, u)
      PROVE  Kept' /\ (Followed => Followed')
  BY <1>9, <1>a DEF DeleteConversation
<1>10. ASSUME NEW u, ReadAllGroup(s, u)
       PROVE  Kept' /\ (Followed => Followed')
  BY <1>10, <1>a DEF ReadAllGroup
<1>11. ASSUME NEW u, SendMessageGroup(s, u)
       PROVE  Kept' /\ (Followed => Followed')
  <2> DEFINE q == [Idle EXCEPT !.op = "send", !.at = "receivers", !.by = u, !.todo = members \ {u}]
  <2>1. Receive(s, "send", q) /\ UNCHANGED <<members, conversations>>
    BY <1>3, <1>11 DEF SendMessageGroup
  <2>2. q.op = "send" /\ q.at = "receivers" /\ q.todo = members \ {u} /\ q.missing = {}
    OBVIOUS
  <2>3. Tended(q, members', DOMAIN conversations')
    BY <2>1, <2>2 DEF Tended, Keepers
  <2> HIDE DEF q
  <2> QED BY <1>1, <1>2, <2>1, <2>2, <2>3
<1>12. ASSUME NEW u, DeleteGroup(s, u)
       PROVE  Kept' /\ (Followed => Followed')
  BY <1>12, <1>a DEF DeleteGroup
<1> QED BY <1>4, <1>5, <1>6, <1>7, <1>8, <1>9, <1>10, <1>11, <1>12
        DEF Enter, CreateChatGroup, CreateChatGroup2

(* The later steps.                                                        *)
LEMMA ProceedKept ==
  ASSUME TypeOK, NothingSurvivesTheGroup, Orderly, Kept, NEW s \in Slots, Proceed(s)
  PROVE  Kept' /\ (Followed => Followed')
<1> DEFINE r == reqs[s]
<1> USE DEF At
<1>a. r.at \in Places \/ r.missing # {} => r \in Request
  BY RequestFields
<1>b. Current(r, group, members) /\ Tended(r, members, DOMAIN conversations)
  BY DEF Orderly, Kept
<1>c. ~Live => DOMAIN conversations = {}
  BY DEF NothingSurvivesTheGroup
<1>d. UNCHANGED db => UNCHANGED <<members, conversations>>
  BY DEF db
<1>e. ASSUME NEW q, Continue(s, q), q.op = r.op,
             Tended(q, members', DOMAIN conversations'),
             DOMAIN conversations' \subseteq DOMAIN conversations,
             members' = members \/ r.op \in Keepers
      PROVE  Kept'
  BY <1>e, KeptStep, FewerRows DEF Continue, Kept
<1>f. ASSUME Answer(s) \/ reqs' = [reqs EXCEPT ![s] = Idle], members' = members,
             DOMAIN conversations' \subseteq DOMAIN conversations,
             DOMAIN conversations' # {} =>
               r.op # "accept" \/ r.by \in members \/ r.at \notin {"conversations", "saveRead", "saveWrite"}
      PROVE  Kept' /\ (Followed => Followed')
  <2>1. DOMAIN conversations' # {} /\ Followed => Followed'
    BY <1>f, FollowedStep DEF Answer, Continue, Joining
  <2> QED BY <1>f, <2>1, KeptAnswer, NoneToFollow
<1>g. ASSUME NEW q, Continue(s, q), UNCHANGED members,
             DOMAIN conversations' \subseteq DOMAIN conversations,
             \A u : Joining(r, u) => Joining(q, u)
      PROVE  Followed => Followed'
  BY <1>g, FollowedStep DEF Continue
<1>1. CASE FoundersInformed(s) \/ CreateMultipleInvites(s) \/ ResetUnread(s)
           \/ CreateMessageInGroup(s)
  <2>1. /\ DOMAIN conversations' = DOMAIN conversations /\ members' = members
        /\ Answer(s) \/ reqs' = [reqs EXCEPT ![s] = Idle]
    BY <1>1, <1>d DEF FoundersInformed, CreateMultipleInvites, ResetUnread, CreateMessageInGroup
  <2>2. r.op # "accept" \/ r.at \notin {"conversations", "saveRead", "saveWrite"}
    BY <1>1 DEF FoundersInformed, CreateMultipleInvites, ResetUnread, CreateMessageInGroup
  <2> QED BY <2>1, <2>2, <1>f
<1>2. ASSUME NEW u \in Users, FindConversation(s, u)
      PROVE  Kept' /\ (Followed => Followed')
  <2>1. r \in Request /\ UNCHANGED <<members, conversations>>
    BY <1>2, <1>a, <1>d DEF FindConversation, Places
  <2>2. CASE RowsOf(conversations, u) = {} /\
             Continue(s, [r EXCEPT !.todo = @ \ {u}, !.missing = @ \cup {u}])
    <3> DEFINE q == [r EXCEPT !.todo = @ \ {u}, !.missing = @ \cup {u}]
    <3>1. /\ q.op = r.op /\ q.at = r.at /\ q.by = r.by /\ q.rows = r.rows /\ q.who = r.who
          /\ q.todo = r.todo \ {u} /\ q.missing = r.missing \cup {u}
      BY <2>1 DEF Request
    <3>2. \A k \in DOMAIN conversations : k[1] # u
      BY <2>2 DEF RowsOf
    <3>3. Tended(q, members', DOMAIN conversations')
      BY <1>2, <1>b, <2>1, <3>1, <3>2 DEF Tended, FindConversation
    <3>4. \A v : Joining(r, v) => Joining(q, v)
      BY <3>1 DEF Joining
    <3> HIDE DEF q
    <3> QED BY <2>1, <2>2, <3>1, <3>3, <3>4, <1>e, <1>g DEF q
  <2>3. ASSUME NEW k, Continue(s, [r EXCEPT !.todo = @ \ {u}, !.rows = @ \cup {k}])
        PROVE  Kept' /\ (Followed => Followed')
    <3> DEFINE q == [r EXCEPT !.todo = @ \ {u}, !.rows = @ \cup {k}]
    <3>1. /\ q.op = r.op /\ q.at = r.at /\ q.by = r.by /\ q.who = r.who
          /\ q.todo = r.todo \ {u} /\ q.missing = r.missing
      BY <2>1 DEF Request
    <3>2. r.at \in {"conversations", "receivers"}
      BY <1>2 DEF FindConversation
    <3>3. Tended(q, members', DOMAIN conversations')
      BY <1>b, <2>1, <3>1, <3>2 DEF Tended
    <3>4. \A v : Joining(r, v) => Joining(q, v)
      BY <3>1 DEF Joining
    <3> HIDE DEF q
    <3> QED BY <2>1, <2>3, <3>1, <3>3, <3>4, <1>e, <1>g DEF q
  <2> QED BY <1>2, <2>2, <2>3 DEF FindConversation
<1>3. ASSUME NEW u \in Users, CreateConversation(s, u)
      PROVE  Kept' /\ (Followed => Followed')
  <2>1. r \in Request /\ members' = members /\ u \in r.missing
    BY <1>3, <1>a DEF CreateConversation
  <2>2. CASE ~Live
    BY <1>3, <2>1, <2>2, <1>c, <1>f DEF CreateConversation
  <2>3. CASE Live
    <3>1. PICK k \in {u} \X (1 .. MaxRows) :
            /\ conversations' = Insert(conversations, k, 0)
            /\ Continue(s, [r EXCEPT !.missing = @ \ {u}, !.rows = @ \cup {k}])
      BY <1>3, <2>3 DEF CreateConversation
    <3> DEFINE q == [r EXCEPT !.missing = @ \ {u}, !.rows = @ \cup {k}]
    <3>2. DOMAIN conversations' = DOMAIN conversations \cup {k} /\ k[1] = u
      BY <3>1 DEF Insert
    <3>3. /\ q.op = r.op /\ q.at = r.at /\ q.by = r.by /\ q.who = r.who
          /\ q.todo = r.todo /\ q.missing = r.missing \ {u}
      BY <2>1 DEF Request
    <3>4. r.at \in {"conversations", "receivers"} /\ r.op \in Keepers
      BY <1>b, <2>1 DEF Tended
    <3>5. \A j \in DOMAIN conversations : j[1] # u
      BY <1>b, <2>1 DEF Tended
    <3>6. Tended(q, members', DOMAIN conversations')
      BY <1>b, <2>1, <3>2, <3>3, <3>4 DEF Tended
    <3>7. OneConversationPerUser'
      BY <3>2, <3>5 DEF Kept, OneConversationPerUser
    <3>8. Kept'
      BY <3>1, <3>3, <3>4, <3>6, <3>7, KeptStep DEF Continue
    <3>9. ASSUME Followed
          PROVE  Followed'
      <4>1. \A t \in Slots : reqs'[t] = IF t = s THEN q ELSE reqs[t]
        BY <3>1 DEF Continue, TypeOK
      <4>2. \A t \in Slots : \A v : Joining(reqs[t], v) => Joining(reqs'[t], v)
        BY <3>3, <4>1 DEF Joining
      <4>3. u \in members \/ Joining(r, u)
        BY <1>b, <2>1, <3>4 DEF Tended, Joining
      <4> QED BY <2>1, <3>2, <3>9, <4>2, <4>3 DEF Followed
    <3> QED BY <3>8, <3>9
  <2> QED BY <2>2, <2>3
<1>4. CASE MarkInvitation(s)
  <2>1. r \in Request /\ UNCHANGED <<members, conversations>> /\ r.at = "mark"
    BY <1>4, <1>a DEF MarkInvitation, Places
  <2>2. CASE Live /\ r.op = "accept"
    <3> DEFINE q == [r EXCEPT !.at = "conversations", !.inv = {}, !.todo = {r.by}]
    <3>1. /\ q.op = r.op /\ q.at = "conversations" /\ q.by = r.by
          /\ q.todo = {r.by} /\ q.missing = r.missing /\ r.missing = {}
      BY <1>b, <2>1 DEF Request, Tended
    <3>2. Tended(q, members', DOMAIN conversations')
      BY <2>2, <3>1 DEF Tended, Keepers, Rewriters
    <3>3. Continue(s, q)
      BY <1>4, <2>2 DEF MarkInvitation
    <3>4. \A v : ~Joining(r, v)
      BY <2>1 DEF Joining
    <3> HIDE DEF q
    <3> QED BY <2>1, <3>1, <3>2, <3>3, <3>4, <1>e, <1>g
  <2>3. CASE ~(Live /\ r.op = "accept")
    BY <1>4, <2>1, <2>3, <1>f DEF MarkInvitation
  <2> QED BY <2>2, <2>3
<1>5. CASE ReadMembers(s)
  <2>1. /\ r \in Request /\ UNCHANGED <<members, conversations>> /\ r.op = "accept"
        /\ r.todo = {} /\ r.missing = {}
    BY <1>5, <1>a, <1>d DEF ReadMembers, Places, Settled
  <2>2. CASE Live /\ r.by \notin members
    <3> DEFINE q == [r EXCEPT !.at = "saveRead", !.rows = {}, !.seen = members]
    <3>1. /\ q.op = r.op /\ q.at = "saveRead" /\ q.by = r.by
          /\ q.todo = {} /\ q.missing = {}
      BY <2>1 DEF Request
    <3>2. Tended(q, members', DOMAIN conversations')
      BY <3>1 DEF Tended
    <3>3. Continue(s, q)
      BY <1>5, <2>2 DEF ReadMembers
    <3>4. \A v : Joining(r, v) => Joining(q, v)
      BY <3>1 DEF Joining
    <3> HIDE DEF q
    <3> QED BY <2>1, <3>1, <3>2, <3>3, <3>4, <1>e, <1>g
  <2>3. CASE ~(Live /\ r.by \notin members)
    BY <1>5, <2>1, <2>3, <1>c, <1>f DEF ReadMembers
  <2> QED BY <2>2, <2>3
<1>6. CASE SaveRead(s)
  <2>1. /\ r \in Request /\ UNCHANGED <<members, conversations>> /\ r.op = "accept" /\ Live
        /\ r.todo = {} /\ r.missing = {}
    BY <1>6, <1>a, <1>b, <1>d DEF SaveRead, Places, Current, Live, Tended
  <2> DEFINE array == r.seen \cup {r.by}
  <2> DEFINE q == [r EXCEPT !.at = "saveWrite", !.seen = {}, !.add = array \ members,
                            !.drop = members \ array]
  <2>2. /\ q.op = r.op /\ q.at = "saveWrite" /\ q.by = r.by
        /\ q.todo = {} /\ q.missing = {}
    BY <2>1 DEF Request
  <2>3. Tended(q, members', DOMAIN conversations')
    BY <2>2 DEF Tended
  <2>4. Continue(s, q)
    BY <1>6, <2>1 DEF SaveRead
  <2>5. \A v : Joining(r, v) => Joining(q, v)
    BY <2>2 DEF Joining
  <2> HIDE DEF q
  <2> QED BY <2>1, <2>2, <2>3, <2>4, <2>5, <1>e, <1>g
<1>7. CASE SaveWrite(s)
  <2>1. /\ r \in Request /\ r.op = "accept" /\ r.add = {r.by} /\ r.drop = {}
        /\ r.by \notin members /\ Live /\ r.todo = {} /\ r.missing = {}
    BY <1>7, <1>a, <1>b DEF SaveWrite, Places, Current, Live, Tended
  <2> DEFINE q == [r EXCEPT !.at = "notify", !.add = {}, !.drop = {}]
  <2>2. members' = members \cup {r.by} /\ UNCHANGED conversations /\ Continue(s, q)
    BY <1>7, <2>1 DEF SaveWrite, Joined
  <2>3. q.op = r.op /\ q.at = "notify" /\ q.by = r.by /\ q.todo = {} /\ q.missing = {}
    BY <2>1 DEF Request
  <2>4. r.op \in Keepers /\ Tended(q, members', DOMAIN conversations')
    BY <2>1, <2>3 DEF Tended, Keepers, Rewriters
  <2>5. \A v : Joining(r, v) => v \in members'
    BY <2>2 DEF Joining
  <2> HIDE DEF q
  <2>6. Kept'
    BY <2>2, <2>3, <2>4, <1>e
  <2>7. Followed => Followed'
    BY <2>2, <2>5, FollowedStep DEF Continue
  <2> QED BY <2>6, <2>7
<1>8. ~Reinsert(s)
  BY <1>b DEF Current, Reinsert
<1>9. CASE BeginRemoval(s)
  <2>1. /\ r \in Request /\ UNCHANGED <<members, conversations>> /\ r.at = "txRead"
        /\ r.todo = {} /\ r.missing = {}
    BY <1>9, <1>a, <1>b, <1>d DEF BeginRemoval, Places, Tended
  <2> DEFINE q == [r EXCEPT !.at = "findRow"]
  <2>2. q.op = r.op /\ q.at = "findRow" /\ q.todo = {} /\ q.missing = {}
    BY <2>1 DEF Request
  <2>3. Tended(q, members', DOMAIN conversations')
    BY <2>2 DEF Tended
  <2>4. \A v : ~Joining(r, v)
    BY <2>1 DEF Joining
  <2> HIDE DEF q
  <2> QED BY <1>9, <2>1, <2>2, <2>3, <2>4, <1>e, <1>f, <1>g DEF BeginRemoval, q
<1>h. ASSUME r.op \in {"kick", "leave"}, members \ {r.who} \subseteq members',
             UNCHANGED conversations, \A k \in DOMAIN conversations : k[1] # r.who,
             NEW q, Continue(s, q)
      PROVE  Followed => Followed'
  <2>1. \A t \in Slots : reqs'[t] = IF t = s THEN q ELSE reqs[t]
    BY <1>h DEF Continue, TypeOK
  <2>2. \A v : ~Joining(r, v)
    BY <1>h DEF Joining
  <2> QED BY <1>h, <2>1, <2>2 DEF Followed
<1>10. CASE FindRemovedConversation(s)
  <2>1. /\ r \in Request /\ r.op \in {"kick", "leave"} /\ UNCHANGED conversations
        /\ r.at = "findRow" /\ r.todo = {} /\ r.missing = {}
    BY <1>10, <1>a, <1>b DEF FindRemovedConversation, Places, Current, Tended
  <2>2. ASSUME NEW k \in RowsOf(conversations, r.who), UNCHANGED members,
               Continue(s, [r EXCEPT !.at = "removeRow", !.rows = {k}])
        PROVE  Kept' /\ (Followed => Followed')
    <3> DEFINE q == [r EXCEPT !.at = "removeRow", !.rows = {k}]
    <3>1. /\ q.op = r.op /\ q.at = "removeRow" /\ q.rows = {k} /\ q.who = r.who
          /\ q.todo = {} /\ q.missing = {}
      BY <2>1 DEF Request
    <3>2. \A j \in DOMAIN conversations : j[1] = r.who => j = k
      BY <2>2 DEF Kept, OneConversationPerUser, RowsOf
    <3>3. Tended(q, members', DOMAIN conversations')
      BY <2>1, <3>1, <3>2 DEF Tended
    <3>4. \A v : ~Joining(r, v)
      BY <2>1 DEF Joining
    <3> HIDE DEF q
    <3> QED BY <2>1, <2>2, <3>1, <3>3, <3>4, <1>e, <1>g DEF q
  <2>3. CASE RowsOf(conversations, r.who) = {}
    <3>1. members' \in {members, members \ {r.who}} /\ Answer(s)
      BY <1>10, <2>3 DEF FindRemovedConversation
    <3>2. \A k \in DOMAIN conversations : k[1] # r.who
      BY <2>3 DEF RowsOf
    <3>3. Kept'
      BY <2>1, <3>1, KeptAnswer DEF Keepers, Rewriters
    <3>4. Followed => Followed'
      BY <2>1, <3>1, <3>2, <1>h DEF Answer
    <3> QED BY <3>3, <3>4
  <2> QED BY <1>10, <2>2, <2>3 DEF FindRemovedConversation
<1>11. CASE RemoveRow(s)
  <2>1. /\ r \in Request /\ r.op \in {"kick", "leave", "erase"} /\ members' = members
        /\ r.at = "removeRow" /\ r.todo = {} /\ r.missing = {}
    BY <1>11, <1>a, <1>b DEF RemoveRow, Places, Current, Tended
  <2>2. DOMAIN conversations' = DOMAIN conversations \ r.rows
    BY <1>11 DEF RemoveRow, Without
  <2>3. CASE r.op = "erase"
    BY <1>11, <2>1, <2>2, <2>3, <1>f DEF RemoveRow
  <2>4. CASE r.op # "erase"
    <3> DEFINE q == [r EXCEPT !.at = "commit", !.rows = {}]
    <3>1. /\ q.op = r.op /\ q.at = "commit" /\ q.who = r.who
          /\ q.todo = {} /\ q.missing = {}
      BY <2>1 DEF Request
    <3>2. Tended(q, members', DOMAIN conversations')
      BY <1>b, <2>1, <2>2, <2>4, <3>1 DEF Tended
    <3>3. Continue(s, q)
      BY <1>11, <2>4 DEF RemoveRow
    <3>4. \A v : ~Joining(r, v)
      BY <2>1 DEF Joining
    <3> HIDE DEF q
    <3> QED BY <2>1, <2>2, <3>1, <3>2, <3>3, <3>4, <1>e, <1>g
  <2> QED BY <2>3, <2>4
<1>12. CASE CommitRemoval(s)
  <2>1. /\ r \in Request /\ r.op \in {"kick", "leave"} /\ UNCHANGED conversations
        /\ r.todo = {} /\ r.missing = {} /\ members' = members \ {r.who}
        /\ \A k \in DOMAIN conversations : k[1] # r.who
    BY <1>12, <1>a, <1>b DEF CommitRemoval, Places, Current, Tended
  <2> DEFINE q == [r EXCEPT !.at = "notify", !.who = NoUser]
  <2>2. q.op = r.op /\ q.at = "notify" /\ q.todo = {} /\ q.missing = {}
    BY <2>1 DEF Request
  <2>3. r.op \in Keepers /\ Tended(q, members', DOMAIN conversations') /\ Continue(s, q)
    BY <1>12, <2>1, <2>2 DEF Tended, Keepers, Rewriters, CommitRemoval
  <2> HIDE DEF q
  <2> QED BY <2>1, <2>2, <2>3, <1>e, <1>h
<1>13. CASE ReadReceivers(s)
  <2>1. /\ r \in Request /\ UNCHANGED <<members, conversations>> /\ r.at = "notify"
        /\ r.op \in Keepers /\ r.todo = {} /\ r.missing = {}
    BY <1>13, <1>a, <1>b, <1>d DEF ReadReceivers, Places, Tended
  <2> DEFINE q == [r EXCEPT !.at = "receivers", !.todo = members \ {r.by}]
  <2>2. q.op = r.op /\ q.at = "receivers" /\ q.todo = members \ {r.by} /\ q.missing = {}
    BY <2>1 DEF Request
  <2>3. Tended(q, members', DOMAIN conversations')
    BY <2>1, <2>2 DEF Tended
  <2>4. \A v : ~Joining(r, v)
    BY <2>1 DEF Joining
  <2> HIDE DEF q
  <2> QED BY <1>13, <2>1, <2>2, <2>3, <2>4, <1>e, <1>f, <1>g DEF ReadReceivers, q
<1>14. CASE IncrementUnread(s)
  <2>1. /\ r \in Request /\ members' = members /\ r.at = "receivers"
        /\ DOMAIN conversations' = DOMAIN conversations
        /\ r.todo = {} /\ r.missing = {}
    BY <1>14, <1>a DEF IncrementUnread, Places, Settled
  <2> DEFINE q == [r EXCEPT !.at = "store", !.rows = {}]
  <2>2. q.op = r.op /\ q.at = "store" /\ q.todo = {} /\ q.missing = {}
    BY <2>1 DEF Request
  <2>3. Tended(q, members', DOMAIN conversations') /\ Continue(s, q)
    BY <1>14, <2>2 DEF Tended, IncrementUnread
  <2>4. \A v : ~Joining(r, v)
    BY <2>1 DEF Joining
  <2> HIDE DEF q
  <2> QED BY <2>1, <2>2, <2>3, <2>4, <1>e, <1>g
<1>15. CASE Wipe(s)
  <2>1. r.op \in Keepers /\ Answer(s)
    BY <1>15, <1>b DEF Wipe, Current, Keepers, Rewriters
  <2>2. DOMAIN conversations' = {}
    BY <1>15, <1>c DEF Wipe
  <2> QED BY <2>1, <2>2, KeptAnswer, NoneToFollow
<1> QED BY <1>1, <1>2, <1>3, <1>4, <1>5, <1>6, <1>7, <1>8, <1>9, <1>10, <1>11, <1>12, <1>13,
           <1>14, <1>15 DEF Proceed

(* Every step, a stop of the process included.                             *)
LEMMA KeptInductive ==
  ASSUME Keepers \subseteq Exclusive, TypeOK, NothingSurvivesTheGroup, Orderly, Kept, [Next]_vars
  PROVE  Kept' /\ ("crash" \notin Ops /\ Followed => Followed')
<1>1. CASE \E s \in Slots : Enter(s) \/ Proceed(s)
  BY <1>1, EnterKept, ProceedKept
<1>2. CASE Crash
  <2>1. UNCHANGED <<members, conversations>> /\ \A s \in Slots : reqs'[s] = Idle
    BY <1>2 DEF Crash, db
  <2>2. OneConversationPerUser'
    BY <2>1, FewerRows DEF Kept
  <2>3. Kept'
    BY <2>1, <2>2, IdleTended DEF Kept
  <2> QED BY <1>2, <2>3 DEF Crash
<1>3. CASE UNCHANGED vars
  BY <1>3 DEF vars, db, Kept, OneConversationPerUser, Followed
<1> QED BY <1>1, <1>2, <1>3 DEF Next, Done

(* When the requests that insert rows or change members exclude each other,*)
(* findAndCreate leaves nobody two rows, wherever the process stops.       *)
THEOREM OneConversationEach ==
  ASSUME Keepers \subseteq Exclusive
  PROVE  Spec => []OneConversationPerUser
<1>0. Init => Orderly /\ Admission /\ TypeOK
  BY DEF Init, Orderly, Current, Idle, Rewriters, Admission, AdmittedRequest, TypeOK
<1>1. Init => Kept
  BY IdleTended DEF Init, Kept, OneConversationPerUser
<1>2. TypeOK /\ Admission /\ Orderly /\ [Next]_vars => Orderly'
  BY OrderlyStepping DEF Keepers
<1>3. TypeOK /\ Admission /\ [Next]_vars => TypeOK' /\ Admission'
  BY TypeStep, AdmissionInductive
<1>4. TypeOK /\ NothingSurvivesTheGroup /\ Orderly /\ Kept /\ [Next]_vars => Kept'
  BY KeptInductive
<1>5. Kept => OneConversationPerUser
  BY DEF Kept
<1> QED BY <1>0, <1>1, <1>2, <1>3, <1>4, <1>5, NothingSurvives, PTL DEF Spec

(* Moreover, as long as the process does not stop, whoever sees the group  *)
(* in the list of conversations is a member, or is about to become one     *)
(* (acceptInvitation, deleteMemberFromGroup, findAndCreate).               *)
THEOREM ConversationsFollowMembers ==
  ASSUME Keepers \subseteq Exclusive, "crash" \notin Ops
  PROVE  Spec => []OnlyMembersHaveConversations
<1>0. Init => Orderly /\ Admission /\ TypeOK
  BY DEF Init, Orderly, Current, Idle, Rewriters, Admission, AdmittedRequest, TypeOK
<1>1. Init => Kept /\ Followed
  BY IdleTended DEF Init, Kept, OneConversationPerUser, Followed
<1>2. TypeOK /\ Admission /\ Orderly /\ [Next]_vars => Orderly'
  BY OrderlyStepping DEF Keepers
<1>3. TypeOK /\ Admission /\ [Next]_vars => TypeOK' /\ Admission'
  BY TypeStep, AdmissionInductive
<1>4. TypeOK /\ NothingSurvivesTheGroup /\ Orderly /\ Kept /\ Followed /\ [Next]_vars =>
        Kept' /\ Followed'
  BY KeptInductive
<1>5. Followed => OnlyMembersHaveConversations
  BY IdleFields DEF Followed, OnlyMembersHaveConversations, Joining
<1> QED BY <1>0, <1>1, <1>2, <1>3, <1>4, <1>5, NothingSurvives, PTL DEF Spec
=============================================================================
