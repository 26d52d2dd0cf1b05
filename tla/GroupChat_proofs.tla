-------------------------- MODULE GroupChat_proofs --------------------------
(***************************************************************************)
(* Theorems about GroupChat, for any number of users, of overlapping       *)
(* requests and of rows: the types, that nobody is a member without having *)
(* been admitted, that nothing survives a deleted group, and that counters *)
(* announce no more than was said, crashes included.                       *)
(***************************************************************************)
EXTENDS GroupChat, FiniteSetTheorems, TLAPS

-----------------------------------------------------------------------------
(***************************************************************************)
(* Types.  Every step writes a well-formed request into one slot, and each *)
(* of the two partial functions changes by an insertion, a restriction or  *)
(* a pointwise update.                                                     *)
(***************************************************************************)
(* The fields of an empty slot, which a handler starts from.               *)
LEMMA IdleFields ==
  /\ Idle.at = "idle" /\ Idle.op = "none" /\ Idle.missing = {}
  /\ Idle.who \in Users \cup {NoUser} /\ Idle.inv = {}
  /\ Idle.seen = {} /\ Idle.add = {} /\ Idle.drop = {}
  /\ Idle.guests = {} /\ Idle.todo = {} /\ Idle.rows = {}
BY DEF Idle

(* Writing a request into a slot keeps the table of requests well formed.  *)
LEMMA SlotType ==
  ASSUME TypeOK, NEW s \in Slots, NEW r \in Request \cup {Idle}, reqs' = [reqs EXCEPT ![s] = r]
  PROVE  reqs' \in [Slots -> Request \cup {Idle}]
BY DEF TypeOK

(* The request of a handler that stands somewhere is a request.            *)
LEMMA RequestFields ==
  ASSUME TypeOK, NEW s \in Slots, reqs[s].at \in Places \/ reqs[s].missing # {}
  PROVE  reqs[s] \in Request
BY IdleFields DEF TypeOK, Places

(* A request received by Enter takes the table of requests to a well-formed*)
(* one.                                                                    *)
LEMMA ReceiveType ==
  ASSUME TypeOK, NEW s \in Slots, NEW op, NEW r \in Request \cup {Idle}, Receive(s, op, r)
  PROVE  reqs' \in [Slots -> Request \cup {Idle}] /\ started' \in Nat /\ lost' \in Nat
BY SlotType DEF Receive, TypeOK

(* Going on with a well-formed request keeps the table well formed.        *)
LEMMA ContinueType ==
  ASSUME TypeOK, NEW s \in Slots, NEW r \in Request \cup {Idle}, Continue(s, r)
  PROVE  reqs' \in [Slots -> Request \cup {Idle}] /\ started' \in Nat /\ lost' \in Nat
BY SlotType DEF Continue, TypeOK

(* So does the answer, which empties the slot.                             *)
LEMMA AnswerType ==
  ASSUME TypeOK, NEW s \in Slots, Answer(s)
  PROVE  reqs' \in [Slots -> Request \cup {Idle}] /\ started' \in Nat /\ lost' \in Nat
BY ContinueType DEF Answer

(* Conversation rows keep natural counters under the four ways the         *)
(* handlers change them.                                                   *)
ConversationsOK(table) ==
  /\ DOMAIN table \in SUBSET Keys
  /\ table \in [DOMAIN table -> Nat]

(* Inserting a conversation row with a counter.                            *)
LEMMA InsertedConversation ==
  ASSUME TypeOK, NEW k \in Keys
  PROVE  ConversationsOK(Insert(conversations, k, 0))
BY DEF TypeOK, ConversationsOK, Insert

(* Deleting conversation rows.                                             *)
LEMMA RemovedConversation ==
  ASSUME TypeOK, NEW S
  PROVE  ConversationsOK(Without(conversations, S))
BY DEF TypeOK, ConversationsOK, Without

(* Invitations likewise.                                                   *)
InvitationsOK(table) ==
  /\ DOMAIN table \in SUBSET Keys
  /\ table \in [DOMAIN table -> Statuses]

(* createMultipleInvites only adds rows of the table.                      *)
LEMMA InvitedType ==
  ASSUME TypeOK, NEW G \in SUBSET Users
  PROVE  InvitationsOK(Invited(G))
BY DEF TypeOK, InvitationsOK, Invited, Statuses

(* Entering a handler preserves the types.                                 *)
LEMMA EnterType ==
  ASSUME TypeOK, NEW s \in Slots, Enter(s)
  PROVE  TypeOK'
<1> USE DEF Kinds, Places
<1>1. PICK u \in Users : \/ \E G \in SUBSET Users : CreateChatGroup(s, u, G)
                         \/ \E F \in SUBSET Users : CreateChatGroup2(s, u, F)
                         \/ \E G \in (SUBSET Users) \ {{}} : AddMember(s, u, G)
                         \/ \E n \in 1 .. MaxRows, op \in {"accept", "reject"} :
                               UpdateInvitation(s, u, n, op)
                         \/ \E v \in Users : KickMember(s, u, v)
                         \/ LeaveGroup(s, u)
                         \/ DeleteConversation(s, u)
                         \/ ReadAllGroup(s, u)
                         \/ SendMessageGroup(s, u)
                         \/ DeleteGroup(s, u)
  BY DEF Enter
<1>2. ASSUME UNCHANGED db, reqs' \in [Slots -> Request \cup {Idle}], started' \in Nat, lost' \in Nat
      PROVE  TypeOK'
  <2>1. /\ group' = group /\ manager' = manager /\ members' = members
        /\ invitations' = invitations /\ conversations' = conversations
        /\ messages' = messages /\ admitted' = admitted
    BY <1>2 DEF db
  <2> QED BY <1>2, <2>1 DEF TypeOK
<1>3. ASSUME NEW op \in {"create", "create2"}, NEW F \in SUBSET Users, NEW G \in SUBSET Users,
             Found(s, u, op, F, G)
      PROVE  TypeOK'
  <2>1. [Idle EXCEPT !.op = op, !.at = "conversations", !.by = u, !.todo = F, !.guests = G]
          \in Request
    BY DEF Idle, Request
  <2>2. reqs' \in [Slots -> Request \cup {Idle}] /\ started' \in Nat /\ lost' \in Nat
    BY <1>3, <2>1, ReceiveType DEF Found
  <2> QED BY <1>3, <2>2 DEF Found, TypeOK
<1>4. CASE \E G \in SUBSET Users : CreateChatGroup(s, u, G)
  BY <1>3, <1>4 DEF CreateChatGroup
<1>5. CASE \E F \in SUBSET Users : CreateChatGroup2(s, u, F)
  BY <1>3, <1>5 DEF CreateChatGroup2
<1>6. CASE \E G \in (SUBSET Users) \ {{}} : AddMember(s, u, G)
  <2>1. PICK G \in SUBSET Users : AddMember(s, u, G)
    BY <1>6
  <2>2. [Idle EXCEPT !.op = "invite", !.at = "invite", !.by = u, !.guests = G] \in Request
    BY DEF Idle, Request
  <2> QED BY <1>2, <2>1, <2>2, ReceiveType DEF AddMember
<1>7. CASE \E n \in 1 .. MaxRows, op \in {"accept", "reject"} : UpdateInvitation(s, u, n, op)
  <2>1. PICK n \in 1 .. MaxRows, op \in {"accept", "reject"} : UpdateInvitation(s, u, n, op)
    BY <1>7
  <2>2. <<u, n>> \in Keys
    BY DEF Keys
  <2>3. [Idle EXCEPT !.op = op, !.at = "mark", !.by = u, !.inv = {<<u, n>>}] \in Request
    BY <2>2 DEF Idle, Request
  <2> QED BY <1>2, <2>1, <2>3, ReceiveType DEF UpdateInvitation
<1>8. CASE \E v \in Users : KickMember(s, u, v)
  <2>1. PICK v \in Users : KickMember(s, u, v)
    BY <1>8
  <2>2. [Idle EXCEPT !.op = "kick", !.at = "txRead", !.by = u, !.who = v] \in Request
    BY DEF Idle, Request
  <2> QED BY <1>2, <2>1, <2>2, ReceiveType DEF KickMember
<1>9. CASE LeaveGroup(s, u)
  <2>1. [Idle EXCEPT !.op = "leave", !.at = "findRow", !.by = u, !.who = u] \in Request
    BY DEF Idle, Request
  <2> QED BY <1>2, <1>9, <2>1, ReceiveType DEF LeaveGroup
<1>10. CASE DeleteConversation(s, u)
  <2>1. PICK k \in Keys : /\ Receive(s, "erase", [Idle EXCEPT !.op = "erase", !.at = "removeRow",
                                                              !.by = u, !.rows = {k}])
                          /\ UNCHANGED db
    BY <1>10 DEF DeleteConversation, RowsOf, TypeOK
  <2>2. [Idle EXCEPT !.op = "erase", !.at = "removeRow", !.by = u, !.rows = {k}] \in Request
    BY DEF Idle, Request
  <2> QED BY <1>2, <2>1, <2>2, ReceiveType
<1>11. CASE ReadAllGroup(s, u)
  <2>1. PICK k \in Keys : /\ Receive(s, "read", [Idle EXCEPT !.op = "read", !.at = "reset",
                                                             !.by = u, !.rows = {k}])
                          /\ UNCHANGED db
    BY <1>11 DEF ReadAllGroup, RowsOf, TypeOK
  <2>2. [Idle EXCEPT !.op = "read", !.at = "reset", !.by = u, !.rows = {k}] \in Request
    BY DEF Idle, Request
  <2> QED BY <1>2, <2>1, <2>2, ReceiveType
<1>12. CASE SendMessageGroup(s, u)
  <2>1. [Idle EXCEPT !.op = "send", !.at = "receivers", !.by = u, !.todo = members \ {u}]
          \in Request
    BY DEF Idle, Request, TypeOK
  <2> QED BY <1>2, <1>12, <2>1, ReceiveType DEF SendMessageGroup
<1>13. CASE DeleteGroup(s, u)
  <2>1. [Idle EXCEPT !.op = "disband", !.at = "wipe", !.by = u] \in Request
    BY DEF Idle, Request
  <2> QED BY <1>2, <1>13, <2>1, ReceiveType DEF DeleteGroup
<1> QED BY <1>1, <1>4, <1>5, <1>6, <1>7, <1>8, <1>9, <1>10, <1>11, <1>12, <1>13

(* Every later step of a handler preserves the types.                      *)
LEMMA ProceedType ==
  ASSUME TypeOK, NEW s \in Slots, Proceed(s)
  PROVE  TypeOK'
<1> DEFINE r == reqs[s]
<1> USE DEF Places, At
<1>a. ASSUME r.at \in Places \/ r.missing # {}
      PROVE  r \in Request
  BY <1>a, RequestFields
<1>b. ASSUME UNCHANGED db, reqs' \in [Slots -> Request \cup {Idle}], started' \in Nat, lost' \in Nat
      PROVE  TypeOK'
  <2>1. /\ group' = group /\ manager' = manager /\ members' = members
        /\ invitations' = invitations /\ conversations' = conversations
        /\ messages' = messages /\ admitted' = admitted
    BY <1>b DEF db
  <2> QED BY <1>b, <2>1 DEF TypeOK
<1>c. ASSUME NEW q \in Request, Continue(s, q)
      PROVE  reqs' \in [Slots -> Request \cup {Idle}] /\ started' \in Nat /\ lost' \in Nat
  BY <1>c, ContinueType
<1>1. CASE FoundersInformed(s)
  BY <1>1, <1>b, AnswerType DEF FoundersInformed
<1>2. CASE CreateMultipleInvites(s)
  <2>1. r \in Request
    BY <1>2, <1>a DEF CreateMultipleInvites
  <2>2. InvitationsOK(invitations')
    BY <1>2, <2>1, InvitedType DEF CreateMultipleInvites, TypeOK, InvitationsOK, Request
  <2> QED BY <1>2, <2>2, AnswerType DEF CreateMultipleInvites, TypeOK, InvitationsOK
<1>3. ASSUME NEW u \in Users, FindConversation(s, u)
      PROVE  TypeOK'
  <2>1. r \in Request
    BY <1>3, <1>a DEF FindConversation
  <2>2. CASE Continue(s, [r EXCEPT !.todo = @ \ {u}, !.missing = @ \cup {u}])
    <3>1. [r EXCEPT !.todo = @ \ {u}, !.missing = @ \cup {u}] \in Request
      BY <2>1 DEF Request
    <3> QED BY <3>1, <2>2, <1>3, <1>b, <1>c DEF FindConversation
  <2>3. ASSUME NEW k \in RowsOf(conversations, u),
               Continue(s, [r EXCEPT !.todo = @ \ {u}, !.rows = @ \cup {k}])
        PROVE  TypeOK'
    <3>1. k \in Keys
      BY DEF RowsOf, TypeOK
    <3>2. [r EXCEPT !.todo = @ \ {u}, !.rows = @ \cup {k}] \in Request
      BY <2>1, <3>1 DEF Request
    <3> QED BY <3>2, <2>3, <1>3, <1>b, <1>c DEF FindConversation
  <2> QED BY <1>3, <2>2, <2>3 DEF FindConversation
<1>4. ASSUME NEW u \in Users, CreateConversation(s, u)
      PROVE  TypeOK'
  <2>1. r \in Request
    BY <1>4, <1>a DEF CreateConversation
  <2>2. ASSUME NEW k \in Keys, conversations' = Insert(conversations, k, 0),
               Continue(s, [r EXCEPT !.missing = @ \ {u}, !.rows = @ \cup {k}])
        PROVE  TypeOK'
    <3>1. [r EXCEPT !.missing = @ \ {u}, !.rows = @ \cup {k}] \in Request
      BY <2>1 DEF Request
    <3>2. reqs' \in [Slots -> Request \cup {Idle}] /\ started' \in Nat /\ lost' \in Nat
      BY <3>1, <2>2, <1>c
    <3>3. ConversationsOK(conversations')
      BY <2>2, InsertedConversation
    <3> QED BY <1>4, <3>2, <3>3 DEF CreateConversation, TypeOK, ConversationsOK
  <2>3. CASE Answer(s) /\ UNCHANGED conversations
    BY <1>4, <2>3, AnswerType DEF CreateConversation, TypeOK
  <2> QED BY <1>4, <2>2, <2>3 DEF CreateConversation, FreshRow
<1>5. CASE MarkInvitation(s)
  <2>1. r \in Request
    BY <1>5, <1>a DEF MarkInvitation
  <2>2. InvitationsOK(invitations')
    BY <1>5, <2>1 DEF MarkInvitation, TypeOK, InvitationsOK, Statuses, Request
  <2>3. /\ [r EXCEPT !.at = "conversations", !.inv = {}, !.todo = {r.by}] \in Request
        /\ r.by \in Users
    BY <2>1 DEF Request
  <2>4. reqs' \in [Slots -> Request \cup {Idle}] /\ started' \in Nat /\ lost' \in Nat
    BY <1>5, <2>3, <1>c, AnswerType DEF MarkInvitation
  <2>5. admitted' \in SUBSET Users
    BY <1>5, <2>3 DEF MarkInvitation, TypeOK
  <2> QED BY <1>5, <2>2, <2>4, <2>5 DEF MarkInvitation, TypeOK, InvitationsOK
<1>6. CASE ReadMembers(s)
  <2>1. r \in Request
    BY <1>6, <1>a DEF ReadMembers
  <2>2. [r EXCEPT !.at = "saveRead", !.rows = {}, !.seen = members] \in Request
    BY <2>1 DEF Request, TypeOK
  <2> QED BY <1>6, <2>2, <1>b, <1>c, AnswerType DEF ReadMembers
<1>7. CASE SaveRead(s)
  <2> DEFINE array == r.seen \cup {r.by}
  <2>1. r \in Request
    BY <1>7, <1>a DEF SaveRead
  <2>2. array \in SUBSET Users
    BY <2>1 DEF Request
  <2>3. /\ [r EXCEPT !.at = "saveWrite", !.seen = {}, !.add = array \ members,
                     !.drop = members \ array] \in Request
        /\ [r EXCEPT !.at = "reinsert", !.seen = {}, !.add = array] \in Request
    BY <2>1, <2>2 DEF Request, TypeOK
  <2>4. reqs' \in [Slots -> Request \cup {Idle}] /\ started' \in Nat /\ lost' \in Nat
    BY <1>7, <2>3, <1>c DEF SaveRead
  <2> QED BY <1>7, <2>4, <1>b DEF SaveRead
<1>8. ASSUME r \in Request, Joined(s)
      PROVE  reqs' \in [Slots -> Request \cup {Idle}] /\ started' \in Nat /\ lost' \in Nat
  <2>1. [r EXCEPT !.at = "notify", !.add = {}, !.drop = {}] \in Request
    BY <1>8 DEF Request
  <2> QED BY <1>8, <2>1, <1>c DEF Joined
<1>9. CASE SaveWrite(s)
  <2>1. r \in Request
    BY <1>9, <1>a DEF SaveWrite
  <2>2. reqs' \in [Slots -> Request \cup {Idle}] /\ started' \in Nat /\ lost' \in Nat
    BY <1>9, <2>1, <1>8, AnswerType DEF SaveWrite
  <2>3. members' \in SUBSET Users
    BY <1>9, <2>1 DEF SaveWrite, Request, TypeOK
  <2> QED BY <1>9, <2>2, <2>3 DEF SaveWrite, TypeOK
<1>10. CASE Reinsert(s)
  <2>1. r \in Request
    BY <1>10, <1>a DEF Reinsert
  <2>2. reqs' \in [Slots -> Request \cup {Idle}] /\ started' \in Nat /\ lost' \in Nat
    BY <1>10, <2>1, <1>8, AnswerType DEF Reinsert
  <2>3. members' \in SUBSET Users
    BY <1>10, <2>1 DEF Reinsert, Request, TypeOK
  <2> QED BY <1>10, <2>2, <2>3 DEF Reinsert, TypeOK
<1>11. CASE BeginRemoval(s)
  <2>1. r \in Request
    BY <1>11, <1>a DEF BeginRemoval
  <2>2. [r EXCEPT !.at = "findRow"] \in Request
    BY <2>1 DEF Request
  <2> QED BY <1>11, <2>2, <1>b, <1>c, AnswerType DEF BeginRemoval
<1>12. CASE FindRemovedConversation(s)
  <2>1. r \in Request
    BY <1>12, <1>a DEF FindRemovedConversation
  <2>2. \A k \in RowsOf(conversations, r.who) :
          [r EXCEPT !.at = "removeRow", !.rows = {k}] \in Request
    BY <2>1 DEF Request, RowsOf, TypeOK
  <2>3. reqs' \in [Slots -> Request \cup {Idle}] /\ started' \in Nat /\ lost' \in Nat
    BY <1>12, <2>2, <1>c, AnswerType DEF FindRemovedConversation
  <2>4. members' \in SUBSET Users
    BY <1>12 DEF FindRemovedConversation, TypeOK
  <2> QED BY <1>12, <2>3, <2>4 DEF FindRemovedConversation, TypeOK
<1>13. CASE RemoveRow(s)
  <2>1. r \in Request
    BY <1>13, <1>a DEF RemoveRow
  <2>2. [r EXCEPT !.at = "commit", !.rows = {}] \in Request
    BY <2>1 DEF Request
  <2>3. ConversationsOK(conversations')
    BY <1>13, RemovedConversation DEF RemoveRow
  <2>4. reqs' \in [Slots -> Request \cup {Idle}] /\ started' \in Nat /\ lost' \in Nat
    BY <1>13, <2>2, <1>c, AnswerType DEF RemoveRow
  <2> QED BY <1>13, <2>3, <2>4 DEF RemoveRow, TypeOK, ConversationsOK
<1>14. CASE CommitRemoval(s)
  <2>1. r \in Request
    BY <1>14, <1>a DEF CommitRemoval
  <2>2. [r EXCEPT !.at = "notify", !.who = NoUser] \in Request
    BY <2>1 DEF Request
  <2>3. reqs' \in [Slots -> Request \cup {Idle}] /\ started' \in Nat /\ lost' \in Nat
    BY <1>14, <2>2, <1>c DEF CommitRemoval
  <2> QED BY <1>14, <2>3 DEF CommitRemoval, TypeOK
<1>15. CASE ResetUnread(s)
  <2>1. ConversationsOK(conversations')
    BY <1>15 DEF ResetUnread, TypeOK, ConversationsOK
  <2> QED BY <1>15, <2>1, AnswerType DEF ResetUnread, TypeOK, ConversationsOK
<1>16. CASE ReadReceivers(s)
  <2>1. r \in Request
    BY <1>16, <1>a DEF ReadReceivers
  <2>2. [r EXCEPT !.at = "receivers", !.todo = members \ {r.by}] \in Request
    BY <2>1 DEF Request, TypeOK
  <2> QED BY <1>16, <2>2, <1>b, <1>c, AnswerType DEF ReadReceivers
<1>17. CASE IncrementUnread(s)
  <2>1. r \in Request
    BY <1>17, <1>a DEF IncrementUnread
  <2>2. [r EXCEPT !.at = "store", !.rows = {}] \in Request
    BY <2>1 DEF Request
  <2>3. ConversationsOK(conversations')
    BY <1>17 DEF IncrementUnread, TypeOK, ConversationsOK
  <2>4. reqs' \in [Slots -> Request \cup {Idle}] /\ started' \in Nat /\ lost' \in Nat
    BY <1>17, <2>2, <1>c DEF IncrementUnread
  <2> QED BY <1>17, <2>3, <2>4 DEF IncrementUnread, TypeOK, ConversationsOK
<1>18. CASE CreateMessageInGroup(s)
  BY <1>18, AnswerType DEF CreateMessageInGroup, TypeOK
<1>19. CASE Wipe(s)
  <2>1. CASE Live
    <3>1. DOMAIN invitations' = {} /\ DOMAIN conversations' = {}
      BY <1>19, <2>1 DEF Wipe
    <3>2. InvitationsOK(invitations') /\ ConversationsOK(conversations')
      BY <1>19, <2>1, <3>1 DEF Wipe, InvitationsOK, ConversationsOK
    <3> QED BY <1>19, <2>1, <3>2, AnswerType
            DEF Wipe, TypeOK, InvitationsOK, ConversationsOK
  <2>2. CASE ~Live
    BY <1>19, <2>2, AnswerType DEF Wipe, TypeOK
  <2> QED BY <2>1, <2>2
<1> QED BY <1>1, <1>2, <1>3, <1>4, <1>5, <1>6, <1>7, <1>9, <1>10, <1>11, <1>12, <1>13,
           <1>14, <1>15, <1>16, <1>17, <1>18, <1>19 DEF Proceed

(* The requests about to store a message are finitely many.                *)
LEMMA StoringFinite == IsFiniteSet(Storing)
BY SlotsAssumption, FS_Subset DEF Storing

(* Every step preserves the types.                                         *)
LEMMA TypeStep == TypeOK /\ [Next]_vars => TypeOK'
<1> SUFFICES ASSUME TypeOK, [Next]_vars
             PROVE  TypeOK'
  OBVIOUS
<1>1. CASE \E s \in Slots : Enter(s) \/ Proceed(s)
  BY <1>1, EnterType, ProceedType
<1>2. CASE Crash
  <2>1. Cardinality(Storing) \in Nat
    BY StoringFinite, FS_CardinalityType
  <2>2. lost' \in Nat
    BY <1>2, <2>1 DEF Crash, TypeOK
  <2> QED BY <1>2, <2>2 DEF Crash, TypeOK, db
<1>3. CASE UNCHANGED vars
  BY <1>3 DEF vars, db, TypeOK
<1> QED BY <1>1, <1>2, <1>3 DEF Next, Done

(* Every column keeps its type in every behaviour (the entities of         *)
(* modules/chat/entity and the handlers that write them).                  *)
THEOREM TypeCorrect == Spec => []TypeOK
<1>1. Init => TypeOK
  BY DEF Init, TypeOK, Idle
<1> QED BY <1>1, TypeStep, PTL DEF Spec

-----------------------------------------------------------------------------
(***************************************************************************)
(* Nothing survives the group: every insertion is undone without the row   *)
(* it refers to, and the one step that brings the row back brings it back  *)
(* alone.  The invariant is inductive by itself, given the types.          *)
(***************************************************************************)
(* A table that is pointwise updated keeps its rows.                       *)
LEMMA EmptyStaysEmpty ==
  ASSUME NothingSurvivesTheGroup, ~Live, UNCHANGED <<group, manager, messages>>,
         members' \subseteq members,
         DOMAIN invitations' \subseteq DOMAIN invitations,
         DOMAIN conversations' \subseteq DOMAIN conversations
  PROVE  NothingSurvivesTheGroup'
BY DEF NothingSurvivesTheGroup, Live

(* No first read of a handler leaves a row behind a missing group.         *)
LEMMA EnterSurvival ==
  ASSUME NothingSurvivesTheGroup, NEW s \in Slots, Enter(s)
  PROVE  NothingSurvivesTheGroup'
<1>1. ASSUME UNCHANGED db
      PROVE  NothingSurvivesTheGroup'
  BY <1>1 DEF db, NothingSurvivesTheGroup, Live
<1>2. ASSUME group' = "live"
      PROVE  NothingSurvivesTheGroup'
  BY <1>2 DEF NothingSurvivesTheGroup, Live
<1> QED BY <1>1, <1>2
        DEF Enter, CreateChatGroup, CreateChatGroup2, Found, AddMember, UpdateInvitation,
            KickMember, LeaveGroup, DeleteConversation, ReadAllGroup, SendMessageGroup,
            DeleteGroup

(* Nor does a later step: every insertion needs the group.                 *)
LEMMA ProceedSurvival ==
  ASSUME NothingSurvivesTheGroup, NEW s \in Slots, Proceed(s)
  PROVE  NothingSurvivesTheGroup'
<1>a. ASSUME UNCHANGED db
      PROVE  NothingSurvivesTheGroup'
  BY <1>a DEF db, NothingSurvivesTheGroup, Live
<1>b. ASSUME group' = "live"
      PROVE  NothingSurvivesTheGroup'
  BY <1>b DEF NothingSurvivesTheGroup, Live
<1>c. Live /\ group' = group => NothingSurvivesTheGroup'
  BY <1>b DEF Live
<1>1. CASE \/ FoundersInformed(s) \/ ReadMembers(s) \/ SaveRead(s) \/ BeginRemoval(s)
           \/ ReadReceivers(s) \/ \E u \in Users : FindConversation(s, u)
  BY <1>1, <1>a
     DEF FoundersInformed, ReadMembers, SaveRead, BeginRemoval, ReadReceivers,
         FindConversation
<1>2. CASE CreateMultipleInvites(s)
  BY <1>2, <1>c, EmptyStaysEmpty DEF CreateMultipleInvites
<1>3. CASE \E u \in Users : CreateConversation(s, u)
  BY <1>3, <1>c, EmptyStaysEmpty DEF CreateConversation
<1>4. CASE MarkInvitation(s)
  BY <1>4, <1>c, EmptyStaysEmpty DEF MarkInvitation
<1>5. CASE SaveWrite(s)
  BY <1>5, <1>c, EmptyStaysEmpty DEF SaveWrite
<1>6. CASE Reinsert(s)
  BY <1>6, <1>b, <1>c DEF Reinsert
<1>7. CASE FindRemovedConversation(s)
  BY <1>7, <1>c, EmptyStaysEmpty DEF FindRemovedConversation
<1>8. CASE RemoveRow(s)
  BY <1>8, <1>c, EmptyStaysEmpty DEF RemoveRow, Without
<1>9. CASE CommitRemoval(s)
  BY <1>9, <1>c, EmptyStaysEmpty DEF CommitRemoval
<1>10. CASE ResetUnread(s)
  BY <1>10, <1>c, EmptyStaysEmpty DEF ResetUnread
<1>11. CASE IncrementUnread(s)
  BY <1>11, <1>c, EmptyStaysEmpty DEF IncrementUnread
<1>12. CASE CreateMessageInGroup(s)
  BY <1>12, <1>c, EmptyStaysEmpty DEF CreateMessageInGroup
<1>13. CASE Wipe(s)
  <2>1. CASE Live
    BY <1>13, <2>1 DEF Wipe, NothingSurvivesTheGroup
  <2>2. CASE ~Live
    BY <1>13, <2>2, EmptyStaysEmpty DEF Wipe
  <2> QED BY <2>1, <2>2
<1> QED BY <1>1, <1>2, <1>3, <1>4, <1>5, <1>6, <1>7, <1>8, <1>9, <1>10, <1>11, <1>12, <1>13
        DEF Proceed

(* When the group's row is missing, so are all rows that refer to it, and  *)
(* the manager (deleteGroup and every request that overlaps it).           *)
THEOREM NothingSurvives == Spec => []NothingSurvivesTheGroup
<1>1. Init => NothingSurvivesTheGroup
  BY DEF Init, NothingSurvivesTheGroup
<1>2. NothingSurvivesTheGroup /\ [Next]_vars => NothingSurvivesTheGroup'
  <2> SUFFICES ASSUME NothingSurvivesTheGroup, [Next]_vars
               PROVE  NothingSurvivesTheGroup'
    OBVIOUS
  <2>1. CASE \E s \in Slots : Enter(s) \/ Proceed(s)
    BY <2>1, EnterSurvival, ProceedSurvival
  <2>2. CASE Crash \/ UNCHANGED vars
    BY <2>2 DEF Crash, vars, db, NothingSurvivesTheGroup, Live
  <2> QED BY <2>1, <2>2 DEF Next, Done
<1> QED BY <1>1, <1>2, PTL DEF Spec

-----------------------------------------------------------------------------
(***************************************************************************)
(* Nobody is a member without having been admitted.  A member list that    *)
(* was read is written back later, when it is stale; so the invariant has  *)
(* to say of every list a request holds what it says of the stored one.    *)
(***************************************************************************)
AdmittedRequest(q, A) ==
  /\ q.seen \subseteq A
  /\ q.add \subseteq A
  /\ q.at = "saveRead" \/ (q.op = "accept" /\ q.at = "conversations") => q.by \in A

Admission ==
  /\ members \subseteq admitted
  /\ \A s \in Slots : AdmittedRequest(reqs[s], admitted)

(* A step that changes one request, and only adds to those admitted.       *)
LEMMA AdmissionStep ==
  ASSUME TypeOK, Admission, NEW s \in Slots, NEW q, reqs' = [reqs EXCEPT ![s] = q],
         admitted \subseteq admitted', members' \subseteq admitted',
         AdmittedRequest(q, admitted')
  PROVE  Admission'
<1>1. \A t \in Slots : AdmittedRequest(reqs[t], admitted')
  BY DEF Admission, AdmittedRequest
<1> QED BY <1>1 DEF Admission, TypeOK

(* An answer forgets the members a request had read.                       *)
LEMMA AdmissionAnswer ==
  ASSUME TypeOK, Admission, NEW s \in Slots, Answer(s),
         admitted \subseteq admitted', members' \subseteq admitted'
  PROVE  Admission'
<1>1. AdmittedRequest(Idle, admitted')
  BY DEF AdmittedRequest, Idle
<1> QED BY <1>1, AdmissionStep DEF Answer, Continue

(* Only the founding of the group writes members on entry.                 *)
LEMMA EnterAdmission ==
  ASSUME TypeOK, Admission, NEW s \in Slots, Enter(s)
  PROVE  Admission'
<1>1. ASSUME NEW op \in Kinds, NEW q, Receive(s, op, q), q.seen = {}, q.add = {},
             q.at # "saveRead", q.op # "accept" \/ q.at # "conversations",
             admitted \subseteq admitted', members' \subseteq admitted'
      PROVE  Admission'
  <2>1. AdmittedRequest(q, admitted')
    BY <1>1 DEF AdmittedRequest
  <2> QED BY <1>1, <2>1, AdmissionStep DEF Receive
<1>2. UNCHANGED db => admitted \subseteq admitted' /\ members' \subseteq admitted'
  BY DEF db, Admission
<1>3. ASSUME NEW u \in Users, NEW op \in {"create", "create2"}, NEW F, NEW G,
             Found(s, u, op, F, G)
      PROVE  Admission'
  BY <1>1, <1>3 DEF Found, Idle, Kinds
<1>4. ASSUME NEW u \in Users, NEW G, AddMember(s, u, G)
      PROVE  Admission'
  BY <1>1, <1>2, <1>4 DEF AddMember, Idle, Kinds
<1>5. ASSUME NEW u \in Users, NEW n, NEW op \in {"accept", "reject"}, UpdateInvitation(s, u, n, op)
      PROVE  Admission'
  BY <1>1, <1>2, <1>5 DEF UpdateInvitation, Idle, Kinds
<1>6. ASSUME NEW u \in Users, NEW v \in Users, KickMember(s, u, v)
      PROVE  Admission'
  BY <1>1, <1>2, <1>6 DEF KickMember, Idle, Kinds
<1>7. ASSUME NEW u \in Users, LeaveGroup(s, u)
      PROVE  Admission'
  BY <1>1, <1>2, <1>7 DEF LeaveGroup, Idle, Kinds
<1>8. ASSUME NEW u \in Users, DeleteConversation(s, u)
      PROVE  Admission'
  BY <1>1, <1>2, <1>8 DEF DeleteConversation, Idle, Kinds
<1>9. ASSUME NEW u \in Users, ReadAllGroup(s, u)
      PROVE  Admission'
  BY <1>1, <1>2, <1>9 DEF ReadAllGroup, Idle, Kinds
<1>10. ASSUME NEW u \in Users, SendMessageGroup(s, u)
       PROVE  Admission'
  BY <1>1, <1>2, <1>10 DEF SendMessageGroup, Idle, Kinds
<1>11. ASSUME NEW u \in Users, DeleteGroup(s, u)
       PROVE  Admission'
  BY <1>1, <1>2, <1>11 DEF DeleteGroup, Idle, Kinds
<1> QED BY <1>3, <1>4, <1>5, <1>6, <1>7, <1>8, <1>9, <1>10, <1>11
        DEF Enter, CreateChatGroup, CreateChatGroup2

(* A later step only writes members that some request was to admit.        *)
LEMMA ProceedAdmission ==
  ASSUME TypeOK, Admission, NEW s \in Slots, Proceed(s)
  PROVE  Admission'
<1> DEFINE r == reqs[s]
<1>a. ASSUME NEW q, Continue(s, q), q.seen \subseteq admitted, q.add \subseteq admitted,
             \/ q.at = r.at /\ q.op = r.op /\ q.by = r.by
             \/ q.at \notin {"saveRead", "conversations"}
             \/ q.by \in admitted,
             admitted \subseteq admitted', members' \subseteq admitted'
      PROVE  Admission'
  <2>1. AdmittedRequest(q, admitted')
    BY <1>a DEF AdmittedRequest, Admission
  <2> QED BY <1>a, <2>1, AdmissionStep DEF Continue
<1>b. r.seen \subseteq admitted /\ r.add \subseteq admitted /\ members \subseteq admitted
  BY DEF Admission, AdmittedRequest
<1>c. UNCHANGED db => admitted \subseteq admitted' /\ members' \subseteq admitted'
  BY <1>b DEF db
<1>d. UNCHANGED <<members, admitted>> => admitted \subseteq admitted' /\ members' \subseteq admitted'
  BY <1>b
<1>e. ASSUME r \in Request
      PROVE  r.by \in Users
  BY <1>e DEF Request
<1>f. ASSUME r.at \in Places \/ r.missing # {}
      PROVE  r \in Request
  BY <1>f, RequestFields
<1>1. CASE FoundersInformed(s)
  BY <1>1, <1>c, AdmissionAnswer DEF FoundersInformed
<1>2. CASE CreateMultipleInvites(s)
  BY <1>2, <1>d, AdmissionAnswer DEF CreateMultipleInvites
<1>3. ASSUME NEW u \in Users, FindConversation(s, u)
      PROVE  Admission'
  <2>1. r \in Request
    BY <1>3, <1>f DEF FindConversation, Places
  <2> QED BY <1>3, <2>1, <1>a, <1>b, <1>c DEF FindConversation, Request
<1>4. ASSUME NEW u \in Users, CreateConversation(s, u)
      PROVE  Admission'
  <2>1. r \in Request
    BY <1>4, <1>f DEF CreateConversation
  <2> QED BY <1>4, <2>1, <1>a, <1>b, <1>d, AdmissionAnswer DEF CreateConversation, Request
<1>5. CASE MarkInvitation(s)
  <2>1. r \in Request
    BY <1>5, <1>f DEF MarkInvitation, At, Places
  <2>2. CASE Live /\ r.op = "accept"
    <3> DEFINE q == [r EXCEPT !.at = "conversations", !.inv = {}, !.todo = {r.by}]
    <3>1. q.seen = r.seen /\ q.add = r.add /\ q.by = r.by
      BY <2>1 DEF Request
    <3>2. Continue(s, q) /\ admitted' = admitted \cup {r.by} /\ members' = members
      BY <1>5, <2>2 DEF MarkInvitation
    <3>3. AdmittedRequest(q, admitted')
      BY <3>1, <3>2, <1>b DEF AdmittedRequest
    <3> QED BY <3>2, <3>3, <1>b, AdmissionStep DEF Continue
  <2>3. CASE ~(Live /\ r.op = "accept")
    BY <1>5, <2>3, <1>d, AdmissionAnswer DEF MarkInvitation
  <2> QED BY <2>2, <2>3
<1>6. CASE ReadMembers(s)
  <2>1. r \in Request
    BY <1>6, <1>f DEF ReadMembers, At, Places
  <2>2. r.by \in admitted
    BY <1>6 DEF ReadMembers, At, Admission, AdmittedRequest
  <2>3. CASE Live /\ r.by \notin members
    <3> DEFINE q == [r EXCEPT !.at = "saveRead", !.rows = {}, !.seen = members]
    <3>1. q.seen = members /\ q.add = r.add /\ q.by = r.by
      BY <2>1 DEF Request
    <3>2. Continue(s, q) /\ UNCHANGED db
      BY <1>6, <2>3 DEF ReadMembers
    <3> QED BY <3>1, <3>2, <2>2, <1>a, <1>b, <1>c
  <2>4. CASE ~(Live /\ r.by \notin members)
    BY <1>6, <2>4, <1>c, AdmissionAnswer DEF ReadMembers
  <2> QED BY <2>3, <2>4
<1>7. CASE SaveRead(s)
  <2> DEFINE array == r.seen \cup {r.by}
  <2>1. r \in Request
    BY <1>7, <1>f DEF SaveRead, At, Places
  <2>2. array \subseteq admitted
    BY <1>7, <1>b DEF SaveRead, At, Admission, AdmittedRequest
  <2>3. CASE Live
    <3> DEFINE q == [r EXCEPT !.at = "saveWrite", !.seen = {}, !.add = array \ members,
                              !.drop = members \ array]
    <3>1. q.seen = {} /\ q.add = array \ members /\ q.at = "saveWrite"
      BY <2>1 DEF Request
    <3>2. Continue(s, q) /\ UNCHANGED db
      BY <1>7, <2>3 DEF SaveRead
    <3> QED BY <3>1, <3>2, <2>2, <1>a, <1>c
  <2>4. CASE ~Live
    <3> DEFINE q == [r EXCEPT !.at = "reinsert", !.seen = {}, !.add = array]
    <3>1. q.seen = {} /\ q.add = array /\ q.at = "reinsert"
      BY <2>1 DEF Request
    <3>2. Continue(s, q) /\ UNCHANGED db
      BY <1>7, <2>4 DEF SaveRead
    <3> QED BY <3>1, <3>2, <2>2, <1>a, <1>c
  <2> QED BY <2>3, <2>4
<1>8. ASSUME r \in Request, Joined(s), UNCHANGED admitted, members' \subseteq admitted
      PROVE  Admission'
  <2> DEFINE q == [r EXCEPT !.at = "notify", !.add = {}, !.drop = {}]
  <2>1. q.seen = r.seen /\ q.add = {} /\ q.at = "notify"
    BY <1>8 DEF Request
  <2> QED BY <1>8, <2>1, <1>a, <1>b DEF Joined
<1>9. CASE SaveWrite(s)
  <2>1. r \in Request
    BY <1>9, <1>f DEF SaveWrite, At, Places
  <2>2. members' \subseteq admitted /\ UNCHANGED admitted
    BY <1>9, <1>b DEF SaveWrite
  <2> QED BY <1>9, <2>1, <2>2, <1>8, AdmissionAnswer DEF SaveWrite
<1>10. CASE Reinsert(s)
  <2>1. r \in Request
    BY <1>10, <1>f DEF Reinsert, At, Places
  <2>2. members' \subseteq admitted /\ UNCHANGED admitted
    BY <1>10, <1>b DEF Reinsert
  <2> QED BY <1>10, <2>1, <2>2, <1>8, AdmissionAnswer DEF Reinsert
<1>11. CASE BeginRemoval(s)
  <2>1. r \in Request
    BY <1>11, <1>f DEF BeginRemoval, At, Places
  <2> QED BY <1>11, <2>1, <1>a, <1>b, <1>c, AdmissionAnswer DEF BeginRemoval, Request
<1>12. CASE FindRemovedConversation(s)
  <2>1. r \in Request
    BY <1>12, <1>f DEF FindRemovedConversation, At, Places
  <2>2. members' \subseteq admitted /\ UNCHANGED admitted
    BY <1>12, <1>b DEF FindRemovedConversation
  <2>3. ASSUME NEW k, Continue(s, [r EXCEPT !.at = "removeRow", !.rows = {k}])
        PROVE  Admission'
    BY <2>1, <2>2, <2>3, <1>a, <1>b DEF Request
  <2> QED BY <1>12, <2>2, <2>3, AdmissionAnswer DEF FindRemovedConversation
<1>13. CASE RemoveRow(s)
  <2>1. r \in Request
    BY <1>13, <1>f DEF RemoveRow, At, Places
  <2> QED BY <1>13, <2>1, <1>a, <1>b, <1>d, AdmissionAnswer DEF RemoveRow, Request
<1>14. CASE CommitRemoval(s)
  <2>1. r \in Request
    BY <1>14, <1>f DEF CommitRemoval, At, Places
  <2> QED BY <1>14, <2>1, <1>a, <1>b DEF CommitRemoval, Request
<1>15. CASE ResetUnread(s)
  BY <1>15, <1>d, AdmissionAnswer DEF ResetUnread
<1>16. CASE ReadReceivers(s)
  <2>1. r \in Request
    BY <1>16, <1>f DEF ReadReceivers, At, Places
  <2> QED BY <1>16, <2>1, <1>a, <1>b, <1>c, AdmissionAnswer DEF ReadReceivers, Request
<1>17. CASE IncrementUnread(s)
  <2>1. r \in Request
    BY <1>17, <1>f DEF IncrementUnread, At, Places
  <2> QED BY <1>17, <2>1, <1>a, <1>b, <1>d DEF IncrementUnread, Request
<1>18. CASE CreateMessageInGroup(s)
  <2>1. reqs' = [reqs EXCEPT ![s] = Idle] /\ UNCHANGED <<members, admitted>>
    BY <1>18 DEF CreateMessageInGroup
  <2>2. AdmittedRequest(Idle, admitted')
    BY DEF AdmittedRequest, Idle
  <2> QED BY <2>1, <2>2, <1>d, AdmissionStep
<1>19. CASE Wipe(s)
  BY <1>19, <1>b, AdmissionAnswer DEF Wipe
<1> QED BY <1>1, <1>2, <1>3, <1>4, <1>5, <1>6, <1>7, <1>9, <1>10, <1>11, <1>12, <1>13,
           <1>14, <1>15, <1>16, <1>17, <1>18, <1>19 DEF Proceed

(* Every step preserves the invariant.                                     *)
LEMMA AdmissionInductive == TypeOK /\ Admission /\ [Next]_vars => Admission'
<1> SUFFICES ASSUME TypeOK, Admission, [Next]_vars
             PROVE  Admission'
  OBVIOUS
<1>1. CASE \E s \in Slots : Enter(s) \/ Proceed(s)
  BY <1>1, EnterAdmission, ProceedAdmission
<1>2. CASE Crash
  BY <1>2 DEF Crash, db, Admission, AdmittedRequest, Idle
<1>3. CASE UNCHANGED vars
  BY <1>3 DEF vars, db, Admission
<1> QED BY <1>1, <1>2, <1>3 DEF Next, Done

(* Whatever member list a request read, and however late it writes it, the *)
(* group has no member that did not found it or accept an invitation to it *)
(* (updateInvitation, addMemberToGroup).                                   *)
THEOREM MembersAdmitted == Spec => []MembersWereAdmitted
<1>1. Init => Admission
  BY DEF Init, Admission, AdmittedRequest, Idle
<1>2. Admission => MembersWereAdmitted
  BY DEF Admission, MembersWereAdmitted
<1> QED BY <1>1, <1>2, AdmissionInductive, TypeCorrect, PTL DEF Spec

-----------------------------------------------------------------------------
(***************************************************************************)
(* Counters.  unreadCount is increased before the message is stored.  The  *)
(* invariant is inductive with the types: the UPDATE takes a request into  *)
(* Storing, the INSERT takes it out again and adds to the messages or, when*)
(* it fails, to lost, and a stop moves all of Storing to lost.  A request  *)
(* before its INSERT has settled the conversations it looked for, so that  *)
(* the INSERT is its only step.                                            *)
(***************************************************************************)
Counters ==
  /\ UnreadIsBacked
  /\ \A s \in Slots : reqs[s].at = "store" => reqs[s].missing = {}

(* A request that neither comes from nor goes to its INSERT leaves the set *)
(* of those before theirs alone.                                           *)
LEMMA StoringKept ==
  ASSUME TypeOK, NEW s \in Slots, NEW q, reqs' = [reqs EXCEPT ![s] = q],
         reqs[s].at # "store", q.at # "store"
  PROVE  Storing' = Storing
BY DEF Storing, At, TypeOK

(* As long as nothing is increased, nothing has to be stored.              *)
LEMMA BackedKept ==
  ASSUME TypeOK, Counters, NEW s \in Slots, NEW q, reqs' = [reqs EXCEPT ![s] = q],
         reqs[s].at # "store", q.at # "store", UNCHANGED <<messages, lost>>,
         \A k \in DOMAIN conversations' :
            \/ conversations'[k] = 0
            \/ k \in DOMAIN conversations /\ conversations'[k] = conversations[k]
  PROVE  Counters'
<1>1. messages \in Nat /\ lost \in Nat /\ Cardinality(Storing) \in Nat
  BY StoringFinite, FS_CardinalityType DEF TypeOK
<1>2. Storing' = Storing
  BY StoringKept
<1>3. UnreadIsBacked'
  BY <1>1, <1>2 DEF UnreadIsBacked, Counters
<1>4. \A t \in Slots : reqs'[t].at = "store" => reqs'[t].missing = {}
  BY DEF TypeOK, Counters
<1> QED BY <1>3, <1>4 DEF Counters

(* No request starts at its INSERT, or increases a counter on entry.       *)
LEMMA EnterBacked ==
  ASSUME TypeOK, Counters, NEW s \in Slots, Enter(s)
  PROVE  Counters'
<1>1. ASSUME NEW op, NEW q, Receive(s, op, q), q.at # "store",
             UNCHANGED <<conversations, messages>>
      PROVE  Counters'
  <2>1. reqs[s].at # "store"
    BY <1>1, IdleFields DEF Receive
  <2> QED BY <1>1, <2>1, BackedKept DEF Receive
<1>2. UNCHANGED db => UNCHANGED <<conversations, messages>>
  BY DEF db
<1> USE DEF Idle
<1>3. ASSUME NEW u, NEW op, NEW F, NEW G, Found(s, u, op, F, G)
      PROVE  Counters'
  BY <1>1, <1>3 DEF Found
<1>4. ASSUME NEW u, NEW G, AddMember(s, u, G)
      PROVE  Counters'
  BY <1>1, <1>2, <1>4 DEF AddMember
<1>5. ASSUME NEW u, NEW n, NEW op, UpdateInvitation(s, u, n, op)
      PROVE  Counters'
  BY <1>1, <1>2, <1>5 DEF UpdateInvitation
<1>6. ASSUME NEW u, NEW v, KickMember(s, u, v)
      PROVE  Counters'
  BY <1>1, <1>2, <1>6 DEF KickMember
<1>7. ASSUME NEW u, LeaveGroup(s, u)
      PROVE  Counters'
  BY <1>1, <1>2, <1>7 DEF LeaveGroup
<1>8. ASSUME NEW u, DeleteConversation(s, u)
      PROVE  Counters'
  BY <1>1, <1>2, <1>8 DEF DeleteConversation
<1>9. ASSUME NEW u, ReadAllGroup(s, u)
      PROVE  Counters'
  BY <1>1, <1>2, <1>9 DEF ReadAllGroup
<1>10. ASSUME NEW u, SendMessageGroup(s, u)
       PROVE  Counters'
  BY <1>1, <1>2, <1>10 DEF SendMessageGroup
<1>11. ASSUME NEW u, DeleteGroup(s, u)
       PROVE  Counters'
  BY <1>1, <1>2, <1>11 DEF DeleteGroup
<1> QED BY <1>3, <1>4, <1>5, <1>6, <1>7, <1>8, <1>9, <1>10, <1>11
        DEF Enter, CreateChatGroup, CreateChatGroup2

(* The UPDATE takes the request to its INSERT, which adds the message or   *)
(* loses it.                                                               *)
LEMMA SendingBacked ==
  ASSUME TypeOK, Counters, NEW s \in Slots, IncrementUnread(s) \/ CreateMessageInGroup(s)
  PROVE  Counters'
<1> DEFINE c == Cardinality(Storing)
<1> USE DEF At
<1>1. messages \in Nat /\ lost \in Nat /\ c \in Nat /\ IsFiniteSet(Storing)
  BY StoringFinite, FS_CardinalityType DEF TypeOK
<1>2. \A k \in DOMAIN conversations : conversations[k] \in Nat
  BY DEF TypeOK
<1>3. CASE IncrementUnread(s)
  <2> DEFINE q == [reqs[s] EXCEPT !.at = "store", !.rows = {}]
  <2>1. reqs[s] \in Request
    BY <1>3, RequestFields DEF IncrementUnread, Places
  <2>2. q.at = "store"
    BY <2>1 DEF Request
  <2>3. reqs' = [reqs EXCEPT ![s] = q] /\ UNCHANGED lost
    BY <1>3 DEF IncrementUnread, Continue
  <2>4. Storing' = Storing \cup {s} /\ s \notin Storing
    BY <1>3, <2>2, <2>3 DEF IncrementUnread, Storing, TypeOK
  <2>5. Cardinality(Storing') = c + 1
    BY <1>1, <2>4, FS_AddElement
  <2>6. /\ DOMAIN conversations' = DOMAIN conversations /\ messages' = messages
        /\ \A k \in DOMAIN conversations : conversations'[k] <= conversations[k] + 1
    BY <1>2, <1>3 DEF IncrementUnread
  <2>7. \A k \in DOMAIN conversations : conversations'[k] \in Nat
    BY <1>2, <1>3 DEF IncrementUnread
  <2>8. UnreadIsBacked'
    BY <1>1, <1>2, <2>3, <2>5, <2>6, <2>7 DEF UnreadIsBacked, Counters
  <2>9. \A t \in Slots : reqs'[t].at = "store" => reqs'[t].missing = {}
    BY <1>3, <2>1, <2>3 DEF IncrementUnread, Settled, Request, TypeOK, Counters
  <2> QED BY <2>8, <2>9 DEF Counters
<1>4. CASE CreateMessageInGroup(s)
  <2>1. reqs' = [reqs EXCEPT ![s] = Idle] /\ UNCHANGED conversations
    BY <1>4 DEF CreateMessageInGroup
  <2>2. \A t \in Slots : reqs'[t].at = "store" => reqs'[t].missing = {}
    BY <2>1, IdleFields DEF TypeOK, Counters
  <2>3. Storing' = Storing \ {s} /\ s \in Storing
    BY <1>4, <2>1, IdleFields DEF CreateMessageInGroup, Storing, TypeOK
  <2>4. Cardinality(Storing') = c - 1
    BY <1>1, <2>3, FS_RemoveElement
  <2> HIDE DEF c
  <2>5. \/ messages' = messages + 1 /\ lost' = lost
        \/ messages' = messages /\ lost' = lost + 1
    BY <1>4 DEF CreateMessageInGroup
  <2>6. messages' + Cardinality(Storing') + lost' = messages + c + lost
    <3>1. CASE messages' = messages + 1 /\ lost' = lost
      BY <1>1, <2>4, <3>1
    <3>2. CASE messages' = messages /\ lost' = lost + 1
      BY <1>1, <2>4, <3>2
    <3> QED BY <2>5, <3>1, <3>2
  <2>7. \A k \in DOMAIN conversations : conversations[k] <= messages + c + lost
    BY DEF UnreadIsBacked, Counters, c
  <2>8. conversations' = conversations
    BY <2>1
  <2>9. UnreadIsBacked'
    BY <2>6, <2>7, <2>8 DEF UnreadIsBacked
  <2> QED BY <2>2, <2>9 DEF Counters
<1> QED BY <1>3, <1>4

(* No other step increases a counter or forgets a message that is counted. *)
LEMMA ProceedBacked ==
  ASSUME TypeOK, NothingSurvivesTheGroup, Counters, NEW s \in Slots, Proceed(s)
  PROVE  Counters'
<1> DEFINE r == reqs[s]
<1> USE DEF At
<1>a. r.at \in Places \/ r.missing # {} => r \in Request
  BY RequestFields
<1>b. ASSUME NEW q, Continue(s, q), r.at # "store", q.at # "store", UNCHANGED messages,
             \A k \in DOMAIN conversations' :
                \/ conversations'[k] = 0
                \/ k \in DOMAIN conversations /\ conversations'[k] = conversations[k]
      PROVE  Counters'
  BY <1>b, BackedKept DEF Continue
<1>c. ASSUME Answer(s), r.at # "store", UNCHANGED messages,
             \A k \in DOMAIN conversations' :
                \/ conversations'[k] = 0
                \/ k \in DOMAIN conversations /\ conversations'[k] = conversations[k]
      PROVE  Counters'
  BY <1>b, <1>c, IdleFields DEF Answer
<1>d. UNCHANGED db => UNCHANGED <<conversations, messages>>
  BY DEF db
<1>1. CASE FoundersInformed(s)
  BY <1>1, <1>c, <1>d DEF FoundersInformed
<1>2. CASE CreateMultipleInvites(s)
  BY <1>2, <1>c DEF CreateMultipleInvites
<1>3. ASSUME NEW u \in Users, FindConversation(s, u)
      PROVE  Counters'
  <2>1. r \in Request /\ r.at # "store"
    BY <1>3, <1>a DEF FindConversation, Places
  <2>2. \A S, T, R : [r EXCEPT !.todo = S, !.missing = T, !.rows = R].at = r.at
    BY <2>1 DEF Request
  <2> QED BY <1>3, <2>1, <1>b, <1>d DEF FindConversation, Request
<1>4. ASSUME NEW u \in Users, CreateConversation(s, u)
      PROVE  Counters'
  <2>1. r \in Request
    BY <1>4, <1>a DEF CreateConversation
  <2>2. r.at # "store"
    BY <1>4 DEF CreateConversation, Counters
  <2>3. ASSUME NEW k, conversations' = Insert(conversations, k, 0),
               Continue(s, [r EXCEPT !.missing = @ \ {u}, !.rows = @ \cup {k}])
        PROVE  Counters'
    <3>1. \A j \in DOMAIN conversations' :
             \/ conversations'[j] = 0
             \/ j \in DOMAIN conversations /\ conversations'[j] = conversations[j]
      BY <2>3 DEF Insert
    <3> QED BY <1>4, <2>1, <2>2, <2>3, <3>1, <1>b DEF Request, CreateConversation
  <2> QED BY <1>4, <2>2, <2>3, <1>c DEF CreateConversation
<1>5. CASE MarkInvitation(s)
  BY <1>5, <1>a, <1>b, <1>c DEF MarkInvitation, Places, Request
<1>6. CASE ReadMembers(s)
  BY <1>6, <1>a, <1>b, <1>c, <1>d DEF ReadMembers, Places, Request
<1>7. CASE SaveRead(s)
  BY <1>7, <1>a, <1>b, <1>d DEF SaveRead, Places, Request
<1>8. CASE SaveWrite(s)
  BY <1>8, <1>a, <1>b, <1>c DEF SaveWrite, Joined, Places, Request
<1>9. CASE Reinsert(s)
  BY <1>9, <1>a, <1>b, <1>c DEF Reinsert, Joined, Places, Request
<1>10. CASE BeginRemoval(s)
  BY <1>10, <1>a, <1>b, <1>c, <1>d DEF BeginRemoval, Places, Request
<1>11. CASE FindRemovedConversation(s)
  BY <1>11, <1>a, <1>b, <1>c DEF FindRemovedConversation, Places, Request
<1>12. CASE RemoveRow(s)
  BY <1>12, <1>a, <1>b, <1>c DEF RemoveRow, Without, Places, Request
<1>13. CASE CommitRemoval(s)
  BY <1>13, <1>a, <1>b DEF CommitRemoval, Places, Request
<1>14. CASE ResetUnread(s)
  BY <1>14, <1>c DEF ResetUnread
<1>15. CASE ReadReceivers(s)
  BY <1>15, <1>a, <1>b, <1>c, <1>d DEF ReadReceivers, Places, Request
<1>16. CASE IncrementUnread(s) \/ CreateMessageInGroup(s)
  BY <1>16, SendingBacked
<1>17. CASE Wipe(s)
  <2>1. CASE Live
    <3>1. DOMAIN conversations' = {}
      BY <1>17, <2>1 DEF Wipe
    <3>2. reqs' = [reqs EXCEPT ![s] = Idle]
      BY <1>17 DEF Wipe, Answer, Continue
    <3>3. \A t \in Slots : reqs'[t].at = "store" => reqs'[t].missing = {}
      BY <3>2, IdleFields DEF TypeOK, Counters
    <3> QED BY <3>1, <3>3 DEF UnreadIsBacked, Counters
  <2>2. CASE ~Live
    BY <1>17, <2>2, <1>c DEF Wipe
  <2> QED BY <2>1, <2>2
<1> QED BY <1>1, <1>2, <1>3, <1>4, <1>5, <1>6, <1>7, <1>8, <1>9, <1>10, <1>11, <1>12,
           <1>13, <1>14, <1>15, <1>16, <1>17 DEF Proceed

(* A stop loses what was counted and not stored, and nothing else.         *)
LEMMA CrashBacked == TypeOK /\ Counters /\ Crash => Counters'
<1> SUFFICES ASSUME TypeOK, Counters, Crash
             PROVE  Counters'
  OBVIOUS
<1>1. messages \in Nat /\ lost \in Nat /\ Cardinality(Storing) \in Nat
  BY StoringFinite, FS_CardinalityType DEF TypeOK
<1>2. Storing' = {}
  BY IdleFields DEF Crash, Storing, At
<1>3. Cardinality(Storing') = 0
  BY <1>2, FS_EmptySet
<1>4. UNCHANGED <<conversations, messages>> /\ lost' = lost + Cardinality(Storing)
  BY DEF Crash, db
<1>5. UnreadIsBacked'
  BY <1>1, <1>3, <1>4 DEF UnreadIsBacked, Counters
<1>6. \A t \in Slots : reqs'[t].at = "store" => reqs'[t].missing = {}
  BY IdleFields DEF Crash
<1> QED BY <1>5, <1>6 DEF Counters

(* No unread counter ever announces a message that was neither stored, nor *)
(* is about to be, nor was lost with the process before it could be        *)
(* (initOrUpdateGroupConversations, createMessageInGroup, markAsRead).     *)
THEOREM UnreadBacked == Spec => []UnreadIsBacked
<1>1. Init => Counters
  BY DEF Init, Counters, UnreadIsBacked, Idle
<1>2. TypeOK /\ NothingSurvivesTheGroup /\ Counters /\ [Next]_vars => Counters'
  <2> SUFFICES ASSUME TypeOK, NothingSurvivesTheGroup, Counters, [Next]_vars
               PROVE  Counters'
    OBVIOUS
  <2>1. CASE \E s \in Slots : Enter(s) \/ Proceed(s)
    BY <2>1, EnterBacked, ProceedBacked
  <2>2. CASE Crash
    BY <2>2, CrashBacked
  <2>3. CASE UNCHANGED vars
    BY <2>3 DEF vars, db, Counters, UnreadIsBacked, Storing, At
  <2> QED BY <2>1, <2>2, <2>3 DEF Next, Done
<1>3. Counters => UnreadIsBacked
  BY DEF Counters
<1> QED BY <1>1, <1>2, <1>3, TypeCorrect, NothingSurvives, PTL DEF Spec
=============================================================================
