----------------------------- MODULE GroupChat -----------------------------
(***************************************************************************)
(* One chat group of the backend: its row, its members, the invitations to *)
(* it, the conversation rows its users see it through, and its messages.   *)
(*                                                                         *)
(* The HTTP handlers of chat.controller.ts are sequences of awaited SQL    *)
(* statements, and the statements of different requests interleave freely. *)
(* A request in progress occupies a slot; reqs[s] holds where its handler  *)
(* stands ("at") and what it read earlier and still relies on.  A handler  *)
(* is entered by its first read: a request that this read turns away       *)
(* answers an error and changes nothing, so it is no step here.            *)
(*                                                                         *)
(* The group is the only one: requests on other groups touch other rows.   *)
(* The handlers never ask whether a sender is a member, nor does the model.*)
(***************************************************************************)
EXTENDS Integers, FiniteSets

CONSTANTS
  Users,
  NoUser,         \* the NULL of the column chat_groups.manager
  Slots,          \* requests that may be in progress at the same time
  Ops,            \* the kinds of requests and events of a run
  Exclusive,      \* kinds of which one request at most is in progress
  Patient,        \* does nobody touch a group while its creation is handled?
  MaxRequests,    \* requests handled in a behaviour
  MaxRows         \* conversation rows, and invitations, a user may have

ASSUME NoUserAssumption == NoUser \notin Users
ASSUME BoundsAssumption == MaxRequests \in Nat /\ MaxRows \in Nat
ASSUME SlotsAssumption == IsFiniteSet(Slots)

VARIABLES
  group,          \* the row of chat_groups: "unborn", "live" or "gone"
  manager,        \* its manager column
  members,        \* the rows of chatgroup_members
  invitations,    \* group_invitations: <<invitee, n>> -> status
  conversations,  \* user_conversation: <<user, n>> -> unreadCount
  messages,       \* how many rows of message belong to the group
  admitted,       \* history: founders and users whose acceptance was saved
  reqs,           \* the request in each slot
  started,        \* how many requests have been received
  lost            \* history: messages that were counted but never stored,
                  \*   since their INSERT failed or the process stopped

db   == <<group, manager, members, invitations, conversations, messages, admitted>>
vars == <<db, reqs, started, lost>>

Keys == Users \X (1 .. MaxRows)

Statuses == {"pending", "accepted", "rejected"}

Kinds == {"create", "create2", "invite", "accept", "reject", "kick", "leave",
          "send", "erase", "read", "disband"}

Places == {"conversations", "invite", "mark", "saveRead", "saveWrite", "reinsert",
           "txRead", "findRow", "removeRow", "commit", "notify", "receivers",
           "store", "reset", "wipe"}

Idle ==
  [op |-> "none", at |-> "idle", by |-> NoUser, who |-> NoUser, inv |-> {},
   seen |-> {}, add |-> {}, drop |-> {}, guests |-> {},
   todo |-> {}, missing |-> {}, rows |-> {}]

Request ==
  [op : Kinds, at : Places, by : Users, who : Users \cup {NoUser}, inv : SUBSET Keys,
   seen : SUBSET Users, add : SUBSET Users, drop : SUBSET Users, guests : SUBSET Users,
   todo : SUBSET Users, missing : SUBSET Users, rows : SUBSET Keys]

TypeOK ==
  /\ group \in {"unborn", "live", "gone"}
  /\ manager \in Users \cup {NoUser}
  /\ members \in SUBSET Users
  /\ DOMAIN invitations \in SUBSET Keys
  /\ invitations \in [DOMAIN invitations -> Statuses]
  /\ DOMAIN conversations \in SUBSET Keys
  /\ conversations \in [DOMAIN conversations -> Nat]
  /\ messages \in Nat
  /\ admitted \in SUBSET Users
  /\ reqs \in [Slots -> Request \cup {Idle}]
  /\ started \in Nat
  /\ lost \in Nat

Init ==
  /\ group = "unborn"
  /\ manager = NoUser
  /\ members = {}
  /\ invitations = << >>
  /\ conversations = << >>
  /\ messages = 0
  /\ admitted = {}
  /\ reqs = [s \in Slots |-> Idle]
  /\ started = 0
  /\ lost = 0

-----------------------------------------------------------------------------
(***************************************************************************)
(* Requests.                                                               *)
(***************************************************************************)
Live == group = "live"

Creating == \E t \in Slots : reqs[t].op \in {"create", "create2"}

(* A new request takes a free slot.  The founders of a group see it in     *)
(* their conversations before the request that creates it is answered.     *)
Receive(s, op, fields) ==
  /\ op \in Ops
  /\ started < MaxRequests
  /\ reqs[s] = Idle
  /\ Patient => ~Creating
  /\ op \in Exclusive => \A t \in Slots : reqs[t].op \notin Exclusive
  /\ started' = started + 1
  /\ reqs' = [reqs EXCEPT ![s] = fields]
  /\ UNCHANGED lost

Continue(s, request) ==
  /\ reqs' = [reqs EXCEPT ![s] = request]
  /\ UNCHANGED <<started, lost>>

(* The handler returns, or throws and answers an error.                    *)
Answer(s) == Continue(s, Idle)

At(s, place) == reqs[s].at = place

(* Rows that a findAndCreate has not settled yet.                          *)
Settled(s) == reqs[s].todo = {} /\ reqs[s].missing = {}

-----------------------------------------------------------------------------
(***************************************************************************)
(* Rows.                                                                   *)
(***************************************************************************)
RowsOf(table, u) == {k \in DOMAIN table : k[1] = u}

(* Row ids are UUIDs: an id that a request still holds is not used again.  *)
Unused(k) ==
  /\ k \notin DOMAIN conversations
  /\ \A t \in Slots : k \notin reqs[t].rows

(* The least unused key stands for the fresh UUID.                         *)
FreshRow(k) ==
  /\ k \in Keys
  /\ Unused(k)
  /\ \A n \in 1 .. MaxRows : n < k[2] => ~Unused(<<k[1], n>>)

Insert(table, k, value) ==
  [j \in DOMAIN table \cup {k} |-> IF j = k THEN value ELSE table[j]]

Without(table, keys) == [j \in DOMAIN table \ keys |-> table[j]]

Taken(k) == k \in DOMAIN invitations \/ \E t \in Slots : k \in reqs[t].inv

(* createMultipleInvites saves one pending invitation per invitee, whether *)
(* or not the invitee has one already, or is a member.                     *)
Invited(S) ==
  LET fresh == {k \in Keys : /\ k[1] \in S
                             /\ ~Taken(k)
                             /\ \A n \in 1 .. MaxRows : n < k[2] => Taken(<<k[1], n>>)}
  IN  [j \in DOMAIN invitations \cup fresh |->
         IF j \in fresh THEN "pending" ELSE invitations[j]]

(* The bound on invitations: none is requested that would not fit.         *)
Promised(u) == Cardinality({t \in Slots : u \in reqs[t].guests})
Fits(u) == Cardinality({n \in 1 .. MaxRows : Taken(<<u, n>>)}) + Promised(u) < MaxRows

-----------------------------------------------------------------------------
(***************************************************************************)
(* Founding a group: POST /chat/group saves the group with its manager as  *)
(* only member and invites the others, POST /chat/group/api2 saves it with *)
(* all of them as members.                                                 *)
(***************************************************************************)
\* Mutant of Found: whoever is to be invited is saved as a member at once.
FoundWithGuests(s, u, op, F, G) ==
  /\ group = "unborn"
  /\ Receive(s, op, [Idle EXCEPT !.op = op, !.at = "conversations", !.by = u,
                                 !.todo = F, !.guests = G])
  /\ group' = "live" /\ manager' = u
  /\ members' = F \cup G /\ admitted' = admitted \cup F
  /\ UNCHANGED <<invitations, conversations, messages>>

Found(s, u, op, F, G) ==
  /\ group = "unborn"
  /\ Receive(s, op, [Idle EXCEPT !.op = op, !.at = "conversations", !.by = u,
                                 !.todo = F, !.guests = G])
  /\ group' = "live"
  /\ manager' = u
  /\ members' = F
  /\ admitted' = admitted \cup F
  /\ UNCHANGED <<invitations, conversations, messages>>

CreateChatGroup(s, u, G)  == Found(s, u, "create", {u}, G)
CreateChatGroup2(s, u, F) == Found(s, u, "create2", F \cup {u}, {})

FoundersInformed(s) ==
  /\ reqs[s].op = "create2"
  /\ At(s, "conversations")
  /\ Settled(s)
  /\ Answer(s)
  /\ UNCHANGED db

(* POST /chat/group/:id/manager/members: the guard's read.                 *)
AddMember(s, u, G) ==
  /\ Live
  /\ manager = u
  /\ \A v \in G : Fits(v)
  /\ Receive(s, "invite", [Idle EXCEPT !.op = "invite", !.at = "invite", !.by = u,
                                       !.guests = G])
  /\ UNCHANGED db

(* The invitations are saved in one transaction; their foreign key needs   *)
(* the group.                                                              *)
CreateMultipleInvites(s) ==
  /\ \/ At(s, "invite")
     \/ At(s, "conversations") /\ reqs[s].op = "create" /\ Settled(s)
  /\ invitations' = IF Live THEN Invited(reqs[s].guests) ELSE invitations
  /\ Answer(s)
  /\ UNCHANGED <<group, manager, members, conversations, messages, admitted>>

-----------------------------------------------------------------------------
(***************************************************************************)
(* UserConversationService.findAndCreate: for every user at once, look for *)
(* a conversation row and insert one if there is none.  Nothing but the    *)
(* foreign key on the group constrains the insertion.                      *)
(***************************************************************************)
\* Mutant of FindConversation: a row is created without looking for one.
AlwaysMissing(s, u) ==
  /\ reqs[s].at \in {"conversations", "receivers"} /\ u \in reqs[s].todo
  /\ Continue(s, [reqs[s] EXCEPT !.todo = @ \ {u}, !.missing = @ \cup {u}])
  /\ UNCHANGED db

FindConversation(s, u) ==
  /\ reqs[s].at \in {"conversations", "receivers"}
  /\ u \in reqs[s].todo
  /\ \/ /\ RowsOf(conversations, u) = {}
        /\ Continue(s, [reqs[s] EXCEPT !.todo = @ \ {u}, !.missing = @ \cup {u}])
     \/ \E k \in RowsOf(conversations, u) :
          Continue(s, [reqs[s] EXCEPT !.todo = @ \ {u}, !.rows = @ \cup {k}])
  /\ UNCHANGED db

\* Mutant of CreateConversation: user_conversation without its foreign key.
CreateConversationUnchecked(s, u) ==
  /\ u \in reqs[s].missing
  /\ \E k \in {u} \X (1 .. MaxRows) :
       /\ FreshRow(k)
       /\ conversations' = Insert(conversations, k, 0)
       /\ Continue(s, [reqs[s] EXCEPT !.missing = @ \ {u}, !.rows = @ \cup {k}])
  /\ UNCHANGED <<group, manager, members, invitations, messages, admitted>>

CreateConversation(s, u) ==
  /\ u \in reqs[s].missing
  /\ \/ /\ Live
        /\ \E k \in {u} \X (1 .. MaxRows) :
             /\ FreshRow(k)
             /\ conversations' = Insert(conversations, k, 0)
             /\ Continue(s, [reqs[s] EXCEPT !.missing = @ \ {u}, !.rows = @ \cup {k}])
     \/ /\ ~Live
        /\ Answer(s)
        /\ UNCHANGED conversations
  /\ UNCHANGED <<group, manager, members, invitations, messages, admitted>>

-----------------------------------------------------------------------------
(***************************************************************************)
(* PATCH /chat/group/invitation/:id.  updateInvitation reads the invitation*)
(* with the members of its group; neither its status nor its expiry is     *)
(* looked at.  Saving the new status needs the group (foreign key); a row  *)
(* that is gone is inserted again, if only the group has come back.        *)
(***************************************************************************)
UpdateInvitation(s, u, n, op) ==
  /\ op \in {"accept", "reject"}
  /\ <<u, n>> \in DOMAIN invitations
  /\ op = "accept" => u \notin members
  /\ Receive(s, op, [Idle EXCEPT !.op = op, !.at = "mark", !.by = u,
                              !.inv = {<<u, n>>}])
  /\ UNCHANGED db

\* Mutant of MarkInvitation: no return after a rejection.
MarkAndGoOn(s) ==
  LET r == reqs[s]
  IN  /\ At(s, "mark") /\ Live
      /\ admitted' = IF r.op = "accept" THEN admitted \cup {r.by} ELSE admitted
      /\ Continue(s, [r EXCEPT !.at = "conversations", !.op = "accept", !.inv = {},
                               !.todo = {r.by}])
      /\ UNCHANGED <<group, manager, members, invitations, conversations, messages>>

MarkInvitation(s) ==
  LET r      == reqs[s]
      status == IF r.op = "accept" THEN "accepted" ELSE "rejected"
  IN  /\ At(s, "mark")
      /\ invitations' = IF Live THEN [k \in DOMAIN invitations \cup r.inv |->
                                        IF k \in r.inv THEN status ELSE invitations[k]]
                                ELSE invitations
      /\ \/ /\ Live /\ r.op = "accept"
            /\ admitted' = admitted \cup {r.by}
            /\ Continue(s, [r EXCEPT !.at = "conversations", !.inv = {}, !.todo = {r.by}])
         \/ /\ ~(Live /\ r.op = "accept")
            /\ Answer(s)
            /\ UNCHANGED admitted
      /\ UNCHANGED <<group, manager, members, conversations, messages>>

(* addMemberToGroup: the group is read again, the user is pushed on the    *)
(* array of members that was read, and the array is saved.                 *)
\* Mutant of ReadMembers: the group is loaded without its members relation.
ReadMembersUnloaded(s) ==
  /\ At(s, "conversations") /\ reqs[s].op = "accept" /\ Settled(s) /\ Live
  /\ Continue(s, [reqs[s] EXCEPT !.at = "saveRead", !.rows = {}, !.seen = {}])
  /\ UNCHANGED db

ReadMembers(s) ==
  /\ At(s, "conversations") /\ reqs[s].op = "accept"
  /\ Settled(s)
  /\ IF Live /\ reqs[s].by \notin members
       THEN Continue(s, [reqs[s] EXCEPT !.at = "saveRead", !.rows = {}, !.seen = members])
       ELSE Answer(s)
  /\ UNCHANGED db

(* Repository.save first reads the stored group and its member ids and     *)
(* compares them with the array: members that are not in the array are to  *)
(* be deleted, entries of the array that are not stored to be inserted.    *)
(* When it finds no group it is to insert the group again, from an entity  *)
(* that was loaded without its manager.                                    *)
SaveRead(s) ==
  LET r     == reqs[s]
      array == r.seen \cup {r.by}
  IN  /\ At(s, "saveRead")
      /\ IF Live
           THEN Continue(s, [r EXCEPT !.at = "saveWrite", !.seen = {},
                                      !.add = array \ members, !.drop = members \ array])
           ELSE Continue(s, [r EXCEPT !.at = "reinsert", !.seen = {}, !.add = array])
      /\ UNCHANGED db

Joined(s) == Continue(s, [reqs[s] EXCEPT !.at = "notify", !.add = {}, !.drop = {}])

(* The writes are one transaction; a duplicate key or a missing group      *)
(* undoes it.                                                              *)
SaveWrite(s) ==
  LET r == reqs[s]
  IN  /\ At(s, "saveWrite")
      /\ \/ /\ r.add \cap members = {}
            /\ Live \/ r.add = {}
            /\ members' = (members \ r.drop) \cup r.add
            /\ Joined(s)
         \/ /\ ~(r.add \cap members = {} /\ (Live \/ r.add = {}))
            /\ Answer(s)
            /\ UNCHANGED members
      /\ UNCHANGED <<group, manager, invitations, conversations, messages, admitted>>

Reinsert(s) ==
  /\ At(s, "reinsert")
  /\ \/ /\ ~Live
        /\ group' = "live"
        /\ members' = reqs[s].add
        /\ Joined(s)
     \/ /\ Live
        /\ Answer(s)
        /\ UNCHANGED <<group, members>>
  /\ UNCHANGED <<manager, invitations, conversations, messages, admitted>>

-----------------------------------------------------------------------------
(***************************************************************************)
(* deleteMemberFromGroup, for the manager's kick and a member's own leave. *)
(* Its transaction reads one snapshot, so saving the filtered array deletes*)
(* the one member whatever happened since; but the conversation row is     *)
(* looked up and removed on another connection, outside the transaction.   *)
(***************************************************************************)
KickMember(s, u, v) ==
  /\ Live
  /\ manager = u
  /\ u # v
  /\ Receive(s, "kick", [Idle EXCEPT !.op = "kick", !.at = "txRead", !.by = u, !.who = v])
  /\ UNCHANGED db

BeginRemoval(s) ==
  /\ At(s, "txRead")
  /\ IF Live /\ reqs[s].who \in members
       THEN Continue(s, [reqs[s] EXCEPT !.at = "findRow"])
       ELSE Answer(s)
  /\ UNCHANGED db

LeaveGroup(s, u) ==
  /\ Live
  /\ u \in members
  /\ Receive(s, "leave", [Idle EXCEPT !.op = "leave", !.at = "findRow", !.by = u, !.who = u])
  /\ UNCHANGED db

(* Without a conversation row the request fails and the transaction rolls  *)
(* back.  Promise.all does not wait for the save still running on the      *)
(* transaction's connection: its DELETE may be queued behind the ROLLBACK  *)
(* and take effect alone.                                                  *)
\* Mutant of FindRemovedConversation: the conversation row is left alone.
KeepConversation(s) ==
  /\ At(s, "findRow")
  /\ Continue(s, [reqs[s] EXCEPT !.at = "commit"])
  /\ UNCHANGED db

FindRemovedConversation(s) ==
  LET r == reqs[s]
  IN  /\ At(s, "findRow")
      /\ \/ \E k \in RowsOf(conversations, r.who) :
              /\ Continue(s, [r EXCEPT !.at = "removeRow", !.rows = {k}])
              /\ UNCHANGED members
         \/ /\ RowsOf(conversations, r.who) = {}
            /\ members' \in {members, members \ {r.who}}
            /\ Answer(s)
      /\ UNCHANGED <<group, manager, invitations, conversations, messages, admitted>>

CommitRemoval(s) ==
  /\ At(s, "commit")
  /\ members' = members \ {reqs[s].who}
  /\ Continue(s, [reqs[s] EXCEPT !.at = "notify", !.who = NoUser])
  /\ UNCHANGED <<group, manager, invitations, conversations, messages, admitted>>

-----------------------------------------------------------------------------
(***************************************************************************)
(* A user's own conversation: DELETE /chat/:id and PATCH unreadCount.      *)
(***************************************************************************)
DeleteConversation(s, u) ==
  \E k \in RowsOf(conversations, u) :
    /\ Receive(s, "erase", [Idle EXCEPT !.op = "erase", !.at = "removeRow", !.by = u,
                                        !.rows = {k}])
    /\ UNCHANGED db

RemoveRow(s) ==
  /\ At(s, "removeRow")
  /\ conversations' = Without(conversations, reqs[s].rows)
  /\ IF reqs[s].op = "erase"
       THEN Answer(s)
       ELSE Continue(s, [reqs[s] EXCEPT !.at = "commit", !.rows = {}])
  /\ UNCHANGED <<group, manager, members, invitations, messages, admitted>>

ReadAllGroup(s, u) ==
  \E k \in RowsOf(conversations, u) :
    /\ Receive(s, "read", [Idle EXCEPT !.op = "read", !.at = "reset", !.by = u, !.rows = {k}])
    /\ UNCHANGED db

\* Mutant of ResetUnread: one message is marked as read, not all of them.
DecrementUnread(s) ==
  /\ At(s, "reset")
  /\ conversations' = [k \in DOMAIN conversations |->
                         IF k \in reqs[s].rows THEN conversations[k] - 1 ELSE conversations[k]]
  /\ Answer(s)
  /\ UNCHANGED <<group, manager, members, invitations, messages, admitted>>

ResetUnread(s) ==
  /\ At(s, "reset")
  /\ conversations' = [k \in DOMAIN conversations |->
                         IF k \in reqs[s].rows THEN 0 ELSE conversations[k]]
  /\ Answer(s)
  /\ UNCHANGED <<group, manager, members, invitations, messages, admitted>>

-----------------------------------------------------------------------------
(***************************************************************************)
(* sendSystemMessageToGroup, for users' messages and for the notice that   *)
(* ends accept, kick and leave: read the members, find or create a         *)
(* conversation for every other one, add 1 to all their counters in one    *)
(* UPDATE, then insert the message.  The INSERT fails on a group that is   *)
(* gone and on a text too long for its column; nothing takes the counters  *)
(* back.                                                                   *)
(***************************************************************************)
SendMessageGroup(s, u) ==
  /\ Live
  /\ Receive(s, "send", [Idle EXCEPT !.op = "send", !.at = "receivers", !.by = u,
                                     !.todo = members \ {u}])
  /\ UNCHANGED db

ReadReceivers(s) ==
  /\ At(s, "notify")
  /\ IF Live
       THEN Continue(s, [reqs[s] EXCEPT !.at = "receivers", !.todo = members \ {reqs[s].by}])
       ELSE Answer(s)
  /\ UNCHANGED db

\* Mutant of IncrementUnread: the UPDATE of all rows is issued once per row.
IncrementPerRow(s) ==
  /\ At(s, "receivers") /\ Settled(s)
  /\ conversations' = [k \in DOMAIN conversations |->
                         IF k \in reqs[s].rows
                         THEN conversations[k] + Cardinality(reqs[s].rows) ELSE conversations[k]]
  /\ Continue(s, [reqs[s] EXCEPT !.at = "store", !.rows = {}])
  /\ UNCHANGED <<group, manager, members, invitations, messages, admitted>>

IncrementUnread(s) ==
  /\ At(s, "receivers")
  /\ Settled(s)
  /\ conversations' = [k \in DOMAIN conversations |->
                         IF k \in reqs[s].rows THEN conversations[k] + 1 ELSE conversations[k]]
  /\ Continue(s, [reqs[s] EXCEPT !.at = "store", !.rows = {}])
  /\ UNCHANGED <<group, manager, members, invitations, messages, admitted>>

CreateMessageInGroup(s) ==
  /\ At(s, "store")
  /\ \/ Live /\ messages' = messages + 1 /\ UNCHANGED lost
     \/ lost' = lost + 1 /\ UNCHANGED messages
  /\ reqs' = [reqs EXCEPT ![s] = Idle]
  /\ UNCHANGED <<started, group, manager, members, invitations, conversations, admitted>>

-----------------------------------------------------------------------------
(***************************************************************************)
(* DELETE /chat/group/:id: one transaction, and the cascades of the foreign*)
(* keys on the group's row.                                                *)
(***************************************************************************)
DeleteGroup(s, u) ==
  /\ Live
  /\ manager = u
  /\ Receive(s, "disband", [Idle EXCEPT !.op = "disband", !.at = "wipe", !.by = u])
  /\ UNCHANGED db

Wipe(s) ==
  /\ At(s, "wipe")
  /\ \/ /\ Live
        /\ group' = "gone"
        /\ manager' = NoUser
        /\ members' = {}
        /\ invitations' = << >>
        /\ conversations' = << >>
        /\ messages' = 0
     \/ ~Live /\ UNCHANGED <<group, manager, members, invitations, conversations, messages>>
  /\ Answer(s)
  /\ UNCHANGED admitted

-----------------------------------------------------------------------------
(***************************************************************************)
(* The process stops with every request it was handling, and an open       *)
(* transaction with it.  A message whose receivers have been counted it,   *)
(* and which was not stored yet, is lost: nobody sends it again.           *)
(***************************************************************************)
Storing == {s \in Slots : At(s, "store")}

Crash ==
  /\ "crash" \in Ops
  /\ started < MaxRequests
  /\ \E s \in Slots : reqs[s] # Idle
  /\ reqs' = [s \in Slots |-> Idle]
  /\ started' = started + 1
  /\ lost' = lost + Cardinality(Storing)
  /\ UNCHANGED db

(* The end of a bounded behaviour: every request has been answered.        *)
Done ==
  /\ started = MaxRequests \/ group = "gone"
  /\ \A s \in Slots : reqs[s] = Idle
  /\ UNCHANGED vars

Enter(s) ==
  \E u \in Users :
    \/ \E G \in SUBSET Users : CreateChatGroup(s, u, G)
    \/ \E F \in SUBSET Users : CreateChatGroup2(s, u, F)
    \/ \E G \in (SUBSET Users) \ {{}} : AddMember(s, u, G)
    \/ \E n \in 1 .. MaxRows, op \in {"accept", "reject"} : UpdateInvitation(s, u, n, op)
    \/ \E v \in Users : KickMember(s, u, v)
    \/ LeaveGroup(s, u)
    \/ DeleteConversation(s, u)
    \/ ReadAllGroup(s, u)
    \/ SendMessageGroup(s, u)
    \/ DeleteGroup(s, u)

Proceed(s) ==
  \/ FoundersInformed(s)
  \/ CreateMultipleInvites(s)
  \/ \E u \in Users : FindConversation(s, u) \/ CreateConversation(s, u)
  \/ MarkInvitation(s)
  \/ ReadMembers(s)
  \/ SaveRead(s)
  \/ SaveWrite(s)
  \/ Reinsert(s)
  \/ BeginRemoval(s)
  \/ FindRemovedConversation(s)
  \/ RemoveRow(s)
  \/ CommitRemoval(s)
  \/ ResetUnread(s)
  \/ ReadReceivers(s)
  \/ IncrementUnread(s)
  \/ CreateMessageInGroup(s)
  \/ Wipe(s)

Next ==
  \/ \E s \in Slots : Enter(s) \/ Proceed(s)
  \/ Crash
  \/ Done

Spec == Init /\ [][Next]_vars

-----------------------------------------------------------------------------
(***************************************************************************)
(* Properties.                                                             *)
(***************************************************************************)
(* Nobody becomes a member of the group, not even through a member list    *)
(* that a request read long ago, without having founded it or having       *)
(* accepted an invitation (updateInvitation, addMemberToGroup).            *)
MembersWereAdmitted == members \subseteq admitted

(* A group that is not there has no member, invitation, conversation or    *)
(* message left, whatever requests were under way when it was deleted      *)
(* (deleteGroup and the foreign keys every insertion runs into).           *)
NothingSurvivesTheGroup ==
  ~Live => /\ members = {}
           /\ DOMAIN invitations = {}
           /\ DOMAIN conversations = {}
           /\ messages = 0
           /\ manager = NoUser

(* A counter never announces more than was said: unreadCount is at most the*)
(* number of stored messages, plus one for each request between the UPDATE *)
(* of the counters and the INSERT of its message, plus one for each whose  *)
(* INSERT failed or was never run (initOrUpdateGroupConversations,         *)
(* createMessageInGroup).                                                  *)
UnreadIsBacked ==
  \A k \in DOMAIN conversations : conversations[k] <= messages + Cardinality(Storing) + lost

(* Of every member that disappears, this member or the manager asked for   *)
(* it, or the group was deleted (addMemberToGroup may not remove anyone).  *)
OnlyRemovedMembersVanish ==
  [][ group' = "live" =>
        \A u \in members \ members' :
          \E s \in Slots : reqs[s].op \in {"kick", "leave"} /\ reqs[s].who = u ]_vars

(* A deleted group does not come back (deleteGroup, addMemberToGroup).     *)
DisbandedForGood == [][group = "gone" => group' = "gone"]_vars

(* Between requests, whoever sees the group in the list of conversations   *)
(* is a member (acceptInvitation, kickMember, leaveGroup, findAndCreate).  *)
OnlyMembersHaveConversations ==
  (\A s \in Slots : reqs[s] = Idle) =>
    \A k \in DOMAIN conversations : k[1] \in members

(* findAndCreate leaves a user with a single conversation row.             *)
OneConversationPerUser ==
  \A k, j \in DOMAIN conversations : k[1] = j[1] => k = j

(* The handlers keep the promise of Membership.                            *)
Promise == INSTANCE Membership WITH
             Users <- Users, group <- group, members <- members, admitted <- admitted
MembershipPromise == Promise!Spec
=============================================================================
