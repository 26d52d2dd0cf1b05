----------------------------- MODULE DirectChat -----------------------------
(***************************************************************************)
(* The direct chats of two users: the rows of chat between them, the       *)
(* conversation row through which each of them sees a chat, and how many   *)
(* messages each was sent.  Unlike in groups the unread counter is read,   *)
(* increased in memory and saved (UpdateUnreadMessages), and a save of a   *)
(* row that is gone inserts it again.                                      *)
(*                                                                         *)
(* Chats are never deleted.  As in GroupChat a request occupies a slot from*)
(* its first successful read to its answer.  Any of its calls may fail, and*)
(* nothing that it wrote before is taken back.                             *)
(***************************************************************************)
EXTENDS Integers, FiniteSets

CONSTANTS
  Users,          \* the two users
  Slots,          \* requests that may be in progress at the same time
  MaxRequests,    \* requests handled in a behaviour
  MaxRows         \* chats a user may create, and rows for a user and a chat

ASSUME PairAssumption == \E u, v \in Users : u # v /\ Users = {u, v}
ASSUME SlotsAssumption == IsFiniteSet(Slots)
ASSUME BoundsAssumption == MaxRequests \in Nat /\ MaxRows \in Nat

VARIABLES
  chats,          \* the rows of chat, as <<sender, n>>
  rows,           \* user_conversation: <<user, chat, n>> -> unread, start
  messages,       \* how many messages were stored in a chat for a user
  unseen,         \* history: messages stored for a row since it was last at 0
  lost,           \* history: messages counted for a user, and never stored
  reqs,
  started,
  apart           \* do clients keep requests on the same user's rows apart?

db   == <<chats, rows, messages, unseen>>
vars == <<db, lost, reqs, started, apart>>

Peer(u) == CHOOSE v \in Users : v # u

ChatIds == Users \X (1 .. MaxRows)
Keys    == Users \X ChatIds \X (1 .. MaxRows)
NoChat  == <<>>
NoKey   == <<>>

(* start: is the column startTime set?  Without it the whole history shows.*)
Row == [unread : Nat, start : BOOLEAN]

Kinds  == {"create", "send", "read", "erase"}
Places == {"insertChat", "find", "insertRow", "saveRead", "update", "reinsert",
           "store", "reset", "remove"}

(* owner: whose conversation row the request is about.  held: the unread   *)
(* count in memory; new: did this request create the row?                  *)
Idle == [op |-> "none", at |-> "idle", owner |-> "nobody", chat |-> NoChat,
         key |-> NoKey, held |-> 0, new |-> FALSE]

Request == [op : Kinds, at : Places, owner : Users, chat : ChatIds \cup {NoChat},
            key : Keys \cup {NoKey}, held : Nat, new : BOOLEAN]

TypeOK ==
  /\ chats \in SUBSET ChatIds
  /\ DOMAIN rows \in SUBSET Keys
  /\ rows \in [DOMAIN rows -> Row]
  /\ messages \in [ChatIds \X Users -> Nat]
  /\ unseen \in [DOMAIN rows -> Nat]
  /\ lost \in [ChatIds \X Users -> Nat]
  /\ reqs \in [Slots -> Request \cup {Idle}]
  /\ started \in 0 .. MaxRequests
  /\ apart \in BOOLEAN

Init ==
  /\ chats = {}
  /\ rows = << >>
  /\ messages = [ca \in ChatIds \X Users |-> 0]
  /\ unseen = << >>
  /\ lost = [ca \in ChatIds \X Users |-> 0]
  /\ reqs = [s \in Slots |-> Idle]
  /\ started = 0
  /\ apart \in BOOLEAN

-----------------------------------------------------------------------------
At(s, place) == reqs[s].at = place

(* Nothing in the code keeps requests apart; clients that do have one      *)
(* request per row owner in progress, and one creation of a chat.          *)
Conflict(op, owner) ==
  \E t \in Slots :
    /\ reqs[t] # Idle
    /\ \/ reqs[t].owner = owner
       \/ op = "create" /\ reqs[t].op = "create"

Receive(s, request) ==
  /\ started < MaxRequests
  /\ reqs[s] = Idle
  /\ apart => ~Conflict(request.op, request.owner)
  /\ started' = started + 1
  /\ reqs' = [reqs EXCEPT ![s] = request]
  /\ UNCHANGED <<lost, apart>>

Continue(s, request) ==
  /\ reqs' = [reqs EXCEPT ![s] = request]
  /\ UNCHANGED <<lost, started, apart>>

Answer(s) == Continue(s, Idle)

RowsOf(u, c) == {k \in DOMAIN rows : k[1] = u /\ k[2] = c}

(* Fresh UUIDs: the least number that no row has and no request holds.     *)
Unused(k) == k \notin DOMAIN rows /\ \A t \in Slots : reqs[t].key # k
FreshKey(k) == Unused(k) /\ \A n \in 1 .. MaxRows : n < k[3] => ~Unused(<<k[1], k[2], n>>)
FreshChat(c) == c \notin chats /\ \A n \in 1 .. MaxRows : n < c[2] => <<c[1], n>> \in chats

Put(table, k, value) == [j \in DOMAIN table \cup {k} |-> IF j = k THEN value ELSE table[j]]
Drop(table, k) == [j \in DOMAIN table \ {k} |-> table[j]]

-----------------------------------------------------------------------------
\* Mutant of Existing: a chat the other user created is not found.
ExistingOneWay(u) == {c \in chats : c[1] = u}

(* checkExists looks for a chat in both directions.                        *)
Existing(u) == {c \in chats : c[1] \in {u, Peer(u)}}

(* POST /chat: createChat, then findAndCreate for the caller.              *)
CreateChat(s, u) ==
  LET request(place, c) == [Idle EXCEPT !.op = "create", !.at = place, !.owner = u,
                                        !.chat = c]
  IN  /\ IF Existing(u) = {}
           THEN Receive(s, request("insertChat", NoChat))
           ELSE \E c \in Existing(u) : Receive(s, request("find", c))
      /\ UNCHANGED db

InsertChat(s) ==
  /\ At(s, "insertChat")
  /\ \E c \in {reqs[s].owner} \X (1 .. MaxRows) :
       /\ FreshChat(c)
       /\ chats' = chats \cup {c}
       /\ Continue(s, [reqs[s] EXCEPT !.at = "find", !.chat = c])
  /\ UNCHANGED <<rows, messages, unseen>>

(* POST /chat/:id/message: getchatById, then UpdateUnreadMessages for the  *)
(* addressee and createMessage.  The addressee is the other user of the    *)
(* chat; nobody is asked to be one of the two, and to whoever is not, the  *)
(* other user is the one who created the chat.                             *)
SendMessage(s, to, c) ==
  /\ c \in chats
  /\ Receive(s, [Idle EXCEPT !.op = "send", !.at = "find", !.owner = to, !.chat = c])
  /\ UNCHANGED db

(* findAndCreate: a caller that only creates the chat is answered now.     *)
FindRow(s) ==
  LET r == reqs[s]
  IN  /\ At(s, "find")
      /\ \/ /\ RowsOf(r.owner, r.chat) = {}
            /\ Continue(s, [r EXCEPT !.at = "insertRow"])
         \/ \E k \in RowsOf(r.owner, r.chat) :
              IF r.op = "create"
                THEN Answer(s)
                ELSE Continue(s, [r EXCEPT !.at = "saveRead", !.key = k, !.held = rows[k].unread])
      /\ UNCHANGED db

\* Mutant of NewRow: the new row gets no startTime.
NewRowFromTheStart == [unread |-> 0, start |-> FALSE]
NewRow == [unread |-> 0, start |-> TRUE]

InsertRow(s) ==
  LET r == reqs[s]
  IN  /\ At(s, "insertRow")
      /\ \E k \in {<<r.owner, r.chat, n>> : n \in 1 .. MaxRows} :
           /\ FreshKey(k)
           /\ rows' = Put(rows, k, NewRow)
           /\ unseen' = Put(unseen, k, 0)
           /\ IF r.op = "create"
                THEN Answer(s)
                ELSE Continue(s, [r EXCEPT !.at = "saveRead", !.key = k, !.new = TRUE])
      /\ UNCHANGED <<chats, messages>>

\* Mutant of SaveRead: a row that was just created is not saved again.
SaveReadUnlessNew(s) ==
  LET r == reqs[s]
  IN  /\ At(s, "saveRead")
      /\ Continue(s, [r EXCEPT !.at = IF r.new THEN "store" ELSE "update"])
      /\ UNCHANGED db

(* Repository.save reads the stored row first: it updates the counter if   *)
(* the stored one differs, and inserts a row that it does not find.        *)
SaveRead(s) ==
  LET r == reqs[s]
  IN  /\ At(s, "saveRead")
      /\ Continue(s, [r EXCEPT !.at =
           IF r.key \notin DOMAIN rows THEN "reinsert"
           ELSE IF rows[r.key].unread # r.held + 1 THEN "update" ELSE "store"])
      /\ UNCHANGED db

\* Mutant of UpdateRow: the saved count is added to the stored one.
UpdateRowByAdding(s) ==
  LET r == reqs[s]
  IN  /\ At(s, "update")
      /\ rows' = IF r.key \in DOMAIN rows
                 THEN [rows EXCEPT ![r.key].unread = @ + r.held + 1] ELSE rows
      /\ Continue(s, [r EXCEPT !.at = "store"])
      /\ UNCHANGED <<chats, messages, unseen>>

(* An UPDATE of a row that is gone touches nothing.                        *)
UpdateRow(s) ==
  LET r == reqs[s]
  IN  /\ At(s, "update")
      /\ rows' = IF r.key \in DOMAIN rows
                 THEN [rows EXCEPT ![r.key].unread = r.held + 1] ELSE rows
      /\ Continue(s, [r EXCEPT !.at = "store"])
      /\ UNCHANGED <<chats, messages, unseen>>

(* The entity found earlier was loaded without startTime, so the row comes *)
(* back without one; a row that came back meanwhile is a duplicate key.    *)
ReinsertRow(s) ==
  LET r == reqs[s]
  IN  /\ At(s, "reinsert")
      /\ IF r.key \in DOMAIN rows
           THEN Answer(s) /\ UNCHANGED <<rows, unseen>>
           ELSE /\ rows' = Put(rows, r.key, [unread |-> r.held + 1, start |-> r.new])
                /\ unseen' = Put(unseen, r.key, 0)
                /\ Continue(s, [r EXCEPT !.at = "store"])
      /\ UNCHANGED <<chats, messages>>

(* createMessage; the notification job and the answer change no row.  Its  *)
(* INSERT may fail (Fail), and does on a text too long for the column.     *)
CreateMessage(s) ==
  LET r == reqs[s]
  IN  /\ At(s, "store")
      /\ messages' = [messages EXCEPT ![<<r.chat, r.owner>>] = @ + 1]
      /\ unseen' = [k \in DOMAIN unseen |->
                      IF k \in RowsOf(r.owner, r.chat) THEN unseen[k] + 1 ELSE unseen[k]]
      /\ Answer(s)
      /\ UNCHANGED <<chats, rows>>

(* PATCH /chat/:id/unreadCount: readAll finds the row, then updates it.    *)
ReadAll(s, u, c) ==
  /\ \E k \in RowsOf(u, c) :
       Receive(s, [Idle EXCEPT !.op = "read", !.at = "reset", !.owner = u, !.chat = c,
                               !.key = k])
  /\ UNCHANGED db

\* Mutant of ResetRow: one message is marked as read, not all of them.
ResetOne(s) ==
  /\ At(s, "reset") /\ reqs[s].key \in DOMAIN rows
  /\ rows' = [rows EXCEPT ![reqs[s].key].unread = @ - 1]
  /\ Answer(s)
  /\ UNCHANGED <<chats, messages, unseen>>

ResetRow(s) ==
  LET k == reqs[s].key
  IN  /\ At(s, "reset")
      /\ rows' = IF k \in DOMAIN rows THEN [rows EXCEPT ![k].unread = 0] ELSE rows
      /\ unseen' = IF k \in DOMAIN rows THEN [unseen EXCEPT ![k] = 0] ELSE unseen
      /\ Answer(s)
      /\ UNCHANGED <<chats, messages>>

(* DELETE /chat/:id: the row is found, then removed.                       *)
DeleteConversation(s, u, c) ==
  /\ \E k \in RowsOf(u, c) :
       Receive(s, [Idle EXCEPT !.op = "erase", !.at = "remove", !.owner = u, !.chat = c,
                               !.key = k])
  /\ UNCHANGED db

RemoveRow(s) ==
  /\ At(s, "remove")
  /\ rows' = Drop(rows, reqs[s].key)
  /\ unseen' = Drop(unseen, reqs[s].key)
  /\ Answer(s)
  /\ UNCHANGED <<chats, messages>>

(* A call of the handler throws, or the process stops.  What the statements*)
(* before did stays: a message that was counted and not stored is lost.  A *)
(* statement that is carried out and then throws is its step and this one. *)
Fail(s) ==
  LET r == reqs[s]
  IN  /\ r # Idle
      /\ reqs' = [reqs EXCEPT ![s] = Idle]
      /\ lost' = IF r.at = "store" THEN [lost EXCEPT ![<<r.chat, r.owner>>] = @ + 1] ELSE lost
      /\ UNCHANGED <<db, started, apart>>

(* The end of a bounded behaviour.                                         *)
Done ==
  /\ started = MaxRequests
  /\ \A s \in Slots : reqs[s] = Idle
  /\ UNCHANGED vars

Next ==
  \/ \E s \in Slots :
       \/ \E u \in Users :
            \/ CreateChat(s, u)
            \/ \E c \in chats : SendMessage(s, u, c) \/ ReadAll(s, u, c) \/ DeleteConversation(s, u, c)
       \/ InsertChat(s)
       \/ FindRow(s)
       \/ InsertRow(s)
       \/ SaveRead(s)
       \/ UpdateRow(s)
       \/ ReinsertRow(s)
       \/ CreateMessage(s)
       \/ ResetRow(s)
       \/ RemoveRow(s)
       \/ Fail(s)
  \/ Done

Spec == Init /\ [][Next]_vars

-----------------------------------------------------------------------------
(***************************************************************************)
(* Properties.                                                             *)
(***************************************************************************)
StoringFor(k) == {s \in Slots : At(s, "store") /\ reqs[s].owner = k[1] /\ reqs[s].chat = k[2]}

(* However the sends, reads and deletions of one row overlap, its counter  *)
(* stays within what the user was sent, plus the messages about to be      *)
(* stored, plus those that were counted and could not be stored            *)
(* (UpdateUnreadMessages, createMessage).                                  *)
UnreadIsBacked ==
  \A k \in DOMAIN rows :
    LET mine == <<k[2], k[1]>>
    IN  rows[k].unread <= messages[mine] + Cardinality(StoringFor(k)) + lost[mine]

(* With the requests on a row kept apart, the counter misses no message    *)
(* that was stored for the user since the row was created or read, and     *)
(* exceeds them only by messages that were counted and could not be stored.*)
UnreadIsExact ==
  apart => \A k \in DOMAIN rows :
    (\A s \in Slots : reqs[s] = Idle \/ reqs[s].owner # k[1]) =>
      rows[k].unread \in unseen[k] .. (unseen[k] + lost[<<k[2], k[1]>>])

(* With the requests on a row kept apart, a conversation that was deleted  *)
(* and comes back with the next message starts at that message: startTime  *)
(* is set on every row (findAndCreate, getStartTime).                      *)
HistoryStaysHidden == apart => \A k \in DOMAIN rows : rows[k].start

(* With creations kept apart, two users have one chat, whoever asked first *)
(* (checkExists), and each of them one row for it (findAndCreate).         *)
OneChatPerPair ==
  apart => /\ Cardinality(chats) <= 1
           /\ \A k, j \in DOMAIN rows : k[1] = j[1] => k = j
=============================================================================
