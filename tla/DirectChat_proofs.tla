-------------------------- MODULE DirectChat_proofs --------------------------
(***************************************************************************)
(* Proofs about DirectChat, for any two users, any slots and any bounds.   *)
(*                                                                         *)
(* Of overlapping requests only an upper bound survives: what a request    *)
(* holds in memory is within what the user was sent, plus the messages     *)
(* about to be stored and those that could not be, and that sum never falls*)
(* (Tied).  If clients keep requests on a row apart, a request finds the   *)
(* row as it left it (Calm), so that the counter is off by a message about *)
(* to be stored and by those lost only, no row is inserted again, and there*)
(* is one chat with one row for each.                                      *)
(***************************************************************************)
EXTENDS DirectChat, FiniteSetTheorems, TLAPS

(* The messages there are for a user in a chat, those about to be, and     *)
(* those that were to be.                                                  *)
Stores(o, c) == {s \in Slots : At(s, "store") /\ reqs[s].owner = o /\ reqs[s].chat = c}
Bound(o, c)  == messages[<<c, o>>] + Cardinality(Stores(o, c)) + lost[<<c, o>>]

Saving  == {"saveRead", "update", "reinsert"}
Holding == Saving \cup {"store", "reset", "remove"}

(* What is true of a request wherever it stands.                           *)
Tied(q) ==
  q # Idle =>
    /\ q.at \in Saving \cup {"store"} => q.op = "send"
    /\ q.at = "insertChat" => q.op = "create"
    /\ q.at \in {"find", "insertRow"} => q.op \in {"create", "send"}
    /\ q.at \in {"insertChat", "find", "insertRow"} => q.held = 0
    /\ q.at # "insertChat" => q.chat \in chats
    /\ q.at \in Holding => q.key \in Keys /\ q.key[1] = q.owner /\ q.key[2] = q.chat
    /\ q.at \in Saving => q.held <= Bound(q.owner, q.chat)

RowsOfChats == \A k \in DOMAIN rows : k[2] \in chats
Backed      == \A k \in DOMAIN rows : rows[k].unread <= Bound(k[1], k[2])

Linked == TypeOK /\ RowsOfChats /\ Backed /\ \A s \in Slots : Tied(reqs[s])

(* What is true of it if requests are kept apart.                          *)
Calm(q) ==
  q # Idle =>
    /\ q.at = "insertChat" => chats = {}
    /\ q.at = "insertRow" => \A k \in DOMAIN rows : k[1] # q.owner
    /\ q.at \in {"saveRead", "update"} => q.key \in DOMAIN rows /\ rows[q.key].unread = q.held
    /\ q.at # "reinsert"
    /\ q.at = "store" => q.key \in DOMAIN rows

Rivals(q, p) == q # Idle /\ p # Idle /\ (q.owner = p.owner \/ (q.op = "create" /\ p.op = "create"))
Storing(o)   == \E s \in Slots : At(s, "store") /\ reqs[s].owner = o

OneChat  == \A c, d \in chats : c = d
OneRow   == \A k, j \in DOMAIN rows : k[1] = j[1] => k = j
Started  == \A k \in DOMAIN rows : rows[k].start
Counts(row, seen, announced, failed) ==
  LET count == seen + IF announced THEN 1 ELSE 0
  IN  count <= row.unread /\ row.unread <= count + failed
Counted  == \A k \in DOMAIN rows :
              Counts(rows[k], unseen[k], Storing(k[1]), lost[<<k[2], k[1]>>])
NoRivals == \A s, t \in Slots : Rivals(reqs[s], reqs[t]) => s = t

Quiet == OneChat /\ OneRow /\ Started /\ Counted /\ NoRivals /\ \A s \in Slots : Calm(reqs[s])

Orderly == Linked /\ (apart => Quiet)

USE DEF db

-----------------------------------------------------------------------------
(* Each of the two users has the other as peer.                            *)
LEMMA Peers ==
  /\ \A u \in Users : Peer(u) \in Users /\ Peer(u) # u /\ Peer(Peer(u)) = u
  /\ \A u, v \in Users : v \in {u, Peer(u)}
  /\ \A u, v \in Users : Peer(u) = Peer(v) => u = v
  <1>1. PICK a \in Users, b \in Users : a # b /\ Users = {a, b}
    BY PairAssumption
  <1>2. Peer(a) = b /\ Peer(b) = a
    BY <1>1 DEF Peer
  <1> QED
    BY <1>1, <1>2

(* A slot that is not idle holds a request.                                *)
LEMMA Requests ==
  ASSUME TypeOK, NEW s \in Slots
  PROVE  /\ reqs[s] # Idle => /\ reqs[s] \in Request
                              /\ reqs[s].op \in Kinds /\ reqs[s].at \in Places
                              /\ reqs[s].owner \in Users
                              /\ reqs[s].chat \in ChatIds \cup {NoChat}
                              /\ reqs[s].key \in Keys \cup {NoKey}
                              /\ reqs[s].held \in Nat /\ reqs[s].new \in BOOLEAN
         /\ reqs[s].at # "idle" => reqs[s] # Idle
  <1>1. reqs[s] # Idle => reqs[s] \in Request
    BY DEF TypeOK
  <1>2. reqs[s].at # "idle" => reqs[s] # Idle
    BY DEF Idle
  <1> QED
    BY <1>1, <1>2 DEF Request

(* What a slot is given.                                                   *)
LEMMA Continued ==
  ASSUME TypeOK, NEW s \in Slots, NEW q \in Request \cup {Idle}, Continue(s, q)
  PROVE  /\ reqs' \in [Slots -> Request \cup {Idle}]
         /\ reqs'[s] = q /\ \A t \in Slots : t # s => reqs'[t] = reqs[t]
         /\ started' = started /\ apart' = apart /\ lost' = lost
  BY DEF Continue, TypeOK

(* A request enters a free slot, away from its rivals if they are kept apart.*)
LEMMA Received ==
  ASSUME TypeOK, NEW s \in Slots, NEW q \in Request, Receive(s, q)
  PROVE  /\ reqs' \in [Slots -> Request \cup {Idle}]
         /\ reqs'[s] = q /\ \A t \in Slots : t # s => reqs'[t] = reqs[t]
         /\ started' \in 0 .. MaxRequests /\ apart' = apart /\ lost' = lost
         /\ reqs[s] = Idle
         /\ apart => \A t \in Slots : ~Rivals(q, reqs[t]) /\ ~Rivals(reqs[t], q)
  <1>1. started' \in 0 .. MaxRequests
    BY BoundsAssumption DEF Receive, TypeOK
  <1>2. apart => \A t \in Slots : ~Rivals(q, reqs[t]) /\ ~Rivals(reqs[t], q)
    BY DEF Receive, Conflict, Rivals
  <1> QED
    BY <1>1, <1>2 DEF Receive, TypeOK

(* The sets of messages about to be stored are finite.                     *)
LEMMA StoresFinite ==
  /\ \A o, c : IsFiniteSet(Stores(o, c)) /\ Cardinality(Stores(o, c)) \in Nat
  <1> SUFFICES ASSUME NEW o, NEW c
               PROVE  IsFiniteSet(Stores(o, c)) /\ Cardinality(Stores(o, c)) \in Nat
    OBVIOUS
  <1>1. Stores(o, c) \in SUBSET Slots
    BY DEF Stores
  <1> QED
    BY <1>1, SlotsAssumption, FS_Subset, FS_CardinalityType

(* What was promised for a user in a chat does not fall when a slot changes*)
(* that was not about to store a message.                                  *)
LEMMA BoundGrows ==
  ASSUME TypeOK, NEW s \in Slots, reqs[s].at # "store", UNCHANGED <<messages, lost>>,
         \A t \in Slots : t # s => reqs'[t] = reqs[t],
         NEW o \in Users, NEW c \in ChatIds
  PROVE  /\ Bound(o, c) \in Nat /\ Bound(o, c)' \in Nat
         /\ Bound(o, c) <= Bound(o, c)'
         /\ reqs'[s].at # "store" => Bound(o, c)' = Bound(o, c)
         /\ reqs'[s].at = "store" /\ reqs'[s].owner = o /\ reqs'[s].chat = c =>
              Bound(o, c)' = Bound(o, c) + 1
  <1>1. IsFiniteSet(Stores(o, c)) /\ Cardinality(Stores(o, c)) \in Nat
    BY StoresFinite
  <1>2. /\ messages[<<c, o>>] \in Nat /\ messages'[<<c, o>>] = messages[<<c, o>>]
        /\ lost[<<c, o>>] \in Nat /\ lost'[<<c, o>>] = lost[<<c, o>>]
    BY DEF TypeOK
  <1>3. s \notin Stores(o, c)
    BY DEF Stores, At
  <1>4. CASE reqs'[s].at = "store" /\ reqs'[s].owner = o /\ reqs'[s].chat = c
    <2>1. Stores(o, c)' = Stores(o, c) \cup {s}
      BY <1>4 DEF Stores, At
    <2>2. Cardinality(Stores(o, c)') = Cardinality(Stores(o, c)) + 1
      BY <1>1, <1>3, <2>1, FS_AddElement
    <2> QED
      BY <1>1, <1>2, <1>4, <2>2 DEF Bound
  <1>5. CASE ~(reqs'[s].at = "store" /\ reqs'[s].owner = o /\ reqs'[s].chat = c)
    <2>1. Stores(o, c)' = Stores(o, c)
      BY <1>3, <1>5 DEF Stores, At
    <2> QED
      BY <1>1, <1>2, <1>5, <2>1 DEF Bound
  <1> QED
    BY <1>4, <1>5

-----------------------------------------------------------------------------
(* Steps of requests that leave all rows alone: what remains to be said of *)
(* the place the request goes to.                                          *)
LEMMA LinkedIfOnlyReqs ==
  ASSUME Linked, NEW s \in Slots, NEW q \in Request \cup {Idle},
         UNCHANGED <<db, lost>>, apart' = apart,
         started' \in 0 .. MaxRequests, reqs' \in [Slots -> Request \cup {Idle}],
         reqs'[s] = q, \A t \in Slots : t # s => reqs'[t] = reqs[t],
         reqs[s].at # "store", Tied(q)
  PROVE  Linked'
  <1> USE DEF Linked
  <1>1. TypeOK'
    BY DEF TypeOK
  <1>2. \A o \in Users, c \in ChatIds : Bound(o, c) <= Bound(o, c)'
                                        /\ Bound(o, c) \in Nat /\ Bound(o, c)' \in Nat
    BY BoundGrows
  <1>3. Backed'
    <2> SUFFICES ASSUME NEW k \in DOMAIN rows
                 PROVE  rows[k].unread <= Bound(k[1], k[2])'
      BY DEF Backed
    <2>1. k[1] \in Users /\ k[2] \in ChatIds /\ rows[k].unread \in Nat
      BY DEF TypeOK, Keys, Row
    <2> QED
      BY <1>2, <2>1 DEF Backed
  <1>4. ASSUME NEW t \in Slots
        PROVE  Tied(reqs[t])'
    <2>1. Tied(reqs'[t])
      BY <1>4
    <2>2. CASE reqs'[t] # Idle /\ reqs'[t].at \in Saving
      <3>1. reqs'[t].owner \in Users /\ reqs'[t].chat \in ChatIds /\ reqs'[t].held \in Nat
        <4>1. reqs'[t] \in Request
          BY <2>2
        <4>2. reqs'[t].key \in Keys /\ reqs'[t].key[2] = reqs'[t].chat
          BY <2>1, <2>2 DEF Tied, Holding
        <4> QED
          BY <4>1, <4>2 DEF Request, Keys
      <3> QED
        BY <1>2, <2>1, <2>2, <3>1 DEF Tied
    <2>3. CASE ~(reqs'[t] # Idle /\ reqs'[t].at \in Saving)
      BY <2>1, <2>3 DEF Tied
    <2> QED
      BY <2>2, <2>3
  <1> QED
    BY <1>1, <1>3, <1>4 DEF RowsOfChats

(* A step that writes one request and no table, and opens no rivalry.      *)
LEMMA QuietIfOnlyReqs ==
  ASSUME Quiet, NEW s \in Slots, NEW q \in Request \cup {Idle},
         UNCHANGED <<db, lost>>,
         reqs'[s] = q, \A t \in Slots : t # s => reqs'[t] = reqs[t],
         reqs[s].at # "store", q.at # "store", Calm(q),
         \A t \in Slots : t # s => ~Rivals(q, reqs[t]) /\ ~Rivals(reqs[t], q)
  PROVE  Quiet'
  <1> USE DEF Quiet
  <1>1. NoRivals'
    BY DEF NoRivals, Rivals
  <1>2. \A t \in Slots : Calm(reqs[t])'
    BY DEF Calm
  <1>3. \A o : Storing(o)' <=> Storing(o)
    BY DEF Storing, At
  <1>4. Counted'
    BY <1>3 DEF Counted
  <1> QED
    BY <1>1, <1>2, <1>4 DEF OneChat, OneRow, Started

(* A request that goes on has the rivals it had.                           *)
LEMMA SameRivals ==
  ASSUME NoRivals, NEW s \in Slots, NEW q,
         q # Idle => reqs[s] # Idle /\ q.owner = reqs[s].owner /\ q.op = reqs[s].op
  PROVE  \A t \in Slots : t # s => ~Rivals(q, reqs[t]) /\ ~Rivals(reqs[t], q)
  BY DEF NoRivals, Rivals

(* A request comes in.                                                     *)
LEMMA ReceivedOrderly ==
  ASSUME Orderly, NEW s \in Slots, NEW u \in Users,
         \/ CreateChat(s, u)
         \/ \E c \in chats : SendMessage(s, u, c) \/ ReadAll(s, u, c) \/ DeleteConversation(s, u, c)
  PROVE  Orderly'
  <1> USE DEF Orderly
  <1>0. TypeOK
    BY DEF Linked
  <1>1. ASSUME NEW q \in Request, Receive(s, q), Tied(q), q.at # "store", apart => Calm(q),
               UNCHANGED db
        PROVE  Orderly'
    <2>1. reqs[s].at # "store"
      BY <1>0, <1>1, Received DEF Idle
    <2>2. Linked'
      BY <1>0, <1>1, <2>1, Received, LinkedIfOnlyReqs
    <2>3. apart => Quiet'
      BY <1>0, <1>1, <2>1, Received, QuietIfOnlyReqs
    <2> QED
      BY <1>0, <1>1, <2>2, <2>3, Received
  <1>2. CASE CreateChat(s, u)
    <2> DEFINE request(place, c) == [Idle EXCEPT !.op = "create", !.at = place, !.owner = u,
                                                 !.chat = c]
    <2>1. CASE Existing(u) = {}
      <3>1. Receive(s, request("insertChat", NoChat)) /\ UNCHANGED db
        BY <1>2, <2>1 DEF CreateChat
      <3>2. request("insertChat", NoChat) \in Request
        BY DEF Idle, Request, Kinds, Places
      <3>3. chats = {}
        BY <1>0, <2>1, Peers DEF Existing, TypeOK, ChatIds
      <3>4. /\ request("insertChat", NoChat).at = "insertChat"
            /\ request("insertChat", NoChat).op = "create"
            /\ request("insertChat", NoChat).held = 0
        BY DEF Idle
      <3> HIDE DEF request
      <3>5. Tied(request("insertChat", NoChat)) /\ Calm(request("insertChat", NoChat))
        BY <3>3, <3>4 DEF Tied, Calm, Saving, Holding
      <3> QED
        BY <1>1, <3>1, <3>2, <3>4, <3>5
    <2>2. CASE Existing(u) # {}
      <3>1. PICK c \in Existing(u) :
              Receive(s, request("find", c)) /\ UNCHANGED db
        BY <1>2, <2>2 DEF CreateChat
      <3>2. c \in chats /\ c \in ChatIds
        BY <1>0, <3>1 DEF Existing, TypeOK
      <3>3. request("find", c) \in Request
        BY <3>2 DEF Idle, Request, Kinds, Places
      <3>4. request("find", c).at = "find" /\ request("find", c).op = "create" /\ request("find", c).held = 0
            /\ request("find", c).chat = c
        BY DEF Idle
      <3> HIDE DEF request
      <3>5. Tied(request("find", c)) /\ Calm(request("find", c))
        BY <3>2, <3>4 DEF Tied, Calm, Saving, Holding
      <3> QED
        BY <1>1, <3>1, <3>3, <3>4, <3>5
    <2> QED
      BY <2>1, <2>2
  <1>3. ASSUME NEW c \in chats, SendMessage(s, u, c)
        PROVE  Orderly'
    <2> DEFINE q == [Idle EXCEPT !.op = "send", !.at = "find", !.owner = u, !.chat = c]
    <2>1. Receive(s, q) /\ UNCHANGED db
      BY <1>3 DEF SendMessage
    <2>2. q \in Request
      BY <1>0 DEF Idle, Request, Kinds, Places, TypeOK
    <2>3. q.op = "send" /\ q.at = "find" /\ q.chat = c /\ q.held = 0
      BY DEF Idle
    <2> HIDE DEF q
    <2>4. Tied(q) /\ Calm(q)
      BY <2>3 DEF Tied, Calm, Saving, Holding
    <2> QED
      BY <1>1, <2>1, <2>2, <2>3, <2>4
  <1>4. ASSUME NEW c \in chats, NEW op \in {"read", "erase"}, NEW place \in {"reset", "remove"},
               NEW k \in RowsOf(u, c),
               Receive(s, [Idle EXCEPT !.op = op, !.at = place, !.owner = u, !.chat = c,
                                       !.key = k]),
               UNCHANGED db
        PROVE  Orderly'
    <2> DEFINE q == [Idle EXCEPT !.op = op, !.at = place, !.owner = u, !.chat = c, !.key = k]
    <2>1. k \in Keys /\ k[1] = u /\ k[2] = c /\ c \in ChatIds
      BY <1>0 DEF RowsOf, TypeOK
    <2>2. q \in Request
      BY <2>1 DEF Idle, Request, Kinds, Places
    <2>3. q.op = op /\ q.at = place /\ q.owner = u /\ q.chat = c /\ q.key = k
      BY DEF Idle
    <2> HIDE DEF q
    <2>4. Tied(q) /\ Calm(q)
      BY <2>1, <2>3 DEF Tied, Calm, Saving, Holding
    <2> QED
      BY <1>1, <1>4, <2>2, <2>3, <2>4 DEF q
  <1> QED
    BY <1>2, <1>3, <1>4 DEF ReadAll, DeleteConversation

(* The row is looked for, and read again before it is saved.               *)
LEMMA FoundOrderly ==
  ASSUME Orderly, NEW s \in Slots, FindRow(s) \/ SaveRead(s)
  PROVE  Orderly'
  <1> DEFINE r == reqs[s]
  <1> USE DEF Orderly
  <1>0. TypeOK
    BY DEF Linked
  <1>1. /\ r # Idle /\ r \in Request /\ r.owner \in Users /\ r.op \in Kinds
        /\ r.at \in {"find", "saveRead"} /\ Tied(r) /\ (apart => Calm(r))
    BY <1>0, Requests DEF FindRow, SaveRead, At, Linked, Quiet
  <1>2. ASSUME NEW q \in Request \cup {Idle}, Continue(s, q), Tied(q),
               q # Idle => q.owner = r.owner /\ q.op = r.op,
               apart => Calm(q) /\ q.at # "store",
               UNCHANGED db
        PROVE  Orderly'
    <2>1. Linked'
      BY <1>0, <1>1, <1>2, Continued, LinkedIfOnlyReqs DEF Linked, TypeOK
    <2>2. apart => \A t \in Slots : t # s => ~Rivals(q, reqs[t]) /\ ~Rivals(reqs[t], q)
      BY <1>1, <1>2, SameRivals DEF Quiet
    <2>3. apart => Quiet'
      BY <1>0, <1>1, <1>2, <2>2, Continued, QuietIfOnlyReqs
    <2> QED
      BY <1>0, <1>2, <2>1, <2>3, Continued
  <1>3. Tied(Idle) /\ Calm(Idle) /\ Idle.at # "store"
    BY DEF Tied, Calm, Idle
  <1>4. CASE FindRow(s)
    <2>0. r.at = "find" /\ r.chat \in chats /\ r.chat \in ChatIds
      BY <1>0, <1>1, <1>4 DEF FindRow, At, Tied, TypeOK
    <2>1. ASSUME RowsOf(r.owner, r.chat) = {}, Continue(s, [r EXCEPT !.at = "insertRow"])
          PROVE  Orderly'
      <3> DEFINE q == [r EXCEPT !.at = "insertRow"]
      <3>1. /\ q \in Request /\ q.at = "insertRow" /\ q.owner = r.owner /\ q.op = r.op
            /\ q.chat = r.chat /\ q.held = r.held
        BY <1>1 DEF Request, Places
      <3> HIDE DEF q
      <3>2. Tied(q)
        BY <1>1, <2>0, <3>1 DEF Tied, Saving, Holding
      <3>3. apart => \A k \in DOMAIN rows : k[1] # q.owner
        BY <2>0, <2>1, <3>1 DEF RowsOf, Linked, RowsOfChats, Quiet, OneChat
      <3>4. apart => Calm(q)
        BY <3>1, <3>3 DEF Calm
      <3> QED
        BY <1>2, <1>4, <2>1, <3>1, <3>2, <3>4 DEF FindRow, q
    <2>2. ASSUME Answer(s)
          PROVE  Orderly'
      BY <1>2, <1>3, <1>4, <2>2 DEF Answer, FindRow
    <2>3. ASSUME NEW k \in RowsOf(r.owner, r.chat), r.op # "create",
                 Continue(s, [r EXCEPT !.at = "saveRead", !.key = k, !.held = rows[k].unread])
          PROVE  Orderly'
      <3> DEFINE q == [r EXCEPT !.at = "saveRead", !.key = k, !.held = rows[k].unread]
      <3>1. k \in DOMAIN rows /\ k \in Keys /\ k[1] = r.owner /\ k[2] = r.chat /\ rows[k].unread \in Nat
        BY <1>0, <2>3 DEF RowsOf, TypeOK, Row
      <3>2. /\ q \in Request /\ q.at = "saveRead" /\ q.owner = r.owner /\ q.op = r.op
            /\ q.chat = r.chat /\ q.key = k /\ q.held = rows[k].unread
        BY <1>1, <3>1 DEF Request, Places
      <3> HIDE DEF q
      <3>3. r.op = "send"
        BY <1>1, <2>0, <2>3 DEF Tied
      <3>4. Tied(q)
        BY <1>1, <2>0, <3>1, <3>2, <3>3 DEF Tied, Saving, Holding, Linked, Backed
      <3>5. Calm(q)
        BY <3>1, <3>2 DEF Calm
      <3> QED
        BY <1>2, <1>4, <2>3, <3>2, <3>4, <3>5 DEF FindRow, q
    <2> QED
      BY <1>4, <2>1, <2>2, <2>3 DEF FindRow
  <1>5. CASE SaveRead(s)
    <2>0. /\ r.at = "saveRead" /\ r.op = "send" /\ r.chat \in chats /\ r.key \in Keys
          /\ r.key[1] = r.owner /\ r.key[2] = r.chat /\ r.held <= Bound(r.owner, r.chat)
          /\ r.held \in Nat
      BY <1>0, <1>1, <1>5, Requests DEF SaveRead, At, Tied, Saving, Holding
    <2>1. PICK place \in {"reinsert", "update", "store"} :
            /\ Continue(s, [r EXCEPT !.at = place])
            /\ place = "reinsert" => r.key \notin DOMAIN rows
            /\ place = "store" => r.key \in DOMAIN rows /\ rows[r.key].unread = r.held + 1
      BY <1>5 DEF SaveRead
    <2> DEFINE q == [r EXCEPT !.at = place]
    <2>2. /\ q \in Request /\ q.at = place /\ q.owner = r.owner /\ q.op = r.op
          /\ q.chat = r.chat /\ q.key = r.key /\ q.held = r.held
      BY <1>1, <2>1 DEF Request, Places
    <2> HIDE DEF q
    <2>3. Tied(q)
      BY <2>0, <2>1, <2>2 DEF Tied, Saving, Holding
    <2>4. apart => r.key \in DOMAIN rows /\ rows[r.key].unread = r.held /\ r.held + 1 # r.held
      BY <1>1, <2>0 DEF Calm
    <2>5. apart => q.at = "update"
      BY <2>1, <2>2, <2>4
    <2>6. apart => Calm(q)
      BY <2>2, <2>4, <2>5 DEF Calm
    <2> QED
      BY <1>2, <1>5, <2>1, <2>2, <2>3, <2>5, <2>6 DEF SaveRead, q
  <1> QED
    BY <1>4, <1>5

-----------------------------------------------------------------------------
(* Steps that write rows, but store no message.                            *)
LEMMA LinkedIfRows ==
  ASSUME Linked, NEW s \in Slots, NEW q \in Request \cup {Idle},
         messages' = messages, chats \subseteq chats', chats' \in SUBSET ChatIds,
         DOMAIN rows' \in SUBSET Keys, rows' \in [DOMAIN rows' -> Row],
         unseen' \in [DOMAIN rows' -> Nat],
         Continue(s, q), reqs[s].at # "store",
         \A k \in DOMAIN rows' : k[2] \in chats' /\ rows'[k].unread <= Bound(k[1], k[2])',
         Tied(q)'
  PROVE  Linked'
  <1> USE DEF Linked
  <1>0. /\ reqs' \in [Slots -> Request \cup {Idle}] /\ reqs'[s] = q
        /\ \A t \in Slots : t # s => reqs'[t] = reqs[t]
        /\ started' = started /\ apart' = apart /\ lost' = lost
    BY Continued
  <1>1. TypeOK'
    BY <1>0 DEF TypeOK
  <1>2. \A o \in Users, c \in ChatIds : Bound(o, c) <= Bound(o, c)'
                                        /\ Bound(o, c) \in Nat /\ Bound(o, c)' \in Nat
    BY <1>0, BoundGrows
  <1>3. ASSUME NEW t \in Slots, t # s
        PROVE  Tied(reqs[t])'
    <2>1. Tied(reqs[t]) /\ reqs'[t] = reqs[t]
      BY <1>0, <1>3
    <2>2. CASE reqs[t] # Idle /\ reqs[t].at \in Saving
      <3>1. /\ reqs[t].owner \in Users /\ reqs[t].chat \in ChatIds /\ reqs[t].held \in Nat
            /\ reqs[t].held <= Bound(reqs[t].owner, reqs[t].chat)
        BY <2>1, <2>2, Requests DEF Tied, TypeOK, Saving
      <3> QED
        BY <1>2, <2>1, <2>2, <3>1 DEF Tied
    <2>3. CASE ~(reqs[t] # Idle /\ reqs[t].at \in Saving)
      BY <2>1, <2>3 DEF Tied
    <2> QED
      BY <2>2, <2>3
  <1>4. Tied(reqs[s])'
    BY <1>0 DEF Tied
  <1> QED
    BY <1>1, <1>3, <1>4 DEF RowsOfChats, Backed

(* What a slot that writes rows holds, and what the bounds do.             *)
LEMMA Writer ==
  ASSUME Linked, NEW s \in Slots, reqs[s].at # "idle"
  PROVE  /\ reqs[s] # Idle /\ reqs[s] \in Request /\ Tied(reqs[s])
         /\ reqs[s].op \in Kinds /\ reqs[s].owner \in Users
         /\ reqs[s].held \in Nat
         /\ reqs[s].at # "insertChat" => reqs[s].chat \in chats /\ reqs[s].chat \in ChatIds
  BY Requests DEF Linked, Tied, TypeOK

(* What is known of a stored row.                                          *)
LEMMA RowTypes ==
  ASSUME Linked, NEW k \in DOMAIN rows
  PROVE  /\ k \in Keys /\ k[1] \in Users /\ k[2] \in ChatIds /\ k[2] \in chats
         /\ rows[k] \in Row /\ rows[k].unread \in Nat /\ rows[k].start \in BOOLEAN
         /\ unseen[k] \in Nat /\ lost[<<k[2], k[1]>>] \in Nat
         /\ rows[k].unread <= Bound(k[1], k[2])
  BY DEF Linked, TypeOK, Keys, Row, RowsOfChats, Backed

(* A row that was just created or read to the end counts nothing.          *)
LEMMA CountsNothing ==
  ASSUME NEW row, NEW failed \in Nat, row.unread = 0
  PROVE  Counts(row, 0, FALSE, failed)
  BY DEF Counts

(* One more is counted when a message is announced.                        *)
LEMMA CountsOneMore ==
  ASSUME NEW row, NEW seen \in Nat, NEW failed \in Nat, NEW next, row.unread \in Nat,
         Counts(row, seen, FALSE, failed), next.unread = row.unread + 1
  PROVE  Counts(next, seen, TRUE, failed)
  BY DEF Counts

(* The announced message is stored, or cannot be.                          *)
LEMMA CountsSettled ==
  ASSUME NEW row, NEW seen \in Nat, NEW failed \in Nat, row.unread \in Nat,
         Counts(row, seen, TRUE, failed)
  PROVE  Counts(row, seen + 1, FALSE, failed) /\ Counts(row, seen, FALSE, failed + 1)
  BY DEF Counts

(* A chat is inserted.                                                     *)
LEMMA InsertChatOrderly ==
  ASSUME Orderly, NEW s \in Slots, InsertChat(s)
  PROVE  Orderly'
  <1> DEFINE r == reqs[s]
  <1> USE DEF Orderly
  <1>0. r.at = "insertChat"
    BY DEF InsertChat, At
  <1>1. r # Idle /\ r \in Request /\ Tied(r) /\ r.owner \in Users /\ r.op = "create" /\ r.held = 0
    BY <1>0, Writer DEF Tied
  <1>2. PICK c \in ChatIds : /\ FreshChat(c) /\ chats' = chats \cup {c}
                             /\ Continue(s, [r EXCEPT !.at = "find", !.chat = c])
    BY <1>1 DEF InsertChat, ChatIds
  <1>3. PICK q \in Request : /\ Continue(s, q)
                             /\ q.at = "find" /\ q.chat = c /\ q.op = r.op
                             /\ q.owner = r.owner /\ q.held = r.held
    <2> DEFINE next == [r EXCEPT !.at = "find", !.chat = c]
    <2>1. /\ next \in Request /\ next.at = "find" /\ next.chat = c /\ next.op = r.op
          /\ next.owner = r.owner /\ next.held = r.held
      BY <1>1 DEF Request, Places
    <2> QED
      BY <1>2, <2>1
  <1>4. UNCHANGED <<rows, messages, unseen>>
    BY DEF InsertChat
  <1>5. /\ reqs'[s] = q /\ \A t \in Slots : t # s => reqs'[t] = reqs[t]
        /\ apart' = apart /\ lost' = lost
    BY <1>3, Continued DEF Linked
  <1>6. \A k \in DOMAIN rows : rows[k].unread <= Bound(k[1], k[2])'
    <2> SUFFICES ASSUME NEW k \in DOMAIN rows
                 PROVE  rows[k].unread <= Bound(k[1], k[2])'
      OBVIOUS
    <2>1. k[1] \in Users /\ k[2] \in ChatIds /\ rows[k].unread <= Bound(k[1], k[2])
          /\ rows[k].unread \in Nat
      BY RowTypes
    <2>2. \A o \in Users, d \in ChatIds : Bound(o, d)' = Bound(o, d)
      BY <1>0, <1>3, <1>4, <1>5, BoundGrows DEF Linked
    <2> QED
      BY <2>1, <2>2
  <1>7. Tied(q)'
    BY <1>1, <1>2, <1>3 DEF Tied, Saving, Holding
  <1>8. Linked'
    <2>1. chats' \in SUBSET ChatIds /\ chats \subseteq chats'
      BY <1>2 DEF Linked, TypeOK
    <2>2. DOMAIN rows \in SUBSET Keys /\ rows \in [DOMAIN rows -> Row]
          /\ unseen \in [DOMAIN rows -> Nat]
      BY DEF Linked, TypeOK
    <2>3. \A k \in DOMAIN rows' : k[2] \in chats' /\ rows'[k].unread <= Bound(k[1], k[2])'
      BY <1>4, <1>6, <2>1, RowTypes
    <2> QED
      BY <1>0, <1>3, <1>4, <1>7, <2>1, <2>2, <2>3, LinkedIfRows DEF InsertChat
  <1>9. ASSUME apart
        PROVE  Quiet'
    <2> USE <1>9 DEF Quiet
    <2>1. chats = {}
      BY <1>0, <1>1 DEF Calm
    <2>2. OneChat'
      BY <1>2, <2>1 DEF OneChat
    <2>3. NoRivals'
      BY <1>1, <1>3, <1>5 DEF NoRivals, Rivals
    <2>4. \A o : Storing(o)' <=> Storing(o)
      BY <1>0, <1>3, <1>5 DEF Storing, At
    <2>5. Counted' /\ OneRow' /\ Started'
      BY <1>4, <1>5, <2>4 DEF Counted, Counts, OneRow, Started
    <2>6. ASSUME NEW t \in Slots
          PROVE  Calm(reqs[t])'
      <3>1. CASE t = s
        BY <1>3, <1>5, <3>1 DEF Calm
      <3>2. CASE t # s
        <4>1. reqs[t] # Idle => reqs[t].at # "insertChat"
          <5>1. reqs[t] # Idle /\ reqs[t].at = "insertChat" => reqs[t].op = "create"
            BY DEF Linked, Tied
          <5> QED
            BY <1>1, <3>2, <5>1 DEF NoRivals, Rivals
        <4> QED
          BY <1>4, <1>5, <3>2, <4>1 DEF Calm
      <3> QED
        BY <3>1, <3>2
    <2> QED
      BY <2>2, <2>3, <2>5, <2>6
  <1> QED
    BY <1>5, <1>8, <1>9

-----------------------------------------------------------------------------
(* Steps that write a row k, and leave all others as they are.             *)
LEMMA LinkedIfRow ==
  ASSUME Linked, NEW s \in Slots, NEW q \in Request \cup {Idle}, NEW k \in Keys,
         UNCHANGED <<messages, chats>>, Continue(s, q), reqs[s].at \notin {"idle", "store"},
         DOMAIN rows' \subseteq DOMAIN rows \cup {k}, DOMAIN unseen' = DOMAIN rows',
         rows' = [j \in DOMAIN rows' |-> rows'[j]], unseen' = [j \in DOMAIN unseen' |-> unseen'[j]],
         \A j \in DOMAIN rows' : j # k => rows'[j] = rows[j] /\ unseen'[j] = unseen[j],
         k \in DOMAIN rows' =>
           /\ rows'[k] \in Row /\ unseen'[k] \in Nat /\ k[2] \in chats
           /\ rows'[k].unread <= Bound(k[1], k[2])',
         Tied(q)'
  PROVE  Linked'
  <1>1. /\ DOMAIN rows \in SUBSET Keys /\ rows \in [DOMAIN rows -> Row]
        /\ unseen \in [DOMAIN rows -> Nat] /\ chats \in SUBSET ChatIds
    BY DEF Linked, TypeOK
  <1>2. /\ reqs'[s] = q /\ lost' = lost
        /\ \A t \in Slots : t # s => reqs'[t] = reqs[t]
    BY Continued DEF Linked
  <1>3. \A o \in Users, c \in ChatIds : Bound(o, c) <= Bound(o, c)'
                                        /\ Bound(o, c) \in Nat /\ Bound(o, c)' \in Nat
    BY <1>2, BoundGrows DEF Linked
  <1>4. ASSUME NEW j \in DOMAIN rows'
        PROVE  /\ j \in Keys /\ rows'[j] \in Row /\ unseen'[j] \in Nat /\ j[2] \in chats
               /\ rows'[j].unread <= Bound(j[1], j[2])'
    <2>1. CASE j = k
      BY <1>4, <2>1
    <2>2. CASE j # k
      <3>1. /\ j \in DOMAIN rows /\ rows'[j] = rows[j] /\ unseen'[j] = unseen[j]
        BY <1>4, <2>2
      <3>2. /\ j \in Keys /\ j[1] \in Users /\ j[2] \in ChatIds /\ j[2] \in chats
            /\ rows[j] \in Row /\ rows[j].unread \in Nat /\ unseen[j] \in Nat
            /\ rows[j].unread <= Bound(j[1], j[2])
        BY <3>1, RowTypes
      <3>3. rows[j].unread <= Bound(j[1], j[2])'
        BY <1>3, <3>2
      <3> QED
        BY <3>1, <3>2, <3>3
    <2> QED
      BY <2>1, <2>2
  <1>5. /\ DOMAIN rows' \in SUBSET Keys /\ rows' \in [DOMAIN rows' -> Row]
        /\ unseen' \in [DOMAIN rows' -> Nat]
    BY <1>4
  <1> QED
    BY <1>1, <1>4, <1>5, LinkedIfRows

(* The same if requests are kept apart: what becomes of the other slots.   *)
LEMMA QuietIfRow ==
  ASSUME Linked, Quiet, NEW s \in Slots, NEW q \in Request \cup {Idle}, NEW k,
         k[1] = reqs[s].owner,
         UNCHANGED <<messages, chats>>, Continue(s, q), reqs[s].at \notin {"idle", "store"},
         q # Idle => q.owner = reqs[s].owner /\ q.op = reqs[s].op,
         DOMAIN rows' \subseteq DOMAIN rows \cup {k}, DOMAIN rows \ {k} \subseteq DOMAIN rows',
         \A j \in DOMAIN rows' : j # k => rows'[j] = rows[j] /\ unseen'[j] = unseen[j],
         k \in DOMAIN rows' =>
           /\ rows'[k].start
           /\ Counts(rows'[k], unseen'[k], q.at = "store", lost[<<k[2], k[1]>>])
           /\ \A j \in DOMAIN rows' : j[1] = k[1] => j = k,
         q.at = "store" => k \in DOMAIN rows',
         Calm(q)'
  PROVE  Quiet'
  <1> DEFINE o == reqs[s].owner
  <1> USE DEF Quiet
  <1>0. reqs[s] # Idle
    BY Writer
  <1>1. /\ reqs'[s] = q /\ lost' = lost
        /\ \A t \in Slots : t # s => reqs'[t] = reqs[t]
    BY Continued DEF Linked
  <1>2. \A t \in Slots : t # s /\ reqs[t] # Idle => reqs[t].owner # o
    BY <1>0 DEF NoRivals, Rivals
  <1>3. NoRivals'
    BY <1>0, <1>1 DEF NoRivals, Rivals
  <1>4. OneChat' /\ OneRow' /\ Started'
    BY DEF OneChat, OneRow, Started
  <1>5. \A v : v # o => (Storing(v)' <=> Storing(v))
    <2>1. q.at = "store" => q.owner = o
      BY DEF Idle
    <2> QED
      BY <1>1, <2>1 DEF Storing, At
  <1>6. Storing(k[1])' <=> q.at = "store"
    <2>1. \A t \in Slots : t # s /\ reqs[t].at = "store" => reqs[t].owner # o
      BY <1>2 DEF Idle
    <2>2. q.at = "store" => q.owner = o
      BY DEF Idle
    <2> QED
      BY <1>1, <2>1, <2>2 DEF Storing, At
  <1>7. Counted'
    <2> SUFFICES ASSUME NEW j \in DOMAIN rows'
                 PROVE  Counts(rows'[j], unseen'[j], Storing(j[1])', lost[<<j[2], j[1]>>])
      BY <1>1 DEF Counted, Counts
    <2>1. CASE j = k
      BY <1>6, <2>1 DEF Counts
    <2>2. CASE j # k
      <3>1. j \in DOMAIN rows /\ rows'[j] = rows[j] /\ unseen'[j] = unseen[j]
        BY <2>2
      <3>2. CASE j[1] # o
        BY <1>5, <3>1, <3>2 DEF Counted, Counts
      <3>3. CASE j[1] = o
        <4>1. k \notin DOMAIN rows'
          BY <2>2, <3>3
        <4>2. ~Storing(o)
          BY <1>2 DEF Storing, At, Idle
        <4>3. q.at # "store"
          BY <1>0, <1>1, <4>1 DEF Idle
        <4> QED
          BY <1>6, <3>1, <3>3, <4>2, <4>3 DEF Counted, Counts
      <3> QED
        BY <3>2, <3>3
    <2> QED
      BY <2>1, <2>2
  <1>8. ASSUME NEW t \in Slots
        PROVE  Calm(reqs[t])'
    <2>1. CASE t = s
      BY <1>1, <2>1 DEF Calm
    <2>2. CASE t # s
      <3>1. Calm(reqs[t]) /\ reqs'[t] = reqs[t] /\ (reqs[t] # Idle => reqs[t].owner # o)
        BY <1>1, <1>2, <2>2
      <3>2. reqs[t] # Idle /\ reqs[t].at \in {"saveRead", "update", "store"} =>
              reqs[t].key[1] = reqs[t].owner
        BY DEF Linked, Tied, Holding, Saving
      <3> QED
        BY <3>1, <3>2 DEF Calm
    <2> QED
      BY <2>1, <2>2
  <1> QED
    BY <1>3, <1>4, <1>7, <1>8

(* A save adds one to what was held, and one message is about to be stored.*)
LEMMA SavedOne ==
  ASSUME Linked, NEW s \in Slots, NEW q \in Request, Continue(s, q), messages' = messages,
         reqs[s].at \in Saving, q.at = "store", q.owner = reqs[s].owner, q.chat = reqs[s].chat,
         NEW k, k = reqs[s].key
  PROVE  reqs[s].held + 1 \in Nat /\ reqs[s].held + 1 <= Bound(k[1], k[2])'
  <1>1. /\ reqs[s].held \in Nat /\ reqs[s].held <= Bound(k[1], k[2])
        /\ k[1] = q.owner /\ k[2] = q.chat /\ k[1] \in Users /\ k[2] \in ChatIds
    BY Writer DEF Tied, Saving, Holding
  <1>2. reqs'[s] = q /\ lost' = lost /\ \A t \in Slots : t # s => reqs'[t] = reqs[t]
    BY Continued DEF Linked
  <1>3. \A o \in Users, c \in ChatIds :
          /\ Bound(o, c) \in Nat /\ Bound(o, c)' \in Nat
          /\ q.owner = o /\ q.chat = c => Bound(o, c)' = Bound(o, c) + 1
    BY <1>2, BoundGrows DEF Linked, Saving
  <1> QED
    BY <1>1, <1>3

(* A row is inserted, of an owner who has none in the chat.                *)
LEMMA InsertRowOrderly ==
  ASSUME Orderly, NEW s \in Slots, InsertRow(s)
  PROVE  Orderly'
  <1> DEFINE r == reqs[s]
  <1> USE DEF Orderly
  <1>0. r.at = "insertRow"
    BY DEF InsertRow, At
  <1>1. /\ r # Idle /\ r \in Request /\ Tied(r) /\ r.owner \in Users /\ r.chat \in ChatIds
        /\ r.chat \in chats /\ r.op \in {"create", "send"} /\ r.held = 0
    BY <1>0, Writer DEF Tied
  <1>2. PICK k \in Keys :
          /\ k[1] = r.owner /\ k[2] = r.chat /\ k \notin DOMAIN rows
          /\ rows' = Put(rows, k, NewRow) /\ unseen' = Put(unseen, k, 0)
          /\ IF r.op = "create"
               THEN Answer(s)
               ELSE Continue(s, [r EXCEPT !.at = "saveRead", !.key = k, !.new = TRUE])
    <2>1. PICK n \in 1 .. MaxRows :
            /\ Unused(<<r.owner, r.chat, n>>)
            /\ rows' = Put(rows, <<r.owner, r.chat, n>>, NewRow)
            /\ unseen' = Put(unseen, <<r.owner, r.chat, n>>, 0)
            /\ IF r.op = "create"
                 THEN Answer(s)
                 ELSE Continue(s, [r EXCEPT !.at = "saveRead", !.key = <<r.owner, r.chat, n>>,
                                            !.new = TRUE])
      BY DEF InsertRow, FreshKey
    <2>2. /\ <<r.owner, r.chat, n>> \in Keys
          /\ <<r.owner, r.chat, n>>[1] = r.owner /\ <<r.owner, r.chat, n>>[2] = r.chat
      BY <1>1 DEF Keys
    <2>3. <<r.owner, r.chat, n>> \notin DOMAIN rows
      BY <2>1 DEF Unused
    <2> QED
      BY <2>1, <2>2, <2>3
  <1>3. PICK q \in Request \cup {Idle} :
          /\ Continue(s, q)
          /\ q # Idle => /\ q \in Request
                         /\ q.at = "saveRead" /\ q.key = k /\ q.op = "send"
                         /\ q.owner = r.owner /\ q.chat = r.chat /\ q.held = 0 /\ q.op = r.op
    <2> DEFINE next == [r EXCEPT !.at = "saveRead", !.key = k, !.new = TRUE]
    <2>1. /\ next \in Request /\ next.at = "saveRead" /\ next.key = k /\ next.op = r.op
          /\ next.owner = r.owner /\ next.chat = r.chat /\ next.held = r.held
      BY <1>1 DEF Request, Places
    <2>2. CASE r.op = "create"
      BY <1>2, <2>2 DEF Answer
    <2>3. CASE r.op = "send"
      BY <1>1, <1>2, <2>1, <2>3
    <2> QED
      BY <1>1, <2>2, <2>3
  <1>4. /\ DOMAIN rows' = DOMAIN rows \cup {k} /\ DOMAIN unseen' = DOMAIN rows'
        /\ rows'[k] = NewRow /\ unseen'[k] = 0
        /\ \A j \in DOMAIN rows : j # k => rows'[j] = rows[j] /\ unseen'[j] = unseen[j]
        /\ rows' = [j \in DOMAIN rows' |-> rows'[j]] /\ unseen' = [j \in DOMAIN unseen' |-> unseen'[j]]
    <2>1. DOMAIN unseen = DOMAIN rows
      BY DEF Linked, TypeOK
    <2>2. rows' = Put(rows, k, NewRow) /\ unseen' = Put(unseen, k, 0)
      BY <1>2
    <2>3. /\ DOMAIN rows' = DOMAIN rows \cup {k} /\ rows'[k] = NewRow
          /\ \A j \in DOMAIN rows : j # k => rows'[j] = rows[j]
          /\ rows' = [j \in DOMAIN rows' |-> rows'[j]]
      BY <2>2 DEF Put
    <2>4. /\ DOMAIN unseen' = DOMAIN unseen \cup {k} /\ unseen'[k] = 0
          /\ \A j \in DOMAIN unseen : j # k => unseen'[j] = unseen[j]
          /\ unseen' = [j \in DOMAIN unseen' |-> unseen'[j]]
      BY <2>2 DEF Put
    <2> QED
      BY <2>1, <2>3, <2>4
  <1>5. reqs'[s] = q /\ lost' = lost /\ \A t \in Slots : t # s => reqs'[t] = reqs[t]
    BY <1>3, Continued DEF Linked
  <1>6. UNCHANGED <<messages, chats>> /\ reqs[s].at \notin {"idle", "store"}
    BY <1>0 DEF InsertRow
  <1>7. NewRow \in Row /\ NewRow.unread = 0 /\ NewRow.start = TRUE
    BY DEF NewRow, Row
  <1>8. /\ k[1] \in Users /\ k[2] \in ChatIds /\ k[2] \in chats
        /\ Bound(k[1], k[2])' \in Nat /\ 0 <= Bound(k[1], k[2])'
    <2>1. \A o \in Users, c \in ChatIds : Bound(o, c)' \in Nat /\ 0 <= Bound(o, c)'
      BY <1>5, <1>6, BoundGrows DEF Linked
    <2> QED
      BY <1>1, <1>2, <2>1
  <1>9. Tied(q)'
    BY <1>1, <1>2, <1>3, <1>6, <1>8 DEF Tied, Saving, Holding
  <1>10. Linked'
    BY <1>3, <1>4, <1>6, <1>7, <1>8, <1>9, LinkedIfRow
  <1>11. ASSUME apart
         PROVE  Quiet'
    <2> USE <1>11
    <2>1. \A j \in DOMAIN rows : j[1] # k[1]
      BY <1>0, <1>1, <1>2 DEF Quiet, Calm
    <2>2. Calm(q)'
      BY <1>3, <1>4, <1>7 DEF Calm
    <2>3. q.at # "store"
      BY <1>3 DEF Idle
    <2>4. /\ Counts(rows'[k], unseen'[k], q.at = "store", lost[<<k[2], k[1]>>])
          /\ rows'[k].start
      <3>1. lost[<<k[2], k[1]>>] \in Nat
        BY <1>1, <1>2 DEF Linked, TypeOK
      <3> QED
        BY <1>4, <1>7, <2>3, <3>1, CountsNothing DEF Counts
    <2>5. \A j \in DOMAIN rows' : j[1] = k[1] => j = k
      BY <1>4, <2>1
    <2>6. q # Idle => q.owner = reqs[s].owner /\ q.op = reqs[s].op
      BY <1>3
    <2>7. /\ DOMAIN rows' \subseteq DOMAIN rows \cup {k} /\ DOMAIN rows \ {k} \subseteq DOMAIN rows'
          /\ \A j \in DOMAIN rows' : j # k => rows'[j] = rows[j] /\ unseen'[j] = unseen[j]
      BY <1>4
    <2>8. k[1] = reqs[s].owner /\ Continue(s, q)
      BY <1>2, <1>3
    <2> QED
      BY <1>6, <2>2, <2>3, <2>4, <2>5, <2>6, <2>7, <2>8, QuietIfRow
  <1> QED
    BY <1>3, <1>10, <1>11, Continued DEF Linked

(* A row is updated, unless it is gone.                                    *)
LEMMA UpdateRowOrderly ==
  ASSUME Orderly, NEW s \in Slots, UpdateRow(s)
  PROVE  Orderly'
  <1> DEFINE r == reqs[s]
  <1> USE DEF Orderly
  <1>0. r.at = "update"
    BY DEF UpdateRow, At
  <1>1. /\ r # Idle /\ r \in Request /\ Tied(r) /\ r.owner \in Users /\ r.chat \in ChatIds
        /\ r.chat \in chats /\ r.op = "send"
        /\ r.key \in Keys /\ r.key[1] = r.owner /\ r.key[2] = r.chat /\ r.held \in Nat
    BY <1>0, Writer DEF Tied, Saving, Holding
  <1>2. PICK k \in Keys : k = r.key
    BY <1>1
  <1>3. PICK q \in Request :
          /\ Continue(s, q)
          /\ q.at = "store" /\ q.key = k /\ q.op = r.op
          /\ q.owner = r.owner /\ q.chat = r.chat
    <2> DEFINE next == [r EXCEPT !.at = "store"]
    <2>1. /\ next \in Request /\ next.at = "store" /\ next.key = r.key /\ next.op = r.op
          /\ next.owner = r.owner /\ next.chat = r.chat
      BY <1>1 DEF Request, Places
    <2>2. Continue(s, next)
      BY DEF UpdateRow
    <2> QED
      BY <1>2, <2>1, <2>2
  <1>4. /\ UNCHANGED <<messages, chats, unseen>> /\ reqs[s].at \notin {"idle", "store"}
        /\ DOMAIN rows' = DOMAIN rows /\ DOMAIN unseen' = DOMAIN rows'
        /\ \A j \in DOMAIN rows : j # k => rows'[j] = rows[j] /\ unseen'[j] = unseen[j]
        /\ rows' = [j \in DOMAIN rows' |-> rows'[j]] /\ unseen' = [j \in DOMAIN unseen' |-> unseen'[j]]
    BY <1>0, <1>2 DEF UpdateRow, Linked, TypeOK
  <1>5. r.held + 1 \in Nat /\ r.held + 1 <= Bound(k[1], k[2])'
    BY <1>0, <1>2, <1>3, <1>4, SavedOne DEF Saving
  <1>6. k \in DOMAIN rows => rows'[k] \in Row /\ rows'[k].unread = r.held + 1
                             /\ rows'[k].start = rows[k].start
    <2> SUFFICES ASSUME k \in DOMAIN rows
                 PROVE  rows'[k] \in Row /\ rows'[k].unread = r.held + 1
                        /\ rows'[k].start = rows[k].start
      OBVIOUS
    <2>1. rows'[k] = [rows[k] EXCEPT !.unread = r.held + 1]
      BY <1>2 DEF UpdateRow
    <2>2. rows[k] \in Row
      BY RowTypes
    <2> QED
      BY <1>5, <2>1, <2>2 DEF Row
  <1>7. Tied(q)'
    BY <1>1, <1>2, <1>3, <1>4 DEF Tied, Saving, Holding
  <1>8. k \in DOMAIN rows' => /\ rows'[k] \in Row /\ unseen'[k] \in Nat /\ k[2] \in chats
                              /\ rows'[k].unread <= Bound(k[1], k[2])'
    BY <1>4, <1>5, <1>6, RowTypes
  <1>9. Linked'
    BY <1>3, <1>4, <1>7, <1>8, LinkedIfRow
  <1>10. ASSUME apart
         PROVE  Quiet'
    <2> USE <1>10
    <2>1. k \in DOMAIN rows /\ rows[k].unread = r.held
      BY <1>0, <1>1, <1>2 DEF Quiet, Calm
    <2>2. Counts(rows[k], unseen[k], FALSE, lost[<<k[2], k[1]>>])
      <3>1. \A t \in Slots : At(t, "store") => reqs[t].owner # k[1]
        BY <1>0, <1>1, <1>2 DEF Quiet, NoRivals, Rivals, At, Idle
      <3>2. ~Storing(k[1])
        BY <3>1 DEF Storing
      <3> QED
        BY <2>1, <3>2 DEF Quiet, Counted, Counts
    <2>3. /\ Counts(rows'[k], unseen'[k], q.at = "store", lost[<<k[2], k[1]>>])
          /\ rows'[k].start
      <3>1. /\ rows[k].unread \in Nat /\ unseen[k] \in Nat /\ lost[<<k[2], k[1]>>] \in Nat
            /\ unseen'[k] = unseen[k] /\ rows'[k].unread = rows[k].unread + 1
        BY <1>4, <1>6, <2>1, RowTypes
      <3>2. Counts(rows'[k], unseen'[k], TRUE, lost[<<k[2], k[1]>>])
        BY <2>2, <3>1, CountsOneMore
      <3> QED
        BY <1>3, <1>6, <2>1, <3>2 DEF Quiet, Started, Counts
    <2>4. Calm(q)'
      BY <1>3, <1>4, <2>1 DEF Calm
    <2>5. \A j \in DOMAIN rows' : j[1] = k[1] => j = k
      BY <1>4, <2>1 DEF Quiet, OneRow
    <2>6. k[1] = reqs[s].owner
      BY <1>1, <1>2
    <2> QED
      BY <1>3, <1>4, <2>1, <2>3, <2>4, <2>5, <2>6, QuietIfRow
  <1> QED
    BY <1>3, <1>9, <1>10, Continued DEF Linked

(* A row that is gone is inserted again: never if requests are kept apart. *)
LEMMA ReinsertRowOrderly ==
  ASSUME Orderly, NEW s \in Slots, ReinsertRow(s)
  PROVE  Orderly'
  <1> DEFINE r == reqs[s]
  <1> USE DEF Orderly
  <1>0. r.at = "reinsert"
    BY DEF ReinsertRow, At
  <1>1. /\ r # Idle /\ r \in Request /\ Tied(r) /\ r.owner \in Users /\ r.chat \in ChatIds
        /\ r.chat \in chats /\ r.op = "send"
        /\ r.key \in Keys /\ r.key[1] = r.owner /\ r.key[2] = r.chat
        /\ r.held \in Nat /\ r.new \in BOOLEAN
    BY <1>0, Writer, Requests DEF Tied, Saving, Holding, Linked
  <1>2. ~apart
    BY <1>0, <1>1 DEF Quiet, Calm
  <1>3. PICK k \in Keys : k = r.key
    BY <1>1
  <1>4. CASE k \in DOMAIN rows
    <2>1. Continue(s, Idle) /\ UNCHANGED <<chats, rows, messages, unseen>>
      BY <1>3, <1>4 DEF ReinsertRow, Answer
    <2>2. Tied(Idle)
      BY DEF Tied
    <2>3. Linked'
      BY <1>0, <2>1, <2>2, Continued, LinkedIfOnlyReqs DEF Linked, TypeOK
    <2> QED
      BY <1>2, <2>1, <2>3, Continued DEF Linked
  <1>5. CASE k \notin DOMAIN rows
    <2>1. /\ rows' = Put(rows, k, [unread |-> r.held + 1, start |-> r.new])
          /\ unseen' = Put(unseen, k, 0)
          /\ Continue(s, [r EXCEPT !.at = "store"])
          /\ UNCHANGED <<messages, chats>>
      BY <1>3, <1>5 DEF ReinsertRow
    <2>2. PICK q \in Request :
            /\ Continue(s, q)
            /\ q.at = "store" /\ q.key = k /\ q.op = r.op
            /\ q.owner = r.owner /\ q.chat = r.chat
      <3> DEFINE next == [r EXCEPT !.at = "store"]
      <3>1. /\ next \in Request /\ next.at = "store" /\ next.key = r.key /\ next.op = r.op
            /\ next.owner = r.owner /\ next.chat = r.chat
        BY <1>1 DEF Request, Places
      <3> QED
        BY <1>3, <2>1, <3>1
    <2>3. r.held + 1 \in Nat /\ r.held + 1 <= Bound(k[1], k[2])'
      BY <1>0, <1>3, <2>1, <2>2, SavedOne DEF Saving
    <2>4. /\ DOMAIN rows' = DOMAIN rows \cup {k} /\ DOMAIN unseen' = DOMAIN rows'
          /\ rows'[k] = [unread |-> r.held + 1, start |-> r.new] /\ unseen'[k] = 0
          /\ \A j \in DOMAIN rows : j # k => rows'[j] = rows[j] /\ unseen'[j] = unseen[j]
          /\ rows' = [j \in DOMAIN rows' |-> rows'[j]] /\ unseen' = [j \in DOMAIN unseen' |-> unseen'[j]]
      <3>1. DOMAIN unseen = DOMAIN rows
        BY DEF Linked, TypeOK
      <3>2. /\ DOMAIN rows' = DOMAIN rows \cup {k}
            /\ rows'[k] = [unread |-> r.held + 1, start |-> r.new]
            /\ \A j \in DOMAIN rows : j # k => rows'[j] = rows[j]
            /\ rows' = [j \in DOMAIN rows' |-> rows'[j]]
        BY <2>1 DEF Put
      <3>3. /\ DOMAIN unseen' = DOMAIN unseen \cup {k} /\ unseen'[k] = 0
            /\ \A j \in DOMAIN unseen : j # k => unseen'[j] = unseen[j]
            /\ unseen' = [j \in DOMAIN unseen' |-> unseen'[j]]
        BY <2>1 DEF Put
      <3> QED
        BY <3>1, <3>2, <3>3
    <2>5. rows'[k] \in Row /\ rows'[k].unread = r.held + 1
      BY <1>1, <2>3, <2>4 DEF Row
    <2>6. Tied(q)'
      BY <1>1, <1>3, <2>1, <2>2 DEF Tied, Saving, Holding
    <2>7. Linked'
      BY <1>0, <1>1, <1>3, <2>1, <2>2, <2>3, <2>4, <2>5, <2>6, LinkedIfRow
    <2> QED
      BY <1>2, <2>2, <2>7, Continued DEF Linked
  <1> QED
    BY <1>4, <1>5

(* A row is read to the end, or removed.                                   *)
LEMMA ResetRemoveOrderly ==
  ASSUME Orderly, NEW s \in Slots, ResetRow(s) \/ RemoveRow(s)
  PROVE  Orderly'
  <1> DEFINE r == reqs[s]
  <1> USE DEF Orderly
  <1>0. r.at \in {"reset", "remove"} /\ r.at \notin {"idle", "store"}
    BY DEF ResetRow, RemoveRow, At
  <1>1. /\ r # Idle /\ r.owner \in Users /\ r.chat \in ChatIds /\ r.chat \in chats
        /\ r.key \in Keys /\ r.key[1] = r.owner /\ r.key[2] = r.chat
    BY <1>0, Writer DEF Tied, Saving, Holding
  <1>2. PICK k \in Keys : k = r.key
    BY <1>1
  <1>3. Continue(s, Idle) /\ UNCHANGED <<messages, chats>>
    BY DEF ResetRow, RemoveRow, Answer
  <1>4. /\ DOMAIN rows' \subseteq DOMAIN rows /\ DOMAIN rows \ {k} \subseteq DOMAIN rows'
        /\ DOMAIN unseen' = DOMAIN rows'
        /\ \A j \in DOMAIN rows' : j # k => rows'[j] = rows[j] /\ unseen'[j] = unseen[j]
        /\ rows' = [j \in DOMAIN rows' |-> rows'[j]] /\ unseen' = [j \in DOMAIN unseen' |-> unseen'[j]]
        /\ k \in DOMAIN rows' => /\ rows'[k] = [rows[k] EXCEPT !.unread = 0]
                                 /\ unseen'[k] = 0
    <2>1. DOMAIN unseen = DOMAIN rows /\ rows = [j \in DOMAIN rows |-> rows[j]]
          /\ unseen = [j \in DOMAIN unseen |-> unseen[j]]
      BY DEF Linked, TypeOK
    <2>2. CASE ResetRow(s)
      BY <1>2, <2>1, <2>2 DEF ResetRow
    <2>3. CASE RemoveRow(s)
      <3>1. rows' = Drop(rows, k) /\ unseen' = Drop(unseen, k)
        BY <1>2, <2>3 DEF RemoveRow
      <3>2. /\ DOMAIN rows' = DOMAIN rows \ {k}
            /\ \A j \in DOMAIN rows \ {k} : rows'[j] = rows[j]
            /\ rows' = [j \in DOMAIN rows' |-> rows'[j]]
        BY <3>1 DEF Drop
      <3>3. /\ DOMAIN unseen' = DOMAIN unseen \ {k}
            /\ \A j \in DOMAIN unseen \ {k} : unseen'[j] = unseen[j]
            /\ unseen' = [j \in DOMAIN unseen' |-> unseen'[j]]
        BY <3>1 DEF Drop
      <3> QED
        BY <2>1, <3>2, <3>3
    <2> QED
      BY <2>2, <2>3
  <1>5. k \in DOMAIN rows' => /\ rows'[k] \in Row /\ rows'[k].unread = 0
                              /\ rows'[k].start = rows[k].start
    <2>1. k \in DOMAIN rows' => rows[k] \in Row
      BY <1>4, RowTypes
    <2> QED
      BY <1>4, <2>1 DEF Row
  <1>6. 0 <= Bound(k[1], k[2])'
    <2>1. reqs'[s] = Idle /\ lost' = lost /\ \A t \in Slots : t # s => reqs'[t] = reqs[t]
      BY <1>3, Continued DEF Linked
    <2>2. \A o \in Users, c \in ChatIds : Bound(o, c)' \in Nat /\ 0 <= Bound(o, c)'
      BY <1>0, <1>3, <2>1, BoundGrows DEF Linked
    <2> QED
      BY <1>1, <1>2, <2>2
  <1>7. Tied(Idle)' /\ Calm(Idle)' /\ Idle.at # "store"
    BY DEF Tied, Calm, Idle
  <1>8. Linked'
    BY <1>0, <1>1, <1>2, <1>3, <1>4, <1>5, <1>6, <1>7, LinkedIfRow
  <1>9. ASSUME apart
        PROVE  Quiet'
    <2> USE <1>9
    <2>1. k \in DOMAIN rows' =>
            /\ rows'[k].start
            /\ Counts(rows'[k], unseen'[k], Idle.at = "store", lost[<<k[2], k[1]>>])
      <3> SUFFICES ASSUME k \in DOMAIN rows'
                   PROVE  /\ rows'[k].start
                          /\ Counts(rows'[k], unseen'[k], Idle.at = "store", lost[<<k[2], k[1]>>])
        OBVIOUS
      <3>1. lost[<<k[2], k[1]>>] \in Nat
        BY <1>4, RowTypes
      <3> QED
        BY <1>4, <1>5, <1>7, <3>1, CountsNothing DEF Quiet, Started, Counts
    <2>2. \A j \in DOMAIN rows' : j[1] = k[1] /\ k \in DOMAIN rows' => j = k
      BY <1>4 DEF Quiet, OneRow
    <2>3. k[1] = reqs[s].owner
      BY <1>1, <1>2
    <2>4. DOMAIN rows' \subseteq DOMAIN rows \cup {k}
      BY <1>4
    <2> QED
      BY <1>0, <1>3, <1>4, <1>7, <2>1, <2>2, <2>3, <2>4, QuietIfRow
  <1> QED
    BY <1>3, <1>8, <1>9, Continued DEF Linked

-----------------------------------------------------------------------------
(* A message that was about to be stored is stored, or is lost.            *)
LEMMA Settling ==
  ASSUME Linked, NEW s \in Slots, reqs[s].at = "store", CreateMessage(s) \/ Fail(s)
  PROVE  /\ reqs' \in [Slots -> Request \cup {Idle}] /\ reqs'[s] = Idle
         /\ \A t \in Slots : t # s => reqs'[t] = reqs[t]
         /\ started' = started /\ apart' = apart /\ chats' = chats /\ rows' = rows
         /\ \A o \in Users, c \in ChatIds :
              /\ messages[<<c, o>>] \in Nat /\ lost[<<c, o>>] \in Nat
              /\ messages'[<<c, o>>] \in Nat /\ lost'[<<c, o>>] \in Nat
              /\ messages'[<<c, o>>] + lost'[<<c, o>>] =
                   messages[<<c, o>>] + lost[<<c, o>>]
                     + IF o = reqs[s].owner /\ c = reqs[s].chat THEN 1 ELSE 0
         /\ messages' \in [ChatIds \X Users -> Nat] /\ lost' \in [ChatIds \X Users -> Nat]
  <1> DEFINE r == reqs[s]
  <1>1. r.owner \in Users /\ r.chat \in ChatIds
    BY Writer
  <1>2. messages \in [ChatIds \X Users -> Nat] /\ lost \in [ChatIds \X Users -> Nat]
    BY DEF Linked, TypeOK
  <1>3. CASE CreateMessage(s)
    <2>1. /\ messages' = [messages EXCEPT ![<<r.chat, r.owner>>] = @ + 1]
          /\ Continue(s, Idle) /\ UNCHANGED <<chats, rows>>
      BY <1>3 DEF CreateMessage, Answer
    <2> QED
      BY <1>1, <1>2, <2>1, Continued DEF Linked
  <1>4. CASE Fail(s)
    <2>1. /\ lost' = [lost EXCEPT ![<<r.chat, r.owner>>] = @ + 1]
          /\ reqs' = [reqs EXCEPT ![s] = Idle] /\ UNCHANGED <<db, started, apart>>
      BY <1>4 DEF Fail
    <2>2. reqs \in [Slots -> Request \cup {Idle}]
      BY DEF Linked, TypeOK
    <2> QED
      BY <1>1, <1>2, <2>1, <2>2
  <1> QED
    BY <1>3, <1>4

(* The bounds stay, as the message was about to be stored.                 *)
LEMMA BoundKept ==
  ASSUME Linked, NEW s \in Slots, reqs[s].at = "store", CreateMessage(s) \/ Fail(s),
         NEW o \in Users, NEW c \in ChatIds
  PROVE  Bound(o, c)' = Bound(o, c) /\ Bound(o, c) \in Nat
  <1> DEFINE r == reqs[s]
  <1>1. reqs'[s] = Idle /\ \A t \in Slots : t # s => reqs'[t] = reqs[t]
    BY Settling
  <1>2. IsFiniteSet(Stores(o, c)) /\ Cardinality(Stores(o, c)) \in Nat
    BY StoresFinite
  <1>3. /\ messages[<<c, o>>] \in Nat /\ lost[<<c, o>>] \in Nat
        /\ messages'[<<c, o>>] \in Nat /\ lost'[<<c, o>>] \in Nat
        /\ messages'[<<c, o>>] + lost'[<<c, o>>] =
             messages[<<c, o>>] + lost[<<c, o>>] + IF o = r.owner /\ c = r.chat THEN 1 ELSE 0
    BY Settling
  <1>4. CASE o = r.owner /\ c = r.chat
    <2>1. s \in Stores(o, c) /\ Stores(o, c)' = Stores(o, c) \ {s}
      BY <1>1, <1>4 DEF Stores, At, Idle
    <2>2. Cardinality(Stores(o, c)') = Cardinality(Stores(o, c)) - 1
      BY <1>2, <2>1, FS_RemoveElement
    <2> QED
      BY <1>2, <1>3, <1>4, <2>2 DEF Bound
  <1>5. CASE ~(o = r.owner /\ c = r.chat)
    <2>1. Stores(o, c)' = Stores(o, c)
      BY <1>1, <1>5 DEF Stores, At, Idle
    <2> QED
      BY <1>2, <1>3, <1>5, <2>1 DEF Bound
  <1> QED
    BY <1>4, <1>5

(* The message is stored or lost: the counters announced it before.        *)
LEMMA SettlingOrderly ==
  ASSUME Orderly, NEW s \in Slots, reqs[s].at = "store", CreateMessage(s) \/ Fail(s)
  PROVE  Orderly'
  <1> DEFINE r == reqs[s]
  <1> USE DEF Orderly
  <1>0. r.at = "store"
    OBVIOUS
  <1>1. /\ r # Idle /\ r.owner \in Users /\ r.chat \in ChatIds
        /\ r.key[1] = r.owner /\ r.key[2] = r.chat
    BY <1>0, Writer DEF Tied, Holding
  <1>2. /\ reqs' \in [Slots -> Request \cup {Idle}] /\ reqs'[s] = Idle
        /\ \A t \in Slots : t # s => reqs'[t] = reqs[t]
        /\ started' = started /\ apart' = apart
    BY Settling
  <1>3. UNCHANGED <<chats, rows>>
    BY Settling
  <1>4. /\ DOMAIN unseen = DOMAIN rows /\ unseen' = [k \in DOMAIN unseen |-> unseen'[k]]
        /\ \A k \in DOMAIN rows : /\ unseen[k] \in Nat
                                  /\ k \in RowsOf(r.owner, r.chat) => unseen'[k] \in {unseen[k], unseen[k] + 1}
                                  /\ k \notin RowsOf(r.owner, r.chat) => unseen'[k] = unseen[k]
    BY DEF CreateMessage, Fail, Linked, TypeOK
  <1>5. TypeOK'
    <2>1. messages' \in [ChatIds \X Users -> Nat] /\ lost' \in [ChatIds \X Users -> Nat]
      BY Settling
    <2>2. \A k \in DOMAIN rows : unseen'[k] \in Nat
      BY <1>4
    <2>3. unseen' \in [DOMAIN rows' -> Nat]
      BY <1>3, <1>4, <2>2
    <2> QED
      BY <1>2, <1>3, <2>1, <2>3 DEF Linked, TypeOK
  <1>6. \A o \in Users, c \in ChatIds : Bound(o, c)' = Bound(o, c)
    BY BoundKept
  <1>7. RowsOfChats' /\ Backed'
    <2> SUFFICES ASSUME NEW k \in DOMAIN rows
                 PROVE  k[2] \in chats /\ rows[k].unread <= Bound(k[1], k[2])'
      BY <1>3 DEF RowsOfChats, Backed
    <2> QED
      BY <1>6, RowTypes
  <1>8. ASSUME NEW t \in Slots
        PROVE  Tied(reqs[t])'
    <2>1. CASE t = s
      BY <1>2, <2>1 DEF Tied
    <2>2. CASE t # s
      <3>1. Tied(reqs[t]) /\ reqs'[t] = reqs[t]
        BY <1>2, <2>2 DEF Linked
      <3>2. ASSUME reqs[t] # Idle, reqs[t].at \in Saving
            PROVE  reqs[t].owner \in Users /\ reqs[t].chat \in ChatIds
        BY <3>2, Writer DEF Saving
      <3> QED
        BY <1>3, <1>6, <3>1, <3>2 DEF Tied
    <2> QED
      BY <2>1, <2>2
  <1>9. ASSUME apart
        PROVE  Quiet'
    <2> USE <1>9
    <2>1. r.key \in DOMAIN rows
      BY <1>0, <1>1 DEF Quiet, Calm
    <2>2. \A t \in Slots : t # s /\ reqs[t] # Idle => reqs[t].owner # r.owner
      BY <1>1 DEF Quiet, NoRivals, Rivals
    <2>3. NoRivals'
      BY <1>2 DEF Quiet, NoRivals, Rivals
    <2>4. PICK o \in Users : o = r.owner
      BY <1>1
    <2>5. /\ Storing(o)
          /\ ~Storing(o)'
          /\ \A v : v # o => (Storing(v)' <=> Storing(v))
      <3>1. \A t \in Slots : reqs'[t].at = "store" => reqs'[t].owner # o
        BY <1>2, <2>2, <2>4 DEF Idle
      <3>2. Storing(o)
        BY <1>0, <2>4 DEF Storing, At
      <3>3. ~Storing(o)'
        BY <3>1 DEF Storing, At
      <3>4. \A v : v # o => (Storing(v)' <=> Storing(v))
        BY <1>0, <1>2, <2>4 DEF Storing, At, Idle
      <3> QED
        BY <3>2, <3>3, <3>4
    <2>6. Counted'
      <3> SUFFICES ASSUME NEW k \in DOMAIN rows
                   PROVE  Counts(rows[k], unseen'[k], Storing(k[1])', lost'[<<k[2], k[1]>>])
        BY <1>3 DEF Counted, Counts
      <3>0. /\ k[1] \in Users /\ k[2] \in ChatIds /\ unseen[k] \in Nat
            /\ rows[k].unread \in Nat /\ lost[<<k[2], k[1]>>] \in Nat
        BY RowTypes
      <3>1. CASE k[1] = o
        <4>1. k = r.key
          BY <1>1, <2>1, <2>4, <3>1 DEF Quiet, OneRow
        <4>2. \/ unseen'[k] = unseen[k] + 1 /\ lost' = lost
              \/ unseen'[k] = unseen[k] /\ lost'[<<k[2], k[1]>>] = lost[<<k[2], k[1]>>] + 1
          <5>1. k \in RowsOf(r.owner, r.chat) /\ <<k[2], k[1]>> = <<r.chat, r.owner>>
            BY <1>1, <4>1 DEF RowsOf
          <5>2. CASE CreateMessage(s)
            BY <1>4, <5>1, <5>2 DEF CreateMessage, Answer, Continue
          <5>3. CASE Fail(s)
            BY <1>0, <3>0, <5>1, <5>3 DEF Fail, Linked, TypeOK
          <5> QED
            BY <5>2, <5>3
        <4>3. Counts(rows[k], unseen[k], TRUE, lost[<<k[2], k[1]>>])
          BY <2>5, <3>1 DEF Quiet, Counted, Counts
        <4>4. ~Storing(k[1])'
          BY <2>5, <3>1
        <4> QED
          BY <3>0, <4>2, <4>3, <4>4, CountsSettled DEF Counts
      <3>2. CASE k[1] # o
        <4>1. unseen'[k] = unseen[k]
          BY <1>4, <2>4, <3>2 DEF RowsOf
        <4>2. lost'[<<k[2], k[1]>>] = lost[<<k[2], k[1]>>]
          BY <2>4, <3>0, <3>2 DEF CreateMessage, Fail, Answer, Continue, Linked, TypeOK
        <4> QED
          BY <2>5, <3>2, <4>1, <4>2 DEF Quiet, Counted, Counts
      <3> QED
        BY <3>1, <3>2
    <2>7. \A t \in Slots : Calm(reqs[t])'
      BY <1>2, <1>3 DEF Quiet, Calm
    <2> QED
      BY <1>3, <2>3, <2>6, <2>7 DEF Quiet, OneChat, OneRow, Started
  <1> QED
    BY <1>2, <1>5, <1>7, <1>8, <1>9 DEF Linked

(* A call fails elsewhere: the request is gone, and nothing else changes.  *)
LEMMA FailOrderly ==
  ASSUME Orderly, NEW s \in Slots, reqs[s].at # "store", Fail(s)
  PROVE  Orderly'
  <1> USE DEF Orderly
  <1>1. Continue(s, Idle) /\ UNCHANGED <<db, lost>>
    BY DEF Fail, Continue
  <1>2. Tied(Idle) /\ Calm(Idle) /\ Idle.at # "store"
    BY DEF Tied, Calm, Idle
  <1>3. Linked'
    BY <1>1, <1>2, Continued, LinkedIfOnlyReqs DEF Linked, TypeOK
  <1>4. apart => \A t \in Slots : t # s => ~Rivals(Idle, reqs[t]) /\ ~Rivals(reqs[t], Idle)
    BY DEF Rivals
  <1>5. apart => Quiet'
    BY <1>1, <1>2, <1>4, Continued, QuietIfOnlyReqs DEF Linked
  <1> QED
    BY <1>1, <1>3, <1>5, Continued DEF Linked

-----------------------------------------------------------------------------
(* It holds from the start, and every step keeps it.                       *)
LEMMA InitOrderly == Init => Orderly
  <1> SUFFICES ASSUME Init
               PROVE  Orderly
    OBVIOUS
  <1>1. \A s \in Slots : reqs[s] = Idle
    BY DEF Init
  <1>2. DOMAIN rows = {} /\ DOMAIN unseen = {} /\ chats = {}
    BY DEF Init
  <1>3. TypeOK
    BY BoundsAssumption DEF Init, TypeOK
  <1>4. \A s \in Slots : Tied(reqs[s]) /\ Calm(reqs[s])
    BY <1>1 DEF Tied, Calm
  <1>5. NoRivals
    BY <1>1 DEF NoRivals, Rivals
  <1> QED
    BY <1>2, <1>3, <1>4, <1>5 DEF Orderly, Linked, RowsOfChats, Backed, Quiet, OneChat, OneRow,
                                  Started, Counted

(* Nothing changes.                                                        *)
LEMMA StutterOrderly ==
  ASSUME Orderly, UNCHANGED vars
  PROVE  Orderly'
  <1> USE DEF vars
  <1>1. TypeOK'
    BY DEF Orderly, Linked, TypeOK
  <1>2. \A o, c : Bound(o, c)' = Bound(o, c)
    BY DEF Bound, Stores, At
  <1>3. RowsOfChats' /\ Backed'
    BY <1>2 DEF Orderly, Linked, RowsOfChats, Backed
  <1>4. \A s \in Slots : Tied(reqs[s])'
    BY <1>2 DEF Orderly, Linked, Tied
  <1>5. Linked'
    BY <1>1, <1>3, <1>4 DEF Linked
  <1>6. ASSUME apart
        PROVE  Quiet'
    <2>1. \A o : Storing(o)' <=> Storing(o)
      BY DEF Storing, At
    <2>2. Counted'
      BY <1>6, <2>1 DEF Orderly, Quiet, Counted
    <2>3. NoRivals' /\ \A s \in Slots : Calm(reqs[s])'
      BY <1>6 DEF Orderly, Quiet, NoRivals, Rivals, Calm
    <2> QED
      BY <1>6, <2>2, <2>3 DEF Orderly, Quiet, OneChat, OneRow, Started
  <1> QED
    BY <1>5, <1>6 DEF Orderly

(* Orderly is an invariant.                                                *)
LEMMA AlwaysOrderly == Spec => []Orderly
  <1>1. ASSUME Orderly, [Next]_vars
        PROVE  Orderly'
    <2>1. CASE UNCHANGED vars
      BY <1>1, <2>1, StutterOrderly
    <2>2. CASE Done
      BY <1>1, <2>2, StutterOrderly DEF Done
    <2>3. ASSUME NEW s \in Slots, NEW u \in Users,
                 \/ CreateChat(s, u)
                 \/ \E c \in chats : SendMessage(s, u, c) \/ ReadAll(s, u, c)
                                     \/ DeleteConversation(s, u, c)
          PROVE  Orderly'
      BY <1>1, <2>3, ReceivedOrderly
    <2>4. ASSUME NEW s \in Slots,
                 \/ InsertChat(s) \/ FindRow(s) \/ InsertRow(s) \/ SaveRead(s) \/ UpdateRow(s)
                 \/ ReinsertRow(s) \/ CreateMessage(s) \/ ResetRow(s) \/ RemoveRow(s) \/ Fail(s)
          PROVE  Orderly'
      BY <1>1, <2>4, InsertChatOrderly, FoundOrderly, InsertRowOrderly, UpdateRowOrderly,
         ReinsertRowOrderly, SettlingOrderly, FailOrderly, ResetRemoveOrderly
         DEF CreateMessage, At
    <2> QED
      BY <1>1, <2>1, <2>2, <2>3, <2>4 DEF Next
  <1> QED
    BY <1>1, InitOrderly, PTL DEF Spec

(* Every variable of the direct chats keeps its type.                      *)
THEOREM DirectChatTypes == Spec => []TypeOK
  <1>1. Orderly => TypeOK
    BY DEF Orderly, Linked
  <1> QED
    BY <1>1, AlwaysOrderly, PTL

(* However many requests on a row overlap, in whatever order their finds,  *)
(* saves and reads fall, and whatever fails, its counter never claims more *)
(* than the user was sent, is about to be sent, or missed by the failure of*)
(* an INSERT (UpdateUnreadMessages, createMessage).                        *)
THEOREM DirectUnreadBacked == Spec => []UnreadIsBacked
  <1>1. Orderly => UnreadIsBacked
    BY DEF Orderly, Linked, Backed, Bound, UnreadIsBacked, Stores, StoringFor
  <1> QED
    BY <1>1, AlwaysOrderly, PTL

(* With requests on a row kept apart, the counter has every message stored *)
(* since the row was created or read, and beyond them only messages that   *)
(* were counted and whose INSERT failed (UpdateUnreadMessages, readAll,    *)
(* createMessage).                                                         *)
THEOREM DirectUnreadExact == Spec => []UnreadIsExact
  <1>1. Orderly => UnreadIsExact
    <2> SUFFICES ASSUME Orderly, apart, NEW k \in DOMAIN rows,
                        \A s \in Slots : reqs[s] = Idle \/ reqs[s].owner # k[1]
                 PROVE  rows[k].unread \in unseen[k] .. (unseen[k] + lost[<<k[2], k[1]>>])
      BY DEF UnreadIsExact
    <2>1. ~Storing(k[1])
      BY DEF Storing, At, Idle
    <2>2. Counts(rows[k], unseen[k], FALSE, lost[<<k[2], k[1]>>])
      BY <2>1 DEF Orderly, Quiet, Counted, Counts
    <2>3. rows[k].unread \in Nat /\ unseen[k] \in Nat /\ lost[<<k[2], k[1]>>] \in Nat
      BY RowTypes DEF Orderly
    <2> QED
      BY <2>2, <2>3 DEF Counts
  <1> QED
    BY <1>1, AlwaysOrderly, PTL

(* With requests on a row kept apart, no conversation that was deleted     *)
(* comes back without its startTime (findAndCreate, Repository.save).      *)
THEOREM DeletedHistoryHidden == Spec => []HistoryStaysHidden
  <1>1. Orderly => HistoryStaysHidden
    BY DEF Orderly, Quiet, Started, HistoryStaysHidden
  <1> QED
    BY <1>1, AlwaysOrderly, PTL

(* With creations kept apart there is never a second chat between the two  *)
(* users, nor a second row of one of them (checkExists, findAndCreate).    *)
THEOREM OneChat_OneRow == Spec => []OneChatPerPair
  <1>1. Orderly => OneChatPerPair
    <2> SUFFICES ASSUME Orderly, apart
                 PROVE  Cardinality(chats) <= 1 /\ \A k, j \in DOMAIN rows : k[1] = j[1] => k = j
      BY DEF OneChatPerPair
    <2>1. OneChat /\ OneRow
      BY DEF Orderly, Quiet
    <2>2. CASE chats = {}
      BY <2>1, <2>2, FS_EmptySet DEF OneRow
    <2>3. ASSUME NEW c \in chats
          PROVE  Cardinality(chats) <= 1
      <3>1. chats = {c}
        BY <2>1 DEF OneChat
      <3> QED
        BY <3>1, FS_Singleton
    <2> QED
      BY <2>1, <2>2, <2>3 DEF OneRow
  <1> QED
    BY <1>1, AlwaysOrderly, PTL
=============================================================================
