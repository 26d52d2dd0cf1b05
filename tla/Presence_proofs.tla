--------------------------- MODULE Presence_proofs ---------------------------
(***************************************************************************)
(* Proofs about Presence, for any number of sockets and any bound.         *)
(*                                                                         *)
(* Presence keeps the promise of Rooms because of InRoom: a socket in the  *)
(* room is open and its handleConnection is over, so that no socket is     *)
(* greeted that has joined.                                                *)
(*                                                                         *)
(* LastSeenIsKept is inductive together with Orders and Latest, if a job is*)
(* delayed for exactly the lifetime of the key, as the code does.  While   *)
(* the key of the last disconnection is kept, no job has longer to wait    *)
(* than the key has to live, and the one that has as long carries the time *)
(* of the key; so the job that runs when the key is gone is the right one, *)
(* and every other has been dropped.                                       *)
(***************************************************************************)
EXTENDS Presence, TLAPS

(* A job of user-queue, as it is stored.                                   *)
Updates == [at : {"delayed", "cached", "write"}, left : 0 .. Delay, time : Times]

InRoom == \A c \in room : wire[c] /\ hello[c] = "idle"

Placed == TypeOK /\ InRoom

USE DEF Updates

(* The time a key has left.                                                *)
LEMMA LifeLeft ==
  /\ 0 \in 0 .. TTL /\ TTL \in 0 .. TTL /\ TTL \in 1 .. TTL /\ TTL > 0 /\ ~(0 > 0)
  /\ \A t \in 0 .. TTL : KeyAged(t) \in 0 .. TTL /\ (KeyAged(t) > 0 => t > 0)
  /\ \A t \in 1 .. TTL : t > 1 => t - 1 \in 1 .. TTL
  BY TTLAssumption DEF KeyAged

(* A session that ends, or does not, leaves the user offline, or as before.*)
LEMMA OnlineOrNot ==
  ASSUME session' = 0 \/ session' = session \/ (session' > 0 => session > 0)
  PROVE  Online' \in {FALSE, Online}
  <1>1. session' = session => (Online' <=> Online)
    BY DEF Online
  <1>2. session' = 0 => ~(Online')
    BY LifeLeft DEF Online
  <1>3. (session' > 0 => session > 0) => (Online' => Online)
    BY DEF Online
  <1>4. Online \in BOOLEAN /\ Online' \in BOOLEAN
    BY DEF Online
  <1>5. CASE Online' <=> Online
    BY <1>4, <1>5
  <1>6. CASE ~(Online')
    BY <1>4, <1>6
  <1> QED
    BY <1>1, <1>2, <1>3, <1>5, <1>6, Zenon

(* Nobody is there at the start.                                           *)
LEMMA PlacedAtFirst == Init => Placed
  <1> SUFFICES ASSUME Init PROVE Placed
    OBVIOUS
  <1>1. InRoom
    BY DEF Init, InRoom
  <1>2. TypeOK
    <2>1. session \in 0 .. TTL /\ erasures \in Nat
      BY LifeLeft DEF Init
    <2>2. updates \in [JobSlots -> Updates \cup {NoJob}]
      BY DEF Init
    <2> QED
      BY <2>1, <2>2 DEF Init, TypeOK, Times
  <1> QED
    BY <1>1, <1>2 DEF Placed

(* What is left of a job that a later disconnection makes older.           *)
LEMMA JobAged ==
  ASSUME NEW u \in Updates \cup {NoJob}
  PROVE  LET v == [u EXCEPT !.time = Aged(@)]
         IN  /\ v \in Updates \cup {NoJob}
             /\ v = NoJob <=> u = NoJob
             /\ v.at = u.at /\ v.left = u.left /\ v.time = Aged(u.time)
  <1>1. CASE u = NoJob
    BY <1>1 DEF NoJob, Aged, Times
  <1>2. CASE u \in Updates
    BY <1>2 DEF NoJob, Aged, Times
  <1> QED
    BY <1>1, <1>2

(* The same of a unit of time that passes.                                 *)
LEMMA JobTicked ==
  ASSUME NEW u \in Updates, u.left # 0
  PROVE  LET v == [u EXCEPT !.left = @ - 1, !.time = Past(@)]
         IN  /\ v \in Updates
             /\ v # NoJob
             /\ v.at = u.at /\ v.left = u.left - 1 /\ v.time = Past(u.time)
  <1>1. u.left - 1 \in 0 .. Delay
    BY DelayAssumption
  <1>2. Past(u.time) \in Times
    BY DEF Past, Times
  <1> QED
    BY <1>1, <1>2 DEF NoJob

(* The disconnection of a socket keeps types, and empties its place.       *)
LEMMA Closed ==
  ASSUME TypeOK, NEW c \in Sockets, NEW user \in BOOLEAN, Close(c, user)
  PROVE  /\ wire' \in [Sockets -> BOOLEAN] /\ known' \in [Sockets -> BOOLEAN]
         /\ room' \in SUBSET Sockets /\ bye' \in [Sockets -> Times \cup {"none"}]
         /\ session' \in 0 .. TTL
         /\ seenKey' \in [left : 1 .. TTL, time : Times] \cup {NoKey}
         /\ lastSeen' \in Times \cup {"null"}
         /\ updates' \in [JobSlots -> Updates \cup {NoJob}]
         /\ erasures' \in Nat /\ fresh' \in BOOLEAN
         /\ room' = room \ {c}
         /\ \A d \in Sockets : d # c => wire'[d] = wire[d]
         /\ session' \in {0, session}
  <1>1. /\ wire' \in [Sockets -> BOOLEAN] /\ known' \in [Sockets -> BOOLEAN]
        /\ room' \in SUBSET Sockets /\ erasures' \in Nat /\ room' = room \ {c}
        /\ \A d \in Sockets : d # c => wire'[d] = wire[d]
    BY DEF Close, TypeOK
  <1>2. CASE user
    <2>1. /\ session' = 0 /\ fresh' = TRUE /\ seenKey' = [left |-> TTL, time |-> "now"]
          /\ lastSeen' = Aged(lastSeen)
          /\ updates' = [j \in JobSlots |-> [updates[j] EXCEPT !.time = Aged(@)]]
          /\ bye' = [d \in Sockets |-> IF d = c THEN "now" ELSE Aged(bye[d])]
      BY <1>2 DEF Close
    <2>2. updates' \in [JobSlots -> Updates \cup {NoJob}]
      BY <2>1, JobAged DEF TypeOK
    <2>3. bye' \in [Sockets -> Times \cup {"none"}] /\ lastSeen' \in Times \cup {"null"}
      BY <2>1 DEF TypeOK, Times, Aged
    <2> QED
      BY <1>1, <2>1, <2>2, <2>3, TTLAssumption DEF Times
  <1>3. CASE ~user
    BY <1>1, <1>3 DEF Close, TypeOK, keys
  <1> QED
    BY <1>2, <1>3

-----------------------------------------------------------------------------
(* The handlers of a socket.                                               *)
LEMMA SocketsPlaced ==
  ASSUME Placed, NEW c \in Sockets,
         Connect(c) \/ Hello(c) \/ UpdateToken(c) \/ Disconnect(c) \/ Schedule(c)
  PROVE  Placed'
  <1> USE DEF Placed
  <1>1. CASE Connect(c)
    BY <1>1 DEF Connect, TypeOK, InRoom, keys, jobs
  <1>2. CASE Reject(c)
    <2>1. hello' = [hello EXCEPT ![c] = "idle"] /\ known[c] \in BOOLEAN
      BY <1>2 DEF Reject, TypeOK
    <2>2. ASSUME NEW user \in BOOLEAN, Close(c, user) PROVE Placed'
      BY <2>1, <2>2, Closed DEF TypeOK, InRoom
    <2>3. CASE UNCHANGED <<wire, known, room, bye, keys, lastSeen, jobs>>
      BY <2>1, <2>3 DEF TypeOK, InRoom, keys, jobs
    <2> QED
      BY <1>2, <2>1, <2>2, <2>3 DEF Reject
  <1>3. CASE Verified(c)
    <2>1. session' \in 0 .. TTL /\ seenKey' = NoKey
      BY <1>3, LifeLeft DEF Verified
    <2>2. hello' \in [Sockets -> {"idle", "verify", "announce", "join"}]
          /\ \A d \in Sockets : d # c => hello'[d] = hello[d]
      BY <1>3 DEF Verified, TypeOK
    <2>3. InRoom'
      BY <1>3, <2>2 DEF Verified, InRoom, TypeOK
    <2> QED
      BY <1>3, <2>1, <2>2, <2>3 DEF Verified, TypeOK, jobs
  <1>4. CASE Announce(c)
    BY <1>4 DEF Announce, TypeOK, InRoom, keys
  <1>5. CASE Join(c)
    BY <1>5 DEF Join, TypeOK, InRoom, keys, jobs
  <1>6. CASE UpdateToken(c)
    BY <1>6 DEF UpdateToken, TypeOK, InRoom, keys, jobs
  <1>7. CASE Disconnect(c)
    <2>1. Close(c, known[c]) /\ hello' = hello /\ known[c] \in BOOLEAN
      BY <1>7 DEF Disconnect, TypeOK
    <2> QED
      BY <2>1, Closed DEF TypeOK, InRoom
  <1>8. CASE Schedule(c)
    <2>1. PICK j \in JobSlots :
            updates' = [updates EXCEPT ![j] = [at |-> "delayed", left |-> Delay, time |-> bye[c]]]
      BY <1>8 DEF Schedule, Queued
    <2>2. updates' \in [JobSlots -> Updates \cup {NoJob}]
      BY <1>8, <2>1, DelayAssumption DEF Schedule, Queued, TypeOK
    <2> QED
      BY <1>8, <2>2 DEF Schedule, Queued, TypeOK, InRoom, keys
  <1> QED
    BY <1>1, <1>2, <1>3, <1>4, <1>5, <1>6, <1>7, <1>8 DEF Hello

(* The jobs of user-queue.                                                 *)
LEMMA JobsPlaced ==
  ASSUME Placed, (\E j \in JobSlots : Work(j)) \/ DeleteLastSeen
  PROVE  Placed'
  <1> USE DEF Placed
  <1>1. ASSUME NEW j \in JobSlots, ReadStatus(j)
        PROVE  Placed'
    <2>1. updates' \in [JobSlots -> Updates \cup {NoJob}]
      BY <1>1 DEF ReadStatus, Due, Pending, Finish, TypeOK
    <2> QED
      BY <1>1, <2>1 DEF ReadStatus, TypeOK, InRoom, keys
  <1>2. ASSUME NEW j \in JobSlots, ReadSeenKey(j)
        PROVE  Placed'
    <2>1. updates' \in [JobSlots -> Updates \cup {NoJob}]
      BY <1>2 DEF ReadSeenKey, NoJob, Finish, TypeOK
    <2> QED
      BY <1>2, <2>1 DEF ReadSeenKey, TypeOK, InRoom, keys
  <1>3. ASSUME NEW j \in JobSlots, SetLastSeen(j)
        PROVE  Placed'
    <2>1. updates[j] \in Updates
      BY <1>3 DEF SetLastSeen, NoJob, TypeOK
    <2> QED
      BY <1>3, <2>1 DEF SetLastSeen, Finish, TypeOK, InRoom, keys
  <1>4. CASE DeleteLastSeen
    BY <1>4 DEF DeleteLastSeen, TypeOK, InRoom, keys
  <1> QED
    BY <1>1, <1>2, <1>3, <1>4 DEF Work

(* A unit of time: keys and jobs lose one, and none of them goes below 0.  *)
LEMMA TicksPlaced ==
  ASSUME Placed, Tick
  PROVE  Placed'
  <1> USE DEF Placed
  <1>1. updates' \in [JobSlots -> Updates \cup {NoJob}]
    <2> SUFFICES ASSUME NEW j \in Pending
                 PROVE  [updates[j] EXCEPT !.left = @ - 1, !.time = Past(@)] \in Updates
      BY DEF Tick
    <2>1. updates[j] \in Updates /\ updates[j].left # 0
      BY DEF Pending, TypeOK, Tick, Settled, Due
    <2> QED
      BY <2>1, JobTicked
  <1>2. session' \in 0 .. TTL
    <2>1. session' = KeyAged(session) /\ session \in 0 .. TTL
      BY DEF Tick, TypeOK
    <2> QED
      BY <2>1, LifeLeft
  <1>3. seenKey' \in [left : 1 .. TTL, time : Times] \cup {NoKey}
    <2>1. CASE seenKey.left > 1 /\ seenKey # NoKey
      <3>1. seenKey.left \in 1 .. TTL /\ seenKey.time \in Times
        BY <2>1 DEF TypeOK
      <3>2. seenKey.left - 1 \in 1 .. TTL /\ Past(seenKey.time) \in Times
        BY <2>1, <3>1, LifeLeft DEF Past, Times
      <3> QED
        BY <2>1, <3>2 DEF Tick
    <2>2. CASE ~(seenKey.left > 1) \/ seenKey = NoKey
      <3>1. ~(seenKey.left > 1)
        BY <2>2 DEF NoKey
      <3> QED
        BY <3>1 DEF Tick
    <2> QED
      BY <2>1, <2>2
  <1>4. lastSeen' \in Times \cup {"null"}
    BY DEF Tick, TypeOK, Past, Times
  <1> QED
    BY <1>1, <1>2, <1>3, <1>4 DEF Tick, TypeOK, InRoom

(* A stop of the process.                                                  *)
LEMMA CrashesPlaced ==
  ASSUME Placed, Crash
  PROVE  Placed'
  <1> USE DEF Placed
  <1>1. updates' \in [JobSlots -> Updates \cup {NoJob}]
    BY DEF Crash, Running, Pending, TypeOK
  <1>2. InRoom'
    BY DEF Crash, InRoom
  <1> QED
    BY <1>1, <1>2 DEF Crash, TypeOK, Times

(* Every step keeps the invariant.                                         *)
LEMMA PlacedGoesOn == Placed /\ [Next]_vars => Placed'
  <1> SUFFICES ASSUME Placed, [Next]_vars PROVE Placed'
    OBVIOUS
  <1>1. CASE Next
    BY <1>1, SocketsPlaced, JobsPlaced, TicksPlaced, CrashesPlaced DEF Next
  <1>2. CASE UNCHANGED vars
    BY <1>2 DEF vars, keys, jobs, Placed, TypeOK, InRoom
  <1> QED
    BY <1>1, <1>2

(* The invariant holds in every state.                                     *)
LEMMA AlwaysPlaced == Spec => []Placed
  BY PlacedAtFirst, PlacedGoesOn, PTL DEF Spec

(* The variables keep their types, whatever sockets, jobs and time do.     *)
THEOREM PresenceTypes == Spec => []TypeOK
  BY AlwaysPlaced, PTL DEF Placed

-----------------------------------------------------------------------------
(* Handlers of sockets are steps of Rooms, or change nothing there.        *)
LEMMA SocketsServe ==
  ASSUME Placed, NEW c \in Sockets,
         Connect(c) \/ Hello(c) \/ UpdateToken(c) \/ Disconnect(c) \/ Schedule(c)
  PROVE  [Served!RoomNext]_(Served!roomVars)
  <1> USE DEF Placed
  <1>1. CASE Connect(c)
    <2>1. Greeted' = Greeted
      BY <1>1 DEF Connect, Greeted, TypeOK
    <2> QED
      BY <1>1, <2>1 DEF Connect, keys, Served!roomVars, Online
  <1>2. CASE Reject(c) \/ Disconnect(c)
    <2>1. Greeted' \in {Greeted, Greeted \ {c}} /\ known[c] \in BOOLEAN
      BY <1>2 DEF Reject, Disconnect, Greeted, TypeOK
    <2>2. ASSUME NEW user \in BOOLEAN, Close(c, user)
          PROVE  [Served!RoomNext]_(Served!roomVars)
      <3>1. room' = room \ {c} /\ session' \in {0, session}
        BY <2>2, Closed
      <3> QED
        BY <2>1, <3>1, OnlineOrNot DEF Served!RoomNext, Served!Leave
    <2>3. CASE UNCHANGED <<wire, known, room, bye, keys, lastSeen, jobs>>
      <3>1. room' = room /\ Online' = Online
        BY <2>3 DEF keys, Online
      <3>2. Greeted' = Greeted \/ (c \in Greeted /\ Greeted' = Greeted \ {c})
        BY <2>1
      <3> QED
        BY <3>1, <3>2 DEF Served!RoomNext, Served!Join, Served!roomVars
    <2> QED
      BY <1>2, <2>1, <2>2, <2>3 DEF Reject, Disconnect
  <1>3. CASE Verified(c)
    <2>1. c \notin Greeted /\ c \notin room /\ Greeted' = Greeted \cup {c}
      BY <1>3 DEF Verified, Greeted, TypeOK, InRoom
    <2>2. Online' = TRUE /\ room' = room
      BY <1>3, TTLAssumption DEF Verified, Online
    <2> QED
      BY <2>1, <2>2 DEF Served!RoomNext, Served!Greet
  <1>4. CASE Announce(c)
    <2>1. Greeted' = Greeted
      BY <1>4 DEF Announce, Greeted, TypeOK
    <2> QED
      BY <1>4, <2>1 DEF Announce, keys, Served!roomVars, Online
  <1>5. CASE Join(c)
    <2>1. c \in Greeted /\ Greeted' = Greeted \ {c}
      BY <1>5 DEF Join, Greeted, TypeOK
    <2>2. room' \in {room, room \cup {c}} /\ Online' = Online
      BY <1>5 DEF Join, keys, Online
    <2> QED
      BY <2>1, <2>2 DEF Served!RoomNext, Served!Join
  <1>6. CASE UpdateToken(c) \/ Schedule(c)
    BY <1>6 DEF UpdateToken, Schedule, Queued, keys, Greeted, Served!roomVars, Online
  <1> QED
    BY <1>1, <1>2, <1>3, <1>4, <1>5, <1>6 DEF Hello

(* So do jobs, time and stops of the process.                              *)
LEMMA OthersServe ==
  ASSUME Placed, (\E j \in JobSlots : Work(j)) \/ DeleteLastSeen \/ Tick \/ Crash
  PROVE  [Served!RoomNext]_(Served!roomVars)
  <1>1. CASE (\E j \in JobSlots : Work(j)) \/ DeleteLastSeen
    <2>1. UNCHANGED <<hello, room, session>>
      BY <1>1 DEF Work, ReadStatus, ReadSeenKey, SetLastSeen, DeleteLastSeen, keys
    <2> QED
      BY <2>1 DEF Greeted, Online, Served!roomVars
  <1>2. CASE Tick
    <2>1. Greeted' = Greeted /\ room' = room
      BY <1>2 DEF Tick, Greeted
    <2>2. Online' \in {FALSE, Online}
      <3>1. session' = KeyAged(session) /\ session \in 0 .. TTL
        BY <1>2 DEF Tick, Placed, TypeOK
      <3>2. session' > 0 => session > 0
        BY <3>1, LifeLeft
      <3> QED
        BY <3>2, OnlineOrNot
    <2> QED
      BY <2>1, <2>2 DEF Served!RoomNext, Served!Expire, Served!roomVars
  <1>3. CASE Crash
    <2>1. Greeted' = {} /\ room' = {} /\ Online' = Online
      BY <1>3 DEF Crash, Greeted, Online
    <2> QED
      BY <2>1 DEF Served!RoomNext, Served!LoseSockets
  <1> QED
    BY <1>1, <1>2, <1>3

(* The handlers of a user's sockets, the expiry of the keys and the stops  *)
(* of the process implement Rooms, which the pushes of Delivery build on.  *)
THEOREM RoomsServed == Spec => RoomPromise
  <1>1. Init => Served!RoomInit
    BY DEF Init, Served!RoomInit, Greeted, Online
  <1>2. Placed /\ [Next]_vars => [Served!RoomNext]_(Served!roomVars)
    <2> SUFFICES ASSUME Placed, [Next]_vars
                 PROVE  [Served!RoomNext]_(Served!roomVars)
      OBVIOUS
    <2>1. CASE Next
      BY <2>1, SocketsServe, OthersServe DEF Next
    <2>2. CASE UNCHANGED vars
      BY <2>2 DEF vars, keys, Greeted, Online, Served!roomVars
    <2> QED
      BY <2>1, <2>2
  <1> QED
    BY <1>1, <1>2, AlwaysPlaced, PTL DEF Spec, RoomPromise, Served!RoomSpec

-----------------------------------------------------------------------------
(* A disconnection is queued in the unit it happened in; a job that runs   *)
(* has waited, and one that was queued in this unit has not.               *)
Leaving == \E c \in Sockets : bye[c] # "none"

Orders ==
  /\ \A c \in Sockets : bye[c] \in {"none", "now"}
  /\ \A j \in Pending : /\ updates[j].at # "delayed" => updates[j].left = 0
                        /\ updates[j].left = Delay => updates[j].time = "now"

(* The key of the last disconnection, and what becomes of its time.        *)
WhileKept ==
  /\ seenKey.time \in {"now", "last"}
  /\ \A j \in Pending : /\ updates[j].left <= seenKey.left
                        /\ updates[j].left = seenKey.left => updates[j].time = seenKey.time
  /\ Leaving \/ \E j \in Pending : updates[j].left = seenKey.left

OnceGone ==
  /\ erasures = 0
  /\ \A c \in Sockets : hello[c] # "announce"
  /\ \A j \in Pending : updates[j].left = 0 /\ updates[j].time = "last"
  /\ Pending # {} \/ lastSeen = "last"

Latest ==
  fresh => /\ session = 0
           /\ Leaving => seenKey = [left |-> TTL, time |-> "now"]
           /\ SeenKept => WhileKept
           /\ ~SeenKept => OnceGone

Timely == Placed /\ Orders /\ Latest

(* A job that waits has the fields of one.                                 *)
LEMMA PendingJobs ==
  ASSUME TypeOK
  PROVE  \A j \in Pending : j \in JobSlots /\ updates[j] \in Updates
  BY DEF TypeOK, Pending

(* A key that is kept has time left.                                       *)
LEMMA KeptKey ==
  ASSUME TypeOK, SeenKept
  PROVE  seenKey.left \in 1 .. TTL /\ seenKey.left # 0 /\ seenKey.time \in Times
  <1>1. seenKey \in [left : 1 .. TTL, time : Times]
    BY DEF TypeOK, SeenKept
  <1>2. seenKey.left \in 1 .. TTL /\ seenKey.time \in Times
    BY <1>1
  <1> QED
    BY <1>2, TTLAssumption

(* Steps that leave jobs and keys alone, and announce nothing.             *)
LEMMA NothingOrdered ==
  ASSUME Timely, UNCHANGED <<updates, bye, session, seenKey, fresh, lastSeen, erasures>>,
         \A c \in Sockets : hello'[c] = "announce" => hello[c] = "announce"
  PROVE  Orders' /\ Latest'
  BY DEF Timely, Orders, Latest, WhileKept, OnceGone, Leaving, Pending, SeenKept

(* A disconnection: its key lives as long as its job is going to wait.     *)
LEMMA ClosedInOrder ==
  ASSUME Delay = TTL, Timely, NEW c \in Sockets, NEW user \in BOOLEAN, Close(c, user),
         \A d \in Sockets : hello'[d] = "announce" => hello[d] = "announce"
  PROVE  Orders' /\ Latest'
  <1> USE DEF Timely, Placed
  <1>1. CASE ~user
    BY <1>1, NothingOrdered DEF Close, keys
  <1>2. CASE user
    <2>1. /\ session' = 0 /\ seenKey' = [left |-> TTL, time |-> "now"]
          /\ updates' = [j \in JobSlots |-> [updates[j] EXCEPT !.time = Aged(@)]]
          /\ bye' = [d \in Sockets |-> IF d = c THEN "now" ELSE Aged(bye[d])]
      BY <1>2 DEF Close
    <2>2. \A d \in Sockets : bye'[d] \in {"none", "now"}
      BY <2>1 DEF Orders, Aged
    <2>3. Leaving'
      BY <2>1 DEF Leaving
    <2>4. ASSUME NEW j \in Pending'
          PROVE  /\ j \in Pending /\ updates'[j].left \in 0 .. Delay
                 /\ updates'[j].at # "delayed" => updates'[j].left = 0
                 /\ updates'[j].left = Delay => updates'[j].time = "now"
      <3>1. j \in JobSlots /\ updates'[j] = [updates[j] EXCEPT !.time = Aged(@)]
        BY <2>1, <2>4 DEF Pending
      <3>2. j \in Pending
        BY <2>4, <3>1, JobAged DEF TypeOK, Pending
      <3>3. updates[j] \in Updates
        BY <3>2, PendingJobs
      <3>4. /\ updates'[j].at = updates[j].at /\ updates'[j].left = updates[j].left
            /\ updates'[j].time = Aged(updates[j].time)
        BY <3>1, <3>3
      <3> QED
        BY <3>2, <3>3, <3>4 DEF Orders, Aged
    <2>5. Orders'
      BY <2>2, <2>4 DEF Orders
    <2>6. seenKey'.left = TTL /\ seenKey'.time = "now" /\ SeenKept'
      BY <2>1 DEF SeenKept, NoKey
    <2>7. WhileKept'
      <3>1. \A j \in Pending' : updates'[j].left <= TTL
        BY <2>4, TTLAssumption
      <3> QED
        BY <2>3, <2>4, <2>6, <3>1 DEF WhileKept
    <2> QED
      BY <2>1, <2>5, <2>6, <2>7 DEF Latest
  <1> QED
    BY <1>1, <1>2

(* The job of a disconnection is queued: it waits as long as the key lives.*)
LEMMA ScheduledInOrder ==
  ASSUME Delay = TTL, Timely, NEW c \in Sockets, Schedule(c)
  PROVE  Orders' /\ Latest'
  <1> USE DEF Timely, Placed
  <1>1. bye[c] = "now" /\ Leaving /\ UNCHANGED <<session, seenKey, fresh, lastSeen, erasures, hello>>
    BY DEF Schedule, Queued, Orders, Leaving, keys
  <1>2. PICK j \in JobSlots \ Pending :
          updates' = [updates EXCEPT ![j] = [at |-> "delayed", left |-> Delay, time |-> bye[c]]]
    BY DEF Schedule, Queued
  <1>3. /\ updates'[j].at = "delayed" /\ updates'[j].left = Delay /\ updates'[j].time = "now"
        /\ j \in Pending'
    BY <1>1, <1>2 DEF TypeOK, Pending, NoJob
  <1>4. \A i \in Pending' : i # j => i \in Pending /\ updates'[i] = updates[i]
    BY <1>2 DEF TypeOK, Pending
  <1>5. \A d \in Sockets : bye'[d] \in {"none", bye[d]}
    BY DEF Schedule, Queued, TypeOK
  <1>6. Orders'
    BY <1>3, <1>4, <1>5 DEF Orders
  <1>7. ASSUME fresh
        PROVE  SeenKept' /\ WhileKept' /\ seenKey' = [left |-> TTL, time |-> "now"] /\ session' = 0
    <2>1. seenKey' = [left |-> TTL, time |-> "now"] /\ seenKey' = seenKey /\ session' = 0
      BY <1>1, <1>7 DEF Latest
    <2>2. SeenKept' /\ SeenKept /\ seenKey'.left = TTL /\ seenKey'.time = "now"
      BY <2>1 DEF SeenKept, NoKey
    <2>3. \A i \in Pending' : /\ updates'[i].left <= TTL
                              /\ updates'[i].left = TTL => updates'[i].time = "now"
      BY <1>3, <1>4, <1>7, <2>1, <2>2, DelayAssumption DEF Latest, WhileKept
    <2> QED
      BY <1>3, <2>1, <2>2, <2>3 DEF WhileKept
  <1> QED
    BY <1>1, <1>6, <1>7 DEF Latest

(* A job is looked at, dropped or written.  Only one that has waited is.   *)
LEMMA WorkedInOrder ==
  ASSUME Timely, NEW j \in JobSlots, Work(j)
  PROVE  Orders' /\ Latest'
  <1> USE DEF Timely, Placed
  <1>1. /\ UNCHANGED <<bye, hello, session, seenKey, fresh, erasures>>
        /\ j \in Pending
        /\ updates[j].left = 0
    BY DEF Work, ReadStatus, ReadSeenKey, SetLastSeen, keys, Due, Orders, Pending, NoJob
  <1>2. updates[j] \in Updates
    BY <1>1, PendingJobs
  <1>3. \A i \in JobSlots : i # j => updates'[i] = updates[i]
    BY DEF Work, ReadStatus, ReadSeenKey, SetLastSeen, Finish, TypeOK
  <1>4. \/ updates'[j] = NoJob
        \/ updates'[j].left = 0 /\ updates'[j].time = updates[j].time /\ updates'[j] # NoJob
    BY <1>1, <1>2 DEF Work, ReadStatus, ReadSeenKey, SetLastSeen, Finish, TypeOK, NoJob
  <1>5. Pending' \subseteq Pending /\ \A i \in Pending : i # j => i \in Pending'
    BY <1>1, <1>3 DEF Pending
  <1>6. Orders'
    BY <1>1, <1>3, <1>4, <1>5, PendingJobs DEF Orders, Pending
  <1>7. CASE fresh /\ SeenKept
    <2>1. seenKey.left # 0 /\ WhileKept
      BY <1>7, KeptKey DEF Latest
    <2>2. WhileKept'
      BY <1>1, <1>3, <1>4, <1>5, <2>1, PendingJobs DEF WhileKept, Leaving, Pending
    <2> QED
      BY <1>1, <1>6, <1>7, <2>2 DEF Latest, Leaving, SeenKept
  <1>8. CASE fresh /\ ~SeenKept
    <2>1. OnceGone /\ session = 0
      BY <1>8 DEF Latest
    <2>2. ASSUME ReadStatus(j) \/ ReadSeenKey(j)
          PROVE  Pending' # {}
      <3>1. updates'[j] # NoJob /\ lastSeen' = lastSeen
        BY <1>2, <1>8, <2>1, <2>2, LifeLeft DEF ReadStatus, ReadSeenKey, TypeOK, NoJob, Online
      <3> QED
        BY <3>1 DEF Pending
    <2>3. ASSUME SetLastSeen(j)
          PROVE  lastSeen' = "last"
      BY <1>1, <2>1, <2>3 DEF SetLastSeen, OnceGone
    <2>4. OnceGone'
      <3>1. \A i \in Pending' : updates'[i].left = 0 /\ updates'[i].time = "last"
        BY <1>1, <1>3, <1>4, <1>5, <2>1 DEF OnceGone, Pending
      <3>2. Pending' # {} \/ lastSeen' = "last"
        BY <2>2, <2>3 DEF Work
      <3> QED
        BY <1>1, <2>1, <3>1, <3>2 DEF OnceGone
    <2> QED
      BY <1>1, <1>6, <1>8, <2>4 DEF Latest, Leaving, SeenKept
  <1>9. CASE ~fresh
    BY <1>1, <1>6, <1>9 DEF Latest
  <1> QED
    BY <1>7, <1>8, <1>9

(* A unit passes: when the key is gone, the job of its time is due.        *)
LEMMA TickedInOrder ==
  ASSUME Delay = TTL, Timely, Tick
  PROVE  Orders' /\ Latest'
  <1> USE DEF Timely, Placed
  <1>1. /\ UNCHANGED <<bye, hello, fresh, erasures>>
        /\ \A c \in Sockets : hello[c] = "idle" /\ bye[c] = "none"
        /\ erasures = 0
    BY DEF Tick, Settled
  <1>2. \A j \in Pending : /\ updates[j].left \in 0 .. Delay /\ updates[j].left # 0
                           /\ updates'[j].left = updates[j].left - 1
                           /\ updates'[j].at = updates[j].at
                           /\ updates'[j].time = Past(updates[j].time)
                           /\ updates'[j] # NoJob
    <2> SUFFICES ASSUME NEW j \in Pending
                 PROVE  /\ updates[j].left \in 0 .. Delay /\ updates[j].left # 0
                        /\ updates'[j].left = updates[j].left - 1
                        /\ updates'[j].at = updates[j].at
                        /\ updates'[j].time = Past(updates[j].time)
                        /\ updates'[j] # NoJob
      OBVIOUS
    <2>1. j \in JobSlots /\ updates[j] \in Updates /\ updates[j].left # 0
      BY PendingJobs DEF Tick, Settled, Due
    <2>2. updates'[j] = [updates[j] EXCEPT !.left = @ - 1, !.time = Past(@)]
      BY <2>1 DEF Tick
    <2>3. /\ updates'[j].left = updates[j].left - 1
          /\ updates'[j].at = updates[j].at
          /\ updates'[j].time = Past(updates[j].time)
          /\ updates'[j] # NoJob
      BY <2>1, <2>2, JobTicked
    <2>4. updates[j].left \in 0 .. Delay
      BY <2>1
    <2> QED
      BY <2>1, <2>3, <2>4
  <1>3. Pending' = Pending
    <2>1. \A j \in JobSlots \ Pending : updates'[j] = NoJob
      BY DEF Tick
    <2> QED
      BY <1>2, <2>1 DEF Pending
  <1>4. Orders'
    <2>1. \A j \in Pending : updates'[j].at = "delayed" /\ updates'[j].left # Delay
      BY <1>2, DelayAssumption DEF Orders
    <2> QED
      BY <1>1, <1>3, <2>1 DEF Orders
  <1>5. ~Leaving /\ ~(Leaving')
    BY <1>1 DEF Leaving
  <1>6. ASSUME fresh
        PROVE  session' = 0
    <2>1. session' = KeyAged(session) /\ session = 0
      BY <1>6 DEF Tick, Latest
    <2> QED
      BY <2>1, LifeLeft DEF KeyAged
  <1>7. CASE fresh /\ SeenKept
    <2>1. WhileKept /\ seenKey.left \in 1 .. TTL
      BY <1>7, KeptKey DEF Latest
    <2>2. PICK w \in Pending : updates[w].left = seenKey.left
      BY <1>5, <2>1 DEF WhileKept
    <2>3. CASE seenKey.left > 1
      <3>1. seenKey' = [left |-> seenKey.left - 1, time |-> Past(seenKey.time)]
        BY <2>3 DEF Tick
      <3>2. seenKey'.left = seenKey.left - 1 /\ seenKey'.time = Past(seenKey.time)
        BY <3>1
      <3>3. seenKey'.time \in {"now", "last"}
        BY <2>1, <3>2 DEF WhileKept, Past
      <3>4. SeenKept'
        BY <3>2, <3>3 DEF SeenKept, NoKey
      <3>5. \A j \in Pending : updates'[j].left <= seenKey'.left
        BY <1>2, <2>1, <3>2, TTLAssumption, DelayAssumption DEF WhileKept
      <3>6. ASSUME NEW j \in Pending, updates'[j].left = seenKey'.left
            PROVE  updates'[j].time = seenKey'.time
        <4>1. updates[j].left = seenKey.left
          BY <1>2, <2>1, <3>2, <3>6, TTLAssumption, DelayAssumption
        <4> QED
          BY <1>2, <2>1, <3>2, <4>1 DEF WhileKept
      <3>7. updates'[w].left = seenKey'.left
        BY <1>2, <2>2, <3>2
      <3>8. WhileKept'
        BY <1>3, <3>3, <3>5, <3>6, <3>7 DEF WhileKept
      <3> QED
        BY <1>4, <1>5, <1>6, <1>7, <3>4, <3>8 DEF Latest
    <2>4. CASE ~(seenKey.left > 1)
      <3>1. seenKey.left = 1 /\ seenKey' = NoKey
        <4>1. seenKey' = NoKey
          BY <2>4 DEF Tick
        <4>2. seenKey.left = 1
          BY <2>1, <2>4, TTLAssumption
        <4> QED
          BY <4>1, <4>2
      <3>2. \A j \in Pending : updates[j].left = 1
        BY <1>2, <2>1, <3>1, DelayAssumption DEF WhileKept
      <3>3. \A j \in Pending : updates'[j].left = 0 /\ updates'[j].time = "last"
        BY <1>2, <2>1, <3>1, <3>2 DEF WhileKept, Past
      <3>4. OnceGone'
        BY <1>1, <1>3, <2>2, <3>3 DEF OnceGone
      <3>5. ~(SeenKept')
        BY <3>1 DEF SeenKept
      <3> QED
        BY <1>4, <1>5, <1>6, <1>7, <3>4, <3>5 DEF Latest
    <2> QED
      BY <2>3, <2>4
  <1>8. CASE fresh /\ ~SeenKept
    <2>1. OnceGone /\ seenKey = NoKey
      BY <1>8 DEF Latest, SeenKept
    <2>2. seenKey' = NoKey
      <3>1. ~(seenKey.left > 1)
        BY <2>1 DEF NoKey
      <3> QED
        BY <3>1 DEF Tick
    <2>3. Pending = {} /\ lastSeen' = "last"
      BY <1>2, <2>1 DEF OnceGone, Tick, Past
    <2>4. OnceGone' /\ ~(SeenKept')
      BY <1>1, <1>3, <2>2, <2>3 DEF OnceGone, SeenKept
    <2> QED
      BY <1>4, <1>5, <1>6, <1>8, <2>4 DEF Latest
  <1>9. CASE ~fresh
    BY <1>1, <1>4, <1>9 DEF Latest
  <1> QED
    BY <1>7, <1>8, <1>9

(* A stop of the process, if it comes into the way of no job, hurts none.  *)
LEMMA CrashedInOrder ==
  ASSUME Timely, Crash
  PROVE  Orders' /\ Latest'
  <1> USE DEF Timely, Placed
  <1>1. /\ UNCHANGED <<session, seenKey, lastSeen, erasures>>
        /\ \A c \in Sockets : bye'[c] = "none" /\ hello'[c] = "idle"
        /\ fresh' => fresh /\ Running = {}
    BY DEF Crash, TypeOK
  <1>2. PICK lost \in SUBSET Running :
          updates' = [j \in JobSlots |-> IF j \in lost THEN NoJob
                                         ELSE IF j \in Running THEN [updates[j] EXCEPT !.at = "delayed"]
                                         ELSE updates[j]]
    BY DEF Crash
  <1>3. ASSUME NEW j \in Pending'
        PROVE  /\ updates'[j].at # "delayed" => updates'[j].left = 0
               /\ updates'[j].left = Delay => updates'[j].time = "now"
    <2>1. j \in JobSlots /\ j \notin lost /\ j \in Pending
      BY <1>2, <1>3 DEF Pending, Running
    <2>2. updates[j] \in Updates
      BY <2>1, PendingJobs
    <2>3. /\ updates'[j].left = updates[j].left /\ updates'[j].time = updates[j].time
          /\ updates'[j].at \in {"delayed", updates[j].at}
      BY <1>2, <2>1, <2>2
    <2> QED
      BY <2>1, <2>3 DEF Orders
  <1>4. Orders'
    BY <1>1, <1>3 DEF Orders
  <1>5. ASSUME fresh'
        PROVE  updates' = updates /\ ~Leaving
    <2>1. lost = {} /\ Running = {}
      BY <1>1, <1>2, <1>5
    <2>2. updates' = updates
      BY <1>2, <2>1 DEF TypeOK
    <2> QED
      BY <1>5, <2>2 DEF Crash, Leaving
  <1>6. ~(Leaving')
    BY <1>1 DEF Leaving
  <1>7. ASSUME fresh'
        PROVE  (SeenKept => WhileKept') /\ (~SeenKept => OnceGone') /\ session' = 0
    BY <1>1, <1>5, <1>7 DEF Latest, WhileKept, OnceGone, Pending
  <1> QED
    BY <1>1, <1>4, <1>6, <1>7 DEF Latest, SeenKept

(* Every step keeps the invariant.                                         *)
LEMMA TimelyGoesOn ==
  ASSUME Delay = TTL
  PROVE  Timely /\ [Next]_vars => Timely'
  <1> SUFFICES ASSUME Timely, [Next]_vars PROVE Timely'
    OBVIOUS
  <1>0. Placed'
    BY PlacedGoesOn DEF Timely
  <1>1. ASSUME NEW c \in Sockets, Connect(c) \/ Join(c) \/ UpdateToken(c)
        PROVE  Orders' /\ Latest'
    <2>1. \A d \in Sockets : hello'[d] = "announce" => hello[d] = "announce"
      BY <1>1 DEF Connect, Join, UpdateToken, Timely, Placed, TypeOK
    <2> QED
      BY <1>1, <2>1, NothingOrdered DEF Connect, Join, UpdateToken, keys, jobs
  <1>2. ASSUME NEW c \in Sockets, Reject(c) \/ Disconnect(c)
        PROVE  Orders' /\ Latest'
    <2>1. /\ \A d \in Sockets : hello'[d] = "announce" => hello[d] = "announce"
          /\ known[c] \in BOOLEAN
      BY <1>2 DEF Reject, Disconnect, Timely, Placed, TypeOK
    <2>2. ASSUME NEW user \in BOOLEAN, Close(c, user) PROVE Orders' /\ Latest'
      BY <2>1, <2>2, ClosedInOrder
    <2>3. CASE UNCHANGED <<wire, known, room, bye, keys, lastSeen, jobs>>
      BY <2>1, <2>3, NothingOrdered DEF keys, jobs
    <2> QED
      BY <1>2, <2>1, <2>2, <2>3 DEF Reject, Disconnect
  <1>3. ASSUME NEW c \in Sockets, Verified(c)
        PROVE  Orders' /\ Latest'
    BY <1>3 DEF Verified, jobs, Timely, Orders, Latest, Pending
  <1>4. ASSUME NEW c \in Sockets, Announce(c)
        PROVE  Orders' /\ Latest'
    BY <1>4 DEF Announce, keys, Timely, Orders, Latest, WhileKept, OnceGone, Leaving, Pending,
                SeenKept
  <1>5. ASSUME NEW c \in Sockets, Schedule(c)
        PROVE  Orders' /\ Latest'
    BY <1>5, ScheduledInOrder
  <1>6. ASSUME NEW j \in JobSlots, Work(j)
        PROVE  Orders' /\ Latest'
    BY <1>6, WorkedInOrder
  <1>7. ASSUME DeleteLastSeen PROVE Orders' /\ Latest'
    <2>1. erasures # 0
      BY <1>7 DEF DeleteLastSeen
    <2> QED
      BY <1>7, <2>1 DEF DeleteLastSeen, keys, Timely, Orders, Latest, WhileKept, OnceGone,
                        Leaving, Pending, SeenKept
  <1>8. ASSUME Tick PROVE Orders' /\ Latest'
    BY <1>8, TickedInOrder
  <1>9. ASSUME Crash PROVE Orders' /\ Latest'
    BY <1>9, CrashedInOrder
  <1>10. ASSUME UNCHANGED vars PROVE Orders' /\ Latest'
    BY <1>10, NothingOrdered DEF vars, keys, jobs
  <1> QED
    BY <1>0, <1>1, <1>2, <1>3, <1>4, <1>5, <1>6, <1>7, <1>8, <1>9, <1>10
       DEF Next, Hello, Timely

(* With jobs delayed as long as the keys live, a user without a socket is  *)
(* shown the time of the last disconnection: no job of an earlier visit    *)
(* overwrites it, however visits, expiry and jobs follow each other.       *)
THEOREM LastSeenKept ==
  ASSUME Delay = TTL
  PROVE  Spec => []LastSeenIsKept
  <1>1. Init => Timely
    BY PlacedAtFirst DEF Init, Timely, Orders, Latest, Pending
  <1>2. Timely /\ [Next]_vars => Timely'
    BY TimelyGoesOn
  <1>3. Timely => LastSeenIsKept
    <2> SUFFICES ASSUME Timely, Settled, fresh
                 PROVE  Shown \in {"now", "last"}
      BY DEF LastSeenIsKept
    <2>1. CASE SeenKept
      BY <2>1 DEF Timely, Latest, WhileKept, Shown
    <2>2. CASE ~SeenKept
      <3>1. OnceGone
        BY <2>2 DEF Timely, Latest
      <3>2. Pending = {}
        BY <3>1 DEF OnceGone, Settled, Due
      <3> QED
        BY <2>2, <3>1, <3>2 DEF OnceGone, Shown
    <2> QED
      BY <2>1, <2>2
  <1> QED
    BY <1>1, <1>2, <1>3, PTL DEF Spec
=============================================================================
