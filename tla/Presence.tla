------------------------------ MODULE Presence ------------------------------
(***************************************************************************)
(* Whether one user is online and when the user was last seen: the user's  *)
(* sockets, the Redis keys ws_session:<user> and last_seen:<user>, the     *)
(* column users.lastSeen, and the jobs of user-queue.                      *)
(*                                                                         *)
(* handleConnection and handleDisconnect run for every socket and await    *)
(* Redis and the queue, so that the handlers of two sockets, or of one     *)
(* socket that closes early, overlap.  The two commands a handler gives to *)
(* Promise.all leave on one connection, one right behind the other.        *)
(*                                                                         *)
(* Time is counted in units (half hours in the instance checked).  A key   *)
(* that expires and a delayed job are counters that Tick decreases.  A time*)
(* of disconnection is "now", this unit, or "last", the unit of the last   *)
(* disconnection before, or "old"; the order within a unit is not kept.    *)
(***************************************************************************)
EXTENDS Integers, FiniteSets

CONSTANTS
  Sockets,        \* places for sockets of the user, used again and again
  TTL,            \* setCache: lifetime of a key
  Delay,          \* handleDisconnect: delay of an UPDATE_LAST_SEEN job
  MaxJobs         \* bound: a socket only connects while fewer jobs exist

ASSUME TTLAssumption == TTL \in Nat \ {0}
ASSUME DelayAssumption == Delay \in Nat
ASSUME MaxJobsAssumption == MaxJobs \in Nat \ {0}

VARIABLES
  wire,           \* is the socket open?
  hello,          \* where its handleConnection stands
  known,          \* is client.user set?
  room,           \* the sockets that joined the room of the user
  bye,            \* the time its handleDisconnect is about to queue
  session,        \* ws_session: time it has left, 0 when there is none
  seenKey,        \* last_seen: time it has left, and its value
  lastSeen,       \* the column users.lastSeen
  updates,        \* UPDATE_LAST_SEEN jobs
  erasures,       \* how many DELETE_LAST_SEEN jobs wait
  fresh           \* history: the keys were last written by a disconnection,
                  \*   and no stop of the process came into the way of its job

keys == <<session, seenKey, fresh>>
jobs == <<updates, erasures>>
vars == <<wire, hello, known, room, bye, keys, lastSeen, jobs>>

Times == {"old", "last", "now"}
NoKey == [left |-> 0, time |-> "none"]
NoJob == [at |-> "none", left |-> 0, time |-> "none"]

(* One slot more per socket: its job is queued after it connected.         *)
JobSlots == 1 .. MaxJobs + Cardinality(Sockets)

TypeOK ==
  /\ wire \in [Sockets -> BOOLEAN]
  /\ hello \in [Sockets -> {"idle", "verify", "announce", "join"}]
  /\ known \in [Sockets -> BOOLEAN]
  /\ room \in SUBSET Sockets
  /\ bye \in [Sockets -> Times \cup {"none"}]
  /\ session \in 0 .. TTL
  /\ seenKey \in [left : 1 .. TTL, time : Times] \cup {NoKey}
  /\ lastSeen \in Times \cup {"null"}
  /\ updates \in [JobSlots -> [at : {"delayed", "cached", "write"}, left : 0 .. Delay,
                               time : Times] \cup {NoJob}]
  /\ erasures \in Nat
  /\ fresh \in BOOLEAN

Init ==
  /\ wire = [c \in Sockets |-> FALSE]
  /\ hello = [c \in Sockets |-> "idle"]
  /\ known = [c \in Sockets |-> FALSE]
  /\ room = {}
  /\ bye = [c \in Sockets |-> "none"]
  /\ session = 0
  /\ seenKey = NoKey
  /\ lastSeen = "null"
  /\ updates = [j \in JobSlots |-> NoJob]
  /\ erasures = 0
  /\ fresh = FALSE

-----------------------------------------------------------------------------
(* UserStatus, getSocketInfo, getLastSeenClientSocket.                     *)
Online   == session > 0
SeenKept == seenKey # NoKey

(* The lists of friends and of conversations show the key before the column*)
Shown == IF SeenKept THEN seenKey.time ELSE lastSeen

Pending == {j \in JobSlots : updates[j] # NoJob}
Due     == {j \in Pending : updates[j].left = 0}
Running == {j \in Pending : updates[j].at # "delayed"}

(* Bull runs as many jobs at once as the queue has named processors.       *)
Free == Cardinality(Running) < 2

(* What was the last disconnection's time is not, once there is a later one*)
Aged(time) == IF time = "last" THEN "old" ELSE time
Past(time) == IF time = "now" THEN "last" ELSE time

-----------------------------------------------------------------------------
(* A client opens a socket with a token; its verification is awaited.      *)
Connect(c) ==
  /\ ~wire[c] /\ hello[c] = "idle" /\ bye[c] = "none"
  /\ Cardinality(Pending) + erasures < MaxJobs
  /\ wire' = [wire EXCEPT ![c] = TRUE]
  /\ hello' = [hello EXCEPT ![c] = "verify"]
  /\ known' = [known EXCEPT ![c] = FALSE]
  /\ UNCHANGED <<room, bye, keys, lastSeen, jobs>>

\* Mutant of Verified: a session is not written again after a short absence.
VerifiedUnlessKnown(c) ==
  /\ hello[c] = "verify"
  /\ known' = [known EXCEPT ![c] = TRUE]
  /\ session' = IF SeenKept THEN session ELSE TTL
  /\ seenKey' = NoKey /\ fresh' = FALSE
  /\ hello' = [hello EXCEPT ![c] = IF SeenKept THEN "join" ELSE "announce"]
  /\ UNCHANGED <<wire, room, bye, lastSeen, jobs>>

(* handleConnection goes on whether or not the socket is still open: set   *)
(* the session, delete the last_seen key.                                  *)
Verified(c) ==
  /\ hello[c] = "verify"
  /\ known' = [known EXCEPT ![c] = TRUE]
  /\ session' = TTL
  /\ seenKey' = NoKey
  /\ fresh' = FALSE
  /\ hello' = [hello EXCEPT ![c] = IF SeenKept THEN "join" ELSE "announce"]
  /\ UNCHANGED <<wire, room, bye, lastSeen, jobs>>

(* numberRemovieLastSeen === 0: the column may hold a time.                *)
Announce(c) ==
  /\ hello[c] = "announce"
  /\ erasures' = erasures + 1
  /\ hello' = [hello EXCEPT ![c] = "join"]
  /\ UNCHANGED <<wire, known, room, bye, keys, lastSeen, updates>>

Join(c) ==
  /\ hello[c] = "join"
  /\ room' = IF wire[c] THEN room \cup {c} ELSE room
  /\ hello' = [hello EXCEPT ![c] = "idle"]
  /\ UNCHANGED <<wire, known, bye, keys, lastSeen, jobs>>

(* The disconnect event.  handleDisconnect returns at once for a socket    *)
(* without client.user; otherwise it sets last_seen and deletes the session*)
(* of the user, whichever socket wrote it.                                 *)
\* Mutant of Close: the last_seen key is not set.
CloseUnseen(c, user) ==
  /\ wire' = [wire EXCEPT ![c] = FALSE] /\ room' = room \ {c}
  /\ known' = [known EXCEPT ![c] = user]
  /\ IF user
       THEN /\ session' = 0 /\ fresh' = TRUE
            /\ lastSeen' = Aged(lastSeen)
            /\ updates' = [j \in JobSlots |-> [updates[j] EXCEPT !.time = Aged(@)]]
            /\ bye' = [d \in Sockets |-> IF d = c THEN "now" ELSE Aged(bye[d])]
       ELSE UNCHANGED <<session, fresh, lastSeen, updates, bye>>
  /\ UNCHANGED <<seenKey, erasures>>

Close(c, user) ==
  /\ wire' = [wire EXCEPT ![c] = FALSE]
  /\ room' = room \ {c}
  /\ known' = [known EXCEPT ![c] = user]
  /\ IF user
       THEN /\ session' = 0
            /\ seenKey' = [left |-> TTL, time |-> "now"]
            /\ fresh' = TRUE
            /\ lastSeen' = Aged(lastSeen)
            /\ updates' = [j \in JobSlots |-> [updates[j] EXCEPT !.time = Aged(@)]]
            /\ bye' = [d \in Sockets |-> IF d = c THEN "now" ELSE Aged(bye[d])]
       ELSE UNCHANGED <<keys, lastSeen, updates, bye>>
  /\ UNCHANGED erasures

(* The client goes away, or an updateToken with a bad token sends it away. *)
Disconnect(c) ==
  /\ wire[c]
  /\ Close(c, known[c])
  /\ UNCHANGED hello

(* The token is refused, or it was accepted and an awaited call after that *)
(* fails: client.disconnect(), if it is still connected.                   *)
Reject(c) ==
  /\ hello[c] # "idle"
  /\ hello' = [hello EXCEPT ![c] = "idle"]
  /\ \/ wire[c] /\ \E user \in {known[c], TRUE} : Close(c, user)
     \/ ~wire[c] /\ UNCHANGED <<wire, known, room, bye, keys, lastSeen, jobs>>

(* updateToken with a good token: client.user is set, early or again.      *)
UpdateToken(c) ==
  /\ wire[c] /\ ~known[c]
  /\ known' = [known EXCEPT ![c] = TRUE]
  /\ UNCHANGED <<wire, hello, room, bye, keys, lastSeen, jobs>>

(* The end of handleDisconnect: queue the update, to run after the delay.  *)
Queued(c, delay) ==
  /\ bye[c] # "none"
  /\ \E j \in JobSlots \ Pending :
       /\ \A i \in JobSlots : i < j => i \in Pending
       /\ updates' = [updates EXCEPT ![j] = [at |-> "delayed", left |-> delay, time |-> bye[c]]]
  /\ bye' = [bye EXCEPT ![c] = "none"]
  /\ UNCHANGED <<wire, hello, known, room, keys, lastSeen, erasures>>

\* Mutants of Schedule: a delay too long; the option delay is forgotten.
ScheduleLate(c)   == Queued(c, 2 * Delay)
ScheduleAtOnce(c) == Queued(c, 0)
Schedule(c) == Queued(c, Delay)

-----------------------------------------------------------------------------
(* handleUpdateLastSeen, three awaited calls.                              *)
Finish(j) == updates' = [updates EXCEPT ![j] = NoJob]

ReadStatus(j) ==
  /\ j \in Due /\ updates[j].at = "delayed" /\ Free
  /\ IF Online THEN Finish(j) ELSE updates' = [updates EXCEPT ![j].at = "cached"]
  /\ UNCHANGED <<wire, hello, known, room, bye, keys, lastSeen, erasures>>

ReadSeenKey(j) ==
  /\ updates[j].at = "cached"
  /\ IF SeenKept THEN Finish(j) ELSE updates' = [updates EXCEPT ![j].at = "write"]
  /\ UNCHANGED <<wire, hello, known, room, bye, keys, lastSeen, erasures>>

SetLastSeen(j) ==
  /\ updates[j].at = "write"
  /\ lastSeen' = updates[j].time
  /\ Finish(j)
  /\ UNCHANGED <<wire, hello, known, room, bye, keys, erasures>>

(* handleDeleteLastSeen.                                                   *)
DeleteLastSeen ==
  /\ erasures > 0 /\ Free
  /\ erasures' = erasures - 1
  /\ lastSeen' = "null"
  /\ UNCHANGED <<wire, hello, known, room, bye, keys, updates>>

-----------------------------------------------------------------------------
(* Handlers and due jobs are done within the unit of time they start in.   *)
Settled ==
  /\ \A c \in Sockets : hello[c] = "idle" /\ bye[c] = "none"
  /\ Due = {}
  /\ erasures = 0

\* Mutant of KeyAged: the session is set without an expiry.
NeverAged(left) == left
KeyAged(left) == IF left > 0 THEN left - 1 ELSE 0

Tick ==
  /\ Settled
  /\ session' = KeyAged(session)
  /\ seenKey' = IF seenKey.left > 1
                THEN [left |-> seenKey.left - 1, time |-> Past(seenKey.time)] ELSE NoKey
  /\ updates' = [j \in JobSlots |->
                   IF j \in Pending THEN [updates[j] EXCEPT !.left = @ - 1, !.time = Past(@)]
                                    ELSE NoJob]
  /\ lastSeen' = Past(lastSeen)
  /\ UNCHANGED <<wire, hello, known, room, bye, erasures, fresh>>

(* The process stops with sockets open or handlers under way, and no       *)
(* handleDisconnect runs.  Of the jobs it was running some are found       *)
(* stalled and run again, and one that stalls too often is given up.       *)
Crash ==
  /\ \E c \in Sockets : wire[c] \/ hello[c] # "idle" \/ bye[c] # "none"
  /\ wire' = [c \in Sockets |-> FALSE]
  /\ hello' = [c \in Sockets |-> "idle"]
  /\ known' = [c \in Sockets |-> FALSE]
  /\ room' = {}
  /\ bye' = [c \in Sockets |-> "none"]
  /\ fresh' = (fresh /\ Running = {} /\ \A c \in Sockets : bye[c] = "none")
  /\ \E lost \in SUBSET Running :
       updates' = [j \in JobSlots |-> IF j \in lost THEN NoJob
                                      ELSE IF j \in Running THEN [updates[j] EXCEPT !.at = "delayed"]
                                      ELSE updates[j]]
  /\ UNCHANGED <<session, seenKey, lastSeen, erasures>>

Hello(c) == Reject(c) \/ Verified(c) \/ Announce(c) \/ Join(c)
Work(j)  == ReadStatus(j) \/ ReadSeenKey(j) \/ SetLastSeen(j)

Next ==
  \/ \E c \in Sockets : Connect(c) \/ Hello(c) \/ UpdateToken(c) \/ Disconnect(c) \/ Schedule(c)
  \/ \E j \in JobSlots : Work(j)
  \/ DeleteLastSeen
  \/ Tick
  \/ Crash

(* What was started is finished and time passes; clients promise nothing.  *)
Fairness ==
  /\ \A c \in Sockets : WF_vars(Hello(c)) /\ WF_vars(Schedule(c))
  /\ \A j \in JobSlots : WF_vars(Work(j))
  /\ WF_vars(DeleteLastSeen)
  /\ WF_vars(Tick)

Spec == Init /\ [][Next]_vars /\ Fairness

-----------------------------------------------------------------------------
(***************************************************************************)
(* Properties.                                                             *)
(***************************************************************************)
Offline == \A c \in Sockets : ~wire[c]

(* A user without a socket is shown the time of the last disconnection that*)
(* was handled, whichever jobs of earlier visits ran since.  Not so after a*)
(* socket that closed before its token was verified: it deletes the key,   *)
(* and nothing sets it again (handleConnection, handleDisconnect, the two  *)
(* processors).                                                            *)
LastSeenIsKept == Settled /\ Offline /\ fresh => Shown \in {"now", "last"}

(* The time of a last disconnection reaches the column: the job does not   *)
(* run before the key is gone, or nothing would ever be stored (the TTL of *)
(* setCache, the delay in handleDisconnect, handleUpdateLastSeen).         *)
LastSeenIsStored == <>[](Offline /\ fresh) => <>[](lastSeen = "last")

(* A user whose sockets are gone for good does not stay online, not even by*)
(* the session of a socket that closed before its token was verified.      *)
GhostsFade == <>[]Offline => <>[]~Online

(* Without a session the user is offline, as the comment of UserStatus and *)
(* the gateway's log say: no socket of the user is in the room.            *)
NoSessionMeansOffline == ~Online => room = {}

(* The handlers of sockets, the expiry of the keys and the stops of the    *)
(* process together keep the promise of Rooms (handleConnection,           *)
(* handleDisconnect, managerClient.service.ts).                            *)
Greeted == {c \in Sockets : hello[c] \in {"announce", "join"}}
Served  == INSTANCE Rooms WITH waiting <- Greeted, room <- room, online <- Online
RoomPromise == Served!RoomSpec
=============================================================================
