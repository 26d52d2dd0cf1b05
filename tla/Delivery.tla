------------------------------ MODULE Delivery ------------------------------
(***************************************************************************)
(* How what others do reaches the screens of one user: a row is saved (a   *)
(* message, an invitation, a conversation, a friend request), a job is     *)
(* queued for it, a processor looks the user's session up and pushes an    *)
(* event to the room of the user's sockets.  Nothing is acknowledged; who  *)
(* reads the lists by HTTP sees every saved row.                           *)
(*                                                                         *)
(* The sockets behave as Rooms allows, which Presence implements.  The jobs*)
(* of chat-queue and friend-queue are taken in any order and handled side  *)
(* by side: several requests save and queue at the same time, and chat-    *)
(* queue is worked on by as many jobs at once as it has named processors.  *)
(***************************************************************************)
EXTENDS Rooms, FiniteSets

CONSTANTS
  Items,          \* the rows about the user that others save
  Asking          \* those whose gateway pushes to a user with a session only

ASSUME AskingAssumption == Asking \subseteq Items

VARIABLES
  job,            \* where the row and its job are
  page,           \* the rows a socket's client read by HTTP since it joined
  heard,          \* the rows pushed to the socket
  reading,        \* the sockets in the room whose clients have read the lists
  dark            \* history: the sockets that were in the room without session

jobVars == <<job, page, heard, reading, dark>>
vars    == <<roomVars, jobVars>>

Places == {"none", "saved", "queued", "found", "pushed", "done", "failed"}

TypeOK ==
  /\ waiting \in SUBSET Sockets
  /\ room \in SUBSET Sockets
  /\ online \in BOOLEAN
  /\ job \in [Items -> Places]
  /\ page \in [Sockets -> SUBSET Items]
  /\ heard \in [Sockets -> SUBSET Items]
  /\ reading \in SUBSET room
  /\ dark \in SUBSET room

Init ==
  /\ RoomInit
  /\ job = [i \in Items |-> "none"]
  /\ page = [c \in Sockets |-> {}]
  /\ heard = [c \in Sockets |-> {}]
  /\ reading = {}
  /\ dark = {}

-----------------------------------------------------------------------------
(* What a socket has seen goes with it.                                    *)
Kept(table) == [c \in Sockets |-> IF c \in room /\ c \in room' THEN table[c] ELSE {}]

Remember ==
  /\ page' = Kept(page)
  /\ heard' = Kept(heard)
  /\ reading' = reading \cap room'
  /\ dark' = IF online' THEN dark \cap room' ELSE room'

SocketStep ==
  /\ \/ \E c \in Sockets : Greet(c) \/ Join(c) \/ Leave(c)
     \/ Expire
  /\ Remember
  /\ UNCHANGED job

Saved == {i \in Items : job[i] # "none"}

(* GET /chat/list, /chat/group, /chat/group/invitation, /friend/requests/  *)
(* lists, /chat/:id, by a client whose socket has joined the room.         *)
ReadLists(c) ==
  /\ c \in room
  /\ page' = [page EXCEPT ![c] = @ \cup Saved]
  /\ reading' = reading \cup {c}
  /\ UNCHANGED <<roomVars, job, heard, dark>>

-----------------------------------------------------------------------------
Move(i, from, to) ==
  /\ job[i] = from
  /\ job' = [job EXCEPT ![i] = to]

(* createMessage, createMessageInGroup, createMultipleInvites,             *)
(* createAndSendEvent, createFriend: save, then queue.                     *)
Save(i) ==
  /\ Move(i, "none", "saved")
  /\ UNCHANGED <<roomVars, page, heard, reading, dark>>

QueueJob(i) ==
  /\ Move(i, "saved", "queued")
  /\ UNCHANGED <<roomVars, page, heard, reading, dark>>

(* handleEventSenderMessage and handleEventSendRequestFriend drop the event*)
(* when getSocketInfo finds no session.  The gateways for groups ask for   *)
(* the sessions of all receivers and push whatever the answer: an array is *)
(* truthy, and long even if all of it is null.                             *)
\* Mutant of LookUp: groups are handled like single receivers.
LookUpAlways(i) ==
  /\ job[i] = "queued"
  /\ job' = [job EXCEPT ![i] = IF online THEN "found" ELSE "done"]
  /\ UNCHANGED <<roomVars, page, heard, reading, dark>>

LookUp(i) ==
  /\ Move(i, "queued", IF i \in Asking /\ ~online THEN "done" ELSE "found")
  /\ UNCHANGED <<roomVars, page, heard, reading, dark>>

\* Mutant of Push: the event goes to one socket, as to the session's sockeId.
PushToOne(i) ==
  /\ Move(i, "found", "pushed")
  /\ IF room = {} THEN UNCHANGED heard
     ELSE heard' = [heard EXCEPT ![CHOOSE c \in room : TRUE] = @ \cup {i}]
  /\ UNCHANGED <<roomVars, page, reading, dark>>

(* server.to(receiverId).emit(...)                                         *)
Push(i) ==
  /\ Move(i, "found", "pushed")
  /\ heard' = [c \in Sockets |-> IF c \in room THEN heard[c] \cup {i} ELSE heard[c]]
  /\ UNCHANGED <<roomVars, page, reading, dark>>

\* Mutant of Complete: a job that was handled may be tried again.
CompleteOrRetry(i) ==
  /\ job[i] = "pushed"
  /\ \E place \in {"queued", "done"} : job' = [job EXCEPT ![i] = place]
  /\ UNCHANGED <<roomVars, page, heard, reading, dark>>

Complete(i) ==
  /\ Move(i, "pushed", "done")
  /\ UNCHANGED <<roomVars, page, heard, reading, dark>>

(* A call to Redis throws: the queue takes no job, after the row was saved,*)
(* or the session cannot be looked up, and Bull does not run the job again.*)
Fail(i) ==
  /\ job[i] \in {"saved", "queued"}
  /\ job' = [job EXCEPT ![i] = "failed"]
  /\ UNCHANGED <<roomVars, page, heard, reading, dark>>

(* The process stops.  A row whose job was not queued yet gets none; a job *)
(* it was handling is found stalled and run again, or given up.            *)
Running == {i \in Items : job[i] \in {"found", "pushed"}}

\* Mutant of Crash: clients resume on a new process without reading again.
CrashResumed ==
  /\ LoseSockets
  /\ job' = [i \in Items |-> IF job[i] = "saved" THEN "done"
                             ELSE IF i \in Running THEN "queued" ELSE job[i]]
  /\ UNCHANGED <<page, heard, reading, dark>>

Crash ==
  /\ LoseSockets
  /\ Remember
  /\ \E lost \in SUBSET Running :
       job' = [i \in Items |-> IF job[i] = "saved" \/ i \in lost THEN "done"
                               ELSE IF i \in Running THEN "queued" ELSE job[i]]

Work(i) == QueueJob(i) \/ LookUp(i) \/ Push(i) \/ Complete(i)

Next ==
  \/ SocketStep
  \/ \E c \in Sockets : ReadLists(c)
  \/ \E i \in Items : Save(i) \/ Work(i) \/ Fail(i)
  \/ Crash

(* Requests that were begun go on, and the processors take the jobs there  *)
(* are; nobody has to send or read anything, and sockets may stay or go.   *)
Fairness == \A i \in Items : WF_vars(Work(i))

Spec == Init /\ [][Next]_vars /\ Fairness

-----------------------------------------------------------------------------
(***************************************************************************)
(* Properties.                                                             *)
(***************************************************************************)
OnItsWay(i) == job[i] \in {"saved", "queued", "found"}

(* A client that reads the lists after its socket has joined misses nothing*)
(* from then on, through stops of the process and jobs in any order: every *)
(* row is on its page, was pushed to it, or is about to be, unless a call  *)
(* to Redis failed for it.  Only what asks for a session may pass by a     *)
(* socket that has been without one (chat.gateway.ts, friend.gateway.ts,   *)
(* and the order save, queue, join, read).                                 *)
NothingIsMissed ==
  \A c \in reading, i \in Saved :
    \/ i \in page[c] \cup heard[c]
    \/ OnItsWay(i) \/ job[i] = "failed"
    \/ i \in Asking /\ c \in dark

(* No socket gets the same event twice: a job runs twice only if the       *)
(* process stopped, and then its sockets are gone (the processors).        *)
PushedOnce ==
  [][ \A i \in Items, c \in room :
        job[i] = "found" /\ job'[i] = "pushed" => i \notin heard[c] ]_vars

(* What a reading socket is to see it sees at last, unless it goes, or has *)
(* been without the session that is asked for, or a call to Redis fails: no*)
(* job waits for ever.                                                     *)
SeenAtLast ==
  \A i \in Items, c \in Sockets :
    (i \in Saved /\ c \in reading) ~>
      \/ i \in page[c] \cup heard[c] \/ job[i] = "failed"
      \/ c \notin reading \/ (i \in Asking /\ c \in dark)
=============================================================================
