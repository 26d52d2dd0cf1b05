-------------------------------- MODULE Rooms --------------------------------
(***************************************************************************)
(* What the gateways that push to a user may rely on, whatever the handlers*)
(* of the user's sockets and Redis do in detail: a session is set before   *)
(* its socket joins the user's room, a socket joins once, and a session can*)
(* end at any time, under sockets that stay.  Presence implements this.    *)
(***************************************************************************)
CONSTANT Sockets

VARIABLES
  waiting,        \* sockets whose session was set and that are yet to join
  room,           \* the sockets in the room of the user
  online          \* is there a session of the user?

roomVars == <<waiting, room, online>>

RoomInit ==
  /\ waiting = {}
  /\ room = {}
  /\ online = FALSE

Greet(c) ==
  /\ c \notin waiting \cup room
  /\ waiting' = waiting \cup {c}
  /\ online' = TRUE
  /\ UNCHANGED room

(* A socket that closed while it waited joins nothing.                     *)
Join(c) ==
  /\ c \in waiting
  /\ waiting' = waiting \ {c}
  /\ room' \in {room, room \cup {c}}
  /\ UNCHANGED online

(* A socket closes and takes the session with it, or it never had one.  One*)
(* that waits joins nothing later, if it is its own handler that failed.   *)
Leave(c) ==
  /\ room' = room \ {c}
  /\ online' \in {FALSE, online}
  /\ waiting' \in {waiting, waiting \ {c}}

Expire ==
  /\ online' = FALSE
  /\ UNCHANGED <<waiting, room>>

(* The process stops, and the sockets with it; the session is in Redis.    *)
LoseSockets ==
  /\ waiting' = {}
  /\ room' = {}
  /\ UNCHANGED online

RoomNext ==
  \/ \E c \in Sockets : Greet(c) \/ Join(c) \/ Leave(c)
  \/ Expire
  \/ LoseSockets

RoomSpec == RoomInit /\ [][RoomNext]_roomVars
=============================================================================
