--------------------------- MODULE Delivery_proofs ---------------------------
(***************************************************************************)
(* Proofs about Delivery, for any sockets, any rows and any set of rows    *)
(* that ask for a session.  NothingIsMissed is inductive together with     *)
(*   Dimmed:  while there is no session, every socket of the room counts as*)
(*            one that has been without it, so that a LookUp that drops a  *)
(*            job only drops it for sockets that are dark;                 *)
(*   Heard:   what a socket of the room has heard has been pushed for good;*)
(*            this also is why no step pushes to a socket twice.           *)
(* The steps of the sockets are only known through Rooms, so the results   *)
(* hold for every implementation of Rooms, Presence among them.            *)
(***************************************************************************)
EXTENDS Delivery, TLAPS

Dimmed == ~online => dark = room
Heard  == \A c \in room : \A i \in heard[c] : job[i] \in {"pushed", "done"}

Seeing == TypeOK /\ Dimmed /\ Heard /\ NothingIsMissed

(* Nothing is saved, seen or heard at the start.                           *)
LEMMA SeeingAtFirst == Init => Seeing
  BY DEF Init, RoomInit, Seeing, TypeOK, Places, Dimmed, Heard, NothingIsMissed, Saved

(* A step of the rooms keeps their types.                                  *)
LEMMA RoomTypes ==
  ASSUME waiting \in SUBSET Sockets, room \in SUBSET Sockets, online \in BOOLEAN,
         \/ \E c \in Sockets : Greet(c) \/ Join(c) \/ Leave(c)
         \/ Expire
         \/ LoseSockets
  PROVE  waiting' \in SUBSET Sockets /\ room' \in SUBSET Sockets /\ online' \in BOOLEAN
  <1>1. ASSUME NEW c \in Sockets, Greet(c) \/ Join(c) \/ Leave(c)
        PROVE  waiting' \in SUBSET Sockets /\ room' \in SUBSET Sockets /\ online' \in BOOLEAN
    BY <1>1 DEF Greet, Join, Leave
  <1>2. CASE Expire
    BY <1>2 DEF Expire
  <1>3. CASE LoseSockets
    BY <1>3 DEF LoseSockets
  <1> QED
    BY <1>1, <1>2, <1>3

(* What Remember leaves of the history, whatever became of the room.       *)
LEMMA Remembered ==
  ASSUME TypeOK, Remember, room' \in SUBSET Sockets
  PROVE  /\ page' \in [Sockets -> SUBSET Items] /\ heard' \in [Sockets -> SUBSET Items]
         /\ reading' \in SUBSET room' /\ dark' \in SUBSET room'
         /\ Dimmed'
         /\ \A c \in room' : heard'[c] \subseteq IF c \in room THEN heard[c] ELSE {}
         /\ \A c \in reading' : /\ c \in reading
                                /\ page'[c] = page[c] /\ heard'[c] = heard[c]
                                /\ c \in dark => c \in dark'
  BY DEF TypeOK, Remember, Kept, Dimmed

-----------------------------------------------------------------------------
(* Sockets that come and go.                                               *)
LEMMA SocketsSee ==
  ASSUME Seeing, SocketStep
  PROVE  Seeing'
  <1> USE DEF Seeing
  <1>0. waiting' \in SUBSET Sockets /\ room' \in SUBSET Sockets /\ online' \in BOOLEAN
    BY RoomTypes DEF SocketStep, TypeOK
  <1>1. Remember /\ job' = job
    BY DEF SocketStep
  <1>2. TypeOK'
    BY <1>0, <1>1, Remembered DEF TypeOK
  <1>3. Dimmed'
    BY <1>0, <1>1, Remembered
  <1>4. Heard'
    BY <1>0, <1>1, Remembered DEF Heard
  <1>5. NothingIsMissed'
    BY <1>0, <1>1, Remembered DEF NothingIsMissed, Saved, OnItsWay
  <1> QED
    BY <1>2, <1>3, <1>4, <1>5

(* A client that reads has every saved row on its page.                    *)
LEMMA ReadersSee ==
  ASSUME Seeing, NEW c \in Sockets, ReadLists(c)
  PROVE  Seeing'
  <1> USE DEF Seeing
  <1>1. TypeOK'
    BY DEF ReadLists, TypeOK, Saved, roomVars
  <1>2. Dimmed' /\ Heard'
    BY DEF ReadLists, Dimmed, Heard, roomVars
  <1>3. NothingIsMissed'
    <2> SUFFICES ASSUME NEW d \in reading', NEW i \in Saved'
                 PROVE  (\/ i \in page[d] \cup heard[d]
                         \/ OnItsWay(i) \/ job[i] = "failed"
                         \/ i \in Asking /\ d \in dark)'
      BY DEF NothingIsMissed
    <2>1. i \in Saved /\ d \in Sockets
      BY <1>1 DEF ReadLists, Saved, TypeOK, roomVars
    <2>2. CASE d = c
      BY <2>1, <2>2 DEF ReadLists, TypeOK
    <2>3. CASE d # c
      BY <2>1, <2>3 DEF ReadLists, NothingIsMissed, OnItsWay, TypeOK
    <2> QED
      BY <2>2, <2>3
  <1> QED
    BY <1>1, <1>2, <1>3

(* A row is saved and its job queued: it is on its way.                    *)
LEMMA SaversSee ==
  ASSUME Seeing, NEW i \in Items, Save(i) \/ QueueJob(i)
  PROVE  Seeing'
  <1> USE DEF Seeing
  <1>0. /\ UNCHANGED <<waiting, room, online, page, heard, reading, dark>>
        /\ job[i] \in {"none", "saved"}
        /\ \E to \in {"saved", "queued"} : job' = [job EXCEPT ![i] = to]
    BY DEF Save, QueueJob, Move, roomVars
  <1>1. job' \in [Items -> Places] /\ job'[i] \in {"saved", "queued"}
        /\ \A k \in Items : k # i => job'[k] = job[k]
    BY <1>0 DEF TypeOK, Places
  <1>2. TypeOK' /\ Dimmed'
    BY <1>0, <1>1 DEF TypeOK, Dimmed
  <1>3. Heard'
    BY <1>0, <1>1 DEF Heard, TypeOK
  <1>4. NothingIsMissed'
    BY <1>0, <1>1 DEF NothingIsMissed, Saved, OnItsWay
  <1> QED
    BY <1>2, <1>3, <1>4

(* A session is looked up: a job that is dropped finds every socket dark.  *)
LEMMA LookUpsSee ==
  ASSUME Seeing, NEW i \in Items, LookUp(i)
  PROVE  Seeing'
  <1> USE DEF Seeing
  <1>0. UNCHANGED <<waiting, room, online, page, heard, reading, dark>> /\ job[i] = "queued"
    BY DEF LookUp, Move, roomVars
  <1>1. /\ job' \in [Items -> Places]
        /\ job'[i] = IF i \in Asking /\ ~online THEN "done" ELSE "found"
        /\ \A k \in Items : k # i => job'[k] = job[k]
    BY DEF LookUp, Move, TypeOK, Places
  <1>2. TypeOK' /\ Dimmed'
    BY <1>0, <1>1 DEF TypeOK, Dimmed
  <1>3. Heard'
    BY <1>0, <1>1 DEF Heard, TypeOK
  <1>4. NothingIsMissed'
    <2> SUFFICES ASSUME NEW c \in reading, NEW k \in Items, job'[k] # "none"
                 PROVE  \/ k \in page[c] \cup heard[c]
                        \/ job'[k] \in {"saved", "queued", "found", "failed"}
                        \/ k \in Asking /\ c \in dark
      BY <1>0 DEF NothingIsMissed, Saved, OnItsWay
    <2>1. CASE k = i
      BY <2>1, <1>0, <1>1 DEF Dimmed, TypeOK
    <2>2. CASE k # i
      BY <2>2, <1>1 DEF NothingIsMissed, Saved, OnItsWay
    <2> QED
      BY <2>1, <2>2
  <1> QED
    BY <1>2, <1>3, <1>4

(* An event is pushed: every socket of the room hears it.                  *)
LEMMA PushesSee ==
  ASSUME Seeing, NEW i \in Items, Push(i)
  PROVE  Seeing'
  <1> USE DEF Seeing
  <1>0. UNCHANGED <<waiting, room, online, page, reading, dark>>
    BY DEF Push, Move, roomVars
  <1>1. /\ job' \in [Items -> Places] /\ job'[i] = "pushed"
        /\ \A k \in Items : k # i => job'[k] = job[k]
    BY DEF Push, Move, TypeOK, Places
  <1>2. heard' \in [Sockets -> SUBSET Items]
        /\ \A c \in room : heard'[c] = heard[c] \cup {i}
    BY DEF Push, TypeOK
  <1>3. TypeOK' /\ Dimmed'
    BY <1>0, <1>1, <1>2 DEF TypeOK, Dimmed
  <1>4. Heard'
    BY <1>0, <1>1, <1>2 DEF Heard, TypeOK
  <1>5. NothingIsMissed'
    BY <1>0, <1>1, <1>2 DEF NothingIsMissed, Saved, OnItsWay, TypeOK
  <1> QED
    BY <1>3, <1>4, <1>5

(* A job that pushed is done: it had passed nobody by.                     *)
LEMMA CompletionsSee ==
  ASSUME Seeing, NEW i \in Items, Complete(i)
  PROVE  Seeing'
  <1> USE DEF Seeing
  <1>0. UNCHANGED <<waiting, room, online, page, heard, reading, dark>> /\ job[i] = "pushed"
    BY DEF Complete, Move, roomVars
  <1>1. /\ job' \in [Items -> Places] /\ job'[i] = "done"
        /\ \A k \in Items : k # i => job'[k] = job[k]
    BY DEF Complete, Move, TypeOK, Places
  <1>2. TypeOK' /\ Dimmed'
    BY <1>0, <1>1 DEF TypeOK, Dimmed
  <1>3. Heard'
    BY <1>0, <1>1 DEF Heard, TypeOK
  <1>4. NothingIsMissed'
    BY <1>0, <1>1 DEF NothingIsMissed, Saved, OnItsWay, TypeOK
  <1> QED
    BY <1>2, <1>3, <1>4

(* A call to Redis fails: nobody had heard of the row yet.                 *)
LEMMA FailuresSee ==
  ASSUME Seeing, NEW i \in Items, Fail(i)
  PROVE  Seeing'
  <1> USE DEF Seeing
  <1>0. /\ UNCHANGED <<waiting, room, online, page, heard, reading, dark>>
        /\ job[i] \in {"saved", "queued"}
    BY DEF Fail, roomVars
  <1>1. /\ job' \in [Items -> Places] /\ job'[i] = "failed"
        /\ \A k \in Items : k # i => job'[k] = job[k]
    BY DEF Fail, TypeOK, Places
  <1>2. TypeOK' /\ Dimmed'
    BY <1>0, <1>1 DEF TypeOK, Dimmed
  <1>3. Heard'
    BY <1>0, <1>1 DEF Heard, TypeOK
  <1>4. NothingIsMissed'
    BY <1>0, <1>1 DEF NothingIsMissed, Saved, OnItsWay, TypeOK
  <1> QED
    BY <1>2, <1>3, <1>4

(* A stop of the process takes all sockets with it.                        *)
LEMMA CrashesSee ==
  ASSUME Seeing, Crash
  PROVE  Seeing'
  <1> USE DEF Seeing
  <1>0. waiting' = {} /\ room' = {} /\ online' = online /\ Remember
    BY DEF Crash, LoseSockets
  <1>1. job' \in [Items -> Places]
    BY DEF Crash, TypeOK, Places
  <1>2. reading' = {} /\ dark' = {}
    BY <1>0 DEF Remember
  <1>3. TypeOK' /\ Dimmed'
    BY <1>0, <1>1, Remembered DEF TypeOK
  <1>4. Heard' /\ NothingIsMissed'
    BY <1>0, <1>2 DEF Heard, NothingIsMissed
  <1> QED
    BY <1>3, <1>4

(* Every step keeps the invariant.                                         *)
LEMMA SeeingGoesOn == Seeing /\ [Next]_vars => Seeing'
  <1> SUFFICES ASSUME Seeing, [Next]_vars PROVE Seeing'
    OBVIOUS
  <1>1. CASE SocketStep
    BY <1>1, SocketsSee
  <1>2. ASSUME NEW c \in Sockets, ReadLists(c) PROVE Seeing'
    BY <1>2, ReadersSee
  <1>3. ASSUME NEW i \in Items, Save(i) \/ Work(i) \/ Fail(i) PROVE Seeing'
    BY <1>3, SaversSee, LookUpsSee, PushesSee, CompletionsSee, FailuresSee DEF Work
  <1>4. CASE Crash
    BY <1>4, CrashesSee
  <1>5. CASE UNCHANGED vars
    BY <1>5 DEF vars, roomVars, jobVars, Seeing, TypeOK, Dimmed, Heard, NothingIsMissed,
                Saved, OnItsWay
  <1> QED
    BY <1>1, <1>2, <1>3, <1>4, <1>5 DEF Next

(* The invariant holds in every state.                                    *)
LEMMA AlwaysSeeing == Spec => []Seeing
  BY SeeingAtFirst, SeeingGoesOn, PTL DEF Spec

-----------------------------------------------------------------------------
(* The variables keep their types, whatever sockets and jobs do.           *)
THEOREM DeliveryTypes == Spec => []TypeOK
  BY AlwaysSeeing, PTL DEF Seeing

(* Who reads the lists after joining misses nothing, through lost sessions,*)
(* stops of the process and jobs in any order: the row is on the page, was *)
(* pushed, or is on its way, unless a call to Redis failed for it or its   *)
(* gateway asks for a session the user has been without.                   *)
THEOREM NothingMissed == Spec => []NothingIsMissed
  BY AlwaysSeeing, PTL DEF Seeing

(* No event is pushed twice to one socket, though jobs may run twice.      *)
THEOREM OncePerSocket == Spec => PushedOnce
  <1>1. Seeing /\ [Next]_vars =>
          [ \A i \in Items, c \in room :
              job[i] = "found" /\ job'[i] = "pushed" => i \notin heard[c] ]_vars
    BY DEF Seeing, Heard
  <1> QED
    BY <1>1, AlwaysSeeing, PTL DEF Spec, PushedOnce
=============================================================================
