----------------------------- MODULE Friendship -----------------------------
(***************************************************************************)
(* Friend requests: the rows of friend, the requests that create, answer   *)
(* and delete them, and the notification of the receiver, a job of         *)
(* friend-queue.  Nothing but its id is unique in a row.                   *)
(***************************************************************************)
EXTENDS Integers, FiniteSets

CONSTANTS
  Users,
  Slots,          \* requests that may be in progress at the same time
  MaxRequests     \* requests handled in a behaviour

VARIABLES
  friends,        \* rows: id -> sender, receiver, status
  jobs,           \* FRIEND_REQUEST jobs: the row as it was read for them
  reqs,
  started

vars == <<friends, jobs, reqs, started>>

Ids == 1 .. MaxRequests
Statuses == {"Pending", "Rejected", "Accepted"}
Row == [sender : Users, receiver : Users, status : Statuses]
Idle == [at |-> "idle", by |-> "nobody", to |-> "nobody", id |-> 0]

TypeOK ==
  /\ DOMAIN friends \in SUBSET Ids
  /\ friends \in [DOMAIN friends -> Row]
  /\ jobs \in SUBSET (Ids \X Row)
  /\ reqs \in [Slots -> [at : {"insert", "notify", "remove"}, by : Users,
                         to : Users \cup {"nobody"}, id : Ids] \cup {Idle}]
  /\ started \in 0 .. MaxRequests

Init ==
  /\ friends = << >>
  /\ jobs = {}
  /\ reqs = [s \in Slots |-> Idle]
  /\ started = 0

-----------------------------------------------------------------------------
Receive(s, request) ==
  /\ started < MaxRequests
  /\ reqs[s] = Idle
  /\ started' = started + 1
  /\ reqs' = [reqs EXCEPT ![s] = request]

Continue(s, request) ==
  /\ reqs' = [reqs EXCEPT ![s] = request]
  /\ UNCHANGED started

Answer(s) == Continue(s, Idle)
At(s, place) == reqs[s].at = place

(* checkExistence: both alternatives of its condition are the same.        *)
Existing(u, v) == {i \in DOMAIN friends : friends[i].sender = u /\ friends[i].receiver = v}

(* POST /friend: not to oneself; createFriend's check, then its insertion, *)
(* then the row is read again for the notification.                        *)
CreateFriend(s, u, v) ==
  /\ u # v
  /\ Existing(u, v) = {}
  /\ Receive(s, [at |-> "insert", by |-> u, to |-> v, id |-> started + 1])
  /\ UNCHANGED <<friends, jobs>>

InsertFriend(s) ==
  LET r == reqs[s]
  IN  /\ At(s, "insert")
      /\ friends' = [i \in DOMAIN friends \cup {r.id} |->
                       IF i = r.id THEN [sender |-> r.by, receiver |-> r.to, status |-> "Pending"]
                                   ELSE friends[i]]
      /\ Continue(s, [r EXCEPT !.at = "notify"])
      /\ UNCHANGED jobs

(* A row deleted meanwhile answers an error.                               *)
NotifyReceiver(s) ==
  LET r == reqs[s]
  IN  /\ At(s, "notify")
      /\ jobs' = IF r.id \in DOMAIN friends THEN jobs \cup {<<r.id, friends[r.id]>>} ELSE jobs
      /\ Answer(s)
      /\ UNCHANGED friends

(* handleEventSendRequestFriend: pushed if the receiver is online, or lost.*)
PushRequest(job) ==
  /\ job \in jobs
  /\ jobs' = jobs \ {job}
  /\ UNCHANGED <<friends, reqs, started>>

(* PATCH /friend/requests/:id is one UPDATE.                               *)
UpdateFriend(i, status) ==
  /\ started < MaxRequests
  /\ i \in DOMAIN friends
  /\ friends' = [friends EXCEPT ![i].status = status]
  /\ started' = started + 1
  /\ UNCHANGED <<jobs, reqs>>

(* DELETE /friend/requests/:id looks the row up, then deletes it.          *)
DeleteFriend(s, u, i) ==
  /\ i \in DOMAIN friends
  /\ Receive(s, [at |-> "remove", by |-> u, to |-> "nobody", id |-> i])
  /\ UNCHANGED <<friends, jobs>>

RemoveFriend(s) ==
  /\ At(s, "remove")
  /\ friends' = [i \in DOMAIN friends \ {reqs[s].id} |-> friends[i]]
  /\ Answer(s)
  /\ UNCHANGED jobs

Done ==
  /\ started = MaxRequests /\ jobs = {}
  /\ \A s \in Slots : reqs[s] = Idle
  /\ UNCHANGED vars

Next ==
  \/ \E s \in Slots :
       \/ \E u, v \in Users : CreateFriend(s, u, v)
       \/ \E u \in Users, i \in Ids : DeleteFriend(s, u, i)
       \/ InsertFriend(s)
       \/ NotifyReceiver(s)
       \/ RemoveFriend(s)
  \/ \E i \in Ids, status \in Statuses : UpdateFriend(i, status)
  \/ \E job \in jobs : PushRequest(job)
  \/ Done

Spec == Init /\ [][Next]_vars

-----------------------------------------------------------------------------
(* Two users stand in one relation at most, whoever asked: createFriend    *)
(* answers that the resource exists already.                               *)
OneRelationPerPair ==
  \A i, j \in DOMAIN friends :
    {friends[i].sender, friends[i].receiver} = {friends[j].sender, friends[j].receiver} => i = j
=============================================================================
