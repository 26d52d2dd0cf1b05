# A verification development for app-chat-nestjs

The program is the backend of a chat application: a NestJS server that talks to
MySQL through TypeORM, to Redis through ioredis, to its own background jobs
through Bull queues (which live in Redis too), and to browsers over HTTP and
socket.io. It keeps no state in memory between two requests. Every handler is a
sequence of awaited statements on MySQL and Redis, and whenever one handler
awaits, any other may run. Nearly nothing in the code locks a row, and few of
the handlers use a transaction. So the question this development asks of almost
every part is the same: **what is still true of the stored data when the steps
of several handlers interleave, when keys and jobs come due in between, and when
the process stops halfway?**

All paths below are relative to the repository; the TypeScript sources are
under `src/`.

## 1. Inventory

| component | state | operations | talks to |
|---|---|---|---|
| Chat groups (`modules/chat`: `chat.controller.ts`, `chatGroup.service.ts`, `groupInvitations.service.ts`, `userConversation.service.ts`, `message.service.ts`) | rows of `chat_groups`, `chatgroup_members`, `group_invitations`, `user_conversation`, `message` | create (two ways), invite, accept, reject, kick, leave, send, read all, delete conversation, delete group | MySQL; adds jobs to chat-queue |
| Direct chats (same modules, `chat.service.ts`) | rows of `chat`, `user_conversation`, `message` | create chat, send, read all, delete conversation | MySQL; chat-queue |
| Reading histories (`message.service.ts`, `getStartTime`) | none of its own; reads `message.created_At` and `user_conversation.startTime` | first page, older page by cursor | MySQL |
| Presence (`gateways/adapters.ts`, `managerClient.service.ts`, `user.processor.ts`) | sockets and rooms, Redis `ws_session:<user>` and `last_seen:<user>`, column `users.lastSeen`, user-queue | handleConnection, handleDisconnect, handleUpdateToken, two kinds of job | Redis, user-queue, MySQL |
| Push delivery (`chat.gateway.ts`, `friend.gateway.ts`, `chat.processor.ts`, `friend.processor.ts`) | chat-queue, friend-queue | queue a job for a saved row, look sessions up, push to rooms | Redis, sockets |
| Registration (`auth.service.ts`, `UserService.create`, `mail.processor.ts`) | Redis `newAccount <email>` and `otp <email>`, rows of `users`, mail-queue | register, emailAuthentication, verifyOTP, send mail | Redis, MySQL, mail-queue |
| Password change and reset (`auth.service.ts`, `user.service.ts`, `mail.processor.ts`) | Redis `otp reset password <email>`, a cookie, `users.password`, mail-queue | ask for a code, validate it, reset, change | Redis, MySQL, mail-queue |
| Avatars (`user.service.ts`, `object-storage`) | bucket, table `file`, `users.avatar` | uploadAvatar | bucket, MySQL |
| Friend requests (`modules/friend`) | rows of `friend`, friend-queue | createFriend, update, delete, notify | MySQL, friend-queue |
| Sessions (login, logout, refresh) | column `users.refresh_token` | login, logout, refresh | MySQL |
| Profile, search | `users` | single reads, one single UPDATE | MySQL |
| Redis publish/subscribe listeners | none | replaced by the queues; calls commented out | - |
| Configuration, DTOs, templates | none | wiring | - |

How they interact. The chat components share `user_conversation`: the row
decides whether a conversation is in a user's list, how many unread messages it
shows and, by `startTime`, how much of the history is visible. `findAndCreate`,
which makes such rows, is called by almost every handler of groups and of direct
chats. Every handler that saves a row for somebody else queues a job, and a
processor pushes it to the receiver's room. The rooms and the sessions are kept
by Presence; the gateways ask it before they push (a direct message or a friend
request is pushed only to a user with a session; group events always go to the
rooms, because `getSocketInfos` answers an array, which is always true).
Registration feeds `users`, on which everything else has foreign keys.

What is hard, and what makes each component correct:

- **Groups.** Membership is an array that is read, changed in memory and saved
  back. Two savers overwrite each other. Deleting a group races with requests
  that read it before. *Correct*: only the admitted are members, nobody vanishes
  unasked, a deleted group leaves nothing and stays deleted, conversations follow
  memberships, counters announce no more than was said or failed to be stored
  (the counter is committed first, and nothing takes it back).
- **Direct chats.** The counter is increased in memory; a row deleted in the
  middle of a send is inserted again without its `startTime`. *Correct*: one chat
  per pair, one row per user, counters that miss no message and exceed them by
  failed ones only, hidden history stays hidden.
- **Histories.** Three resolutions of time meet: microseconds, milliseconds,
  seconds. *Correct*: following the cursors shows every message once.
- **Presence.** All sockets of a user share one key; handlers of a socket
  overlap each other; a delayed job decides by what it finds when it runs.
  *Correct*: online means a socket, offline shows the last disconnection.
- **Delivery.** Row, job, session and room are four places in three systems, and
  nothing is acknowledged. *Correct*: who reads the lists after joining the room
  misses nothing, and gets nothing twice.
- **Registration.** Data and code are two keys with two lifetimes, read one after
  the other. *Correct*: an account is made of the registration that was confirmed.
- **Password.** The code is read, compared and deleted by name in separate
  commands, and its request is answered before it is stored. *Correct*: a used
  code is gone, and none is deleted that was not used. A reset does not depend on
  a code: its guard takes any token signed with the secret of the resets, and
  `POST /user/identify` answers one; so nothing is claimed about who resets.
- **Avatars.** Bucket, table and column are written one after the other, and any
  call may fail. *Correct*: the column never names a file that is not there, and
  a replaced file goes.
- **Friend requests.** *Correct*: one relation per pair.

`PROJECT.json` lists the places where each of these can go wrong ("hazards"),
with the properties that watch them, or why none does.

## 2. Modules

| module | models | the code it stands for |
|---|---|---|
| `GroupChat` | one group: every state-changing handler, statement by statement | chat controller and services, group guard, entities |
| `Membership` | abstract: what membership promises, without requests | - |
| `DirectChat` | all direct chats of one pair of users | chat controller and services |
| `Paging` | the two queries behind every page of a history | message service, `getStartTime`, `findAndCreate` |
| `Presence` | sockets, Redis keys, column and jobs of one user | adapter, client manager, user processor |
| `Rooms` | abstract: what a gateway may rely on about a user's sockets | - |
| `Delivery` | from the saved row over its job to the sockets of one receiver | gateways, chat and friend processors, the handlers that queue |
| `Registration` | pending accounts, codes, mails, accounts | auth service, `UserService.create`, mail processor |
| `UserAccount` | password, reset codes and avatar of one user | auth and user services, storage service, mail processor |
| `Friendship` | rows of `friend` and the handlers on them | friend service, controller, gateway |
| `..._proofs` | theorems, one module per model; `GroupMembership_proofs` holds the refinement of `Membership` | - |
| `MC...` | instances for TLC | - |

How they are composed. `Delivery` extends `Rooms` and adds the jobs and what
clients have seen, so that it need not know how a socket joins or leaves; that
the real handlers behave as `Rooms` says is the refinement `RoomPromise` of
`Presence`. In the same way `GroupChat` is shown to implement `Membership`.
`Paging` contains the steps of other handlers that its queries can see.

Each handler is split where the code awaits a statement on MySQL, Redis or the
object store: one action per await, holding everything up to the next. A request
in progress sits in a *slot*, a record with the place it stands at (`at`) and
what it read earlier and still uses. Its first read is the action that receives
it; a request that this read turns away changes nothing and is no step.

### GroupChat

`group`, `manager`, `members`, `invitations`, `conversations` and `messages` are
the tables, cut down to one group. `admitted` and `lost` are history variables.
Kinds of requests:

| kind | handler | places |
|---|---|---|
| create | `POST /chat/group` | `Found` → conversations → `CreateMultipleInvites` |
| create2 | `POST /chat/group/api2` | `Found` → conversations → `FoundersInformed` |
| invite | `POST /chat/group/:id/manager/members` | `AddMember` → `CreateMultipleInvites` |
| accept, reject | `PATCH /chat/group/invitation/:id` | `UpdateInvitation` → `MarkInvitation` → conversations → `ReadMembers` → `SaveRead` → `SaveWrite` or `Reinsert` → notice |
| kick | the manager's removal | `KickMember` → `BeginRemoval` → `FindRemovedConversation` → `RemoveRow` → `CommitRemoval` → notice |
| leave | a member's own | `LeaveGroup` → as kick, from `FindRemovedConversation` |
| send | `POST /chat/group/:id/message` | `SendMessageGroup` → receivers → `IncrementUnread` → `CreateMessageInGroup` |
| erase, read | `DELETE /chat/:id`, `PATCH .../unreadCount` | `DeleteConversation` → `RemoveRow`; `ReadAllGroup` → `ResetUnread` |
| disband | `DELETE /chat/group/:id` | `DeleteGroup` → `Wipe` |

`FindConversation` and `CreateConversation` are `findAndCreate`: a look and an
insertion for every user at once, in any order. The *notice* at the end of
accept, kick and leave is `sendSystemMessageToGroup` once more, from
`ReadReceivers`. The INSERT of `CreateMessageInGroup` fails on a group that is gone
and on a text too long for its column (varchar(255); the DTO only asks for a
string), and `Crash` stops the process with everything it was handling; `lost`
counts the messages whose counters were committed by then and that were never
stored. The other statements fail in the model where the data makes them (a group
or a row that is gone, a duplicate key) and with the process. `MarkInvitation`
saves an entity too: a row that was deleted with its group comes back, if the
group has come back.

An invitation's `status` and `expiredAt` are not in the model: they are written
(`groupInvitations.service.ts`) and no handler reads them again before it acts,
so an invitation can be accepted after it was rejected, accepted, or expired.

### The other modules

- `DirectChat`: `CreateChat` (checkExists, `InsertChat`, `FindRow`, `InsertRow`),
  `SendMessage` (`FindRow`, `InsertRow`, then `UpdateUnreadMessages` as
  `SaveRead`, `UpdateRow` or `ReinsertRow`, then `CreateMessage`), `ReadAll` and
  `ResetRow`, `DeleteConversation` and `RemoveRow`. Messages are counted by their
  addressee: `getchatById` does not ask whether the sender is one of the two, so
  a stranger may send too, to the user who created the chat. `Fail` is a call that
  throws (the INSERT of a message, for one), or the process that stops, at any
  place of a handler. `unseen` (messages since a row was created or read) and `lost`
  (counted and not stored) are history variables.
- `Paging`: `OpenChat`, `OpenGroup`, `OlderMessages` and `OlderMessagesGroup` read
  `startTime`, `Answer` runs the second query. `BeginSend`, `StoreMessage`,
  `FoundRow` and `DeleteConversation` are what other handlers do meanwhile.
- `Presence`: `Connect`, `Verified`, `Announce`, `Join`, `Reject` are
  handleConnection, `Reject` being its catch: the token is refused, or a call
  after that fails; `Disconnect` and `Schedule` handleDisconnect; `UpdateToken`
  handleUpdateToken; `ReadStatus`, `ReadSeenKey`, `SetLastSeen` and
  `DeleteLastSeen` the jobs; `Tick` is the passing of time, `Crash` a stop of the
  process: sockets, rooms and handlers are gone, keys and jobs are not.
- `Delivery`: `Save` and `QueueJob` are the last two steps of a handler that
  writes for someone else; `LookUp`, `Push` and `Complete` the processor with its
  gateway; `ReadLists` the client's HTTP reads; `Fail` a call to Redis that throws,
  when the job is to be queued or the session is looked up, after which there is
  no event; `Crash` a stop of the process.
- `Registration`: `Register` … `QueueMail` are register and emailAuthentication,
  `VerifyOTP` … `ClearOtp` verifyOTP, `SendMail` the mail job.
- `UserAccount`: `GetOTPForgotPassword`, `IssueOtp`, `QueueMail` and `SendMail`
  are the code by mail; `ValidateOTP` and `SpendCode` its use, `ResetPassword` the
  reset, which asks for neither; `ChangePassword` and `SetPassword` the change with the old
  password; `UploadAvatar`, `PutObject`, `SaveFile`, `SetAvatar`, `DeleteObject`,
  `DeleteRow` are uploadAvatar. `Fail` is a call that throws, or the process that
  stops: nothing is undone.
- `Friendship`: `CreateFriend`, `InsertFriend`, `NotifyReceiver`, `UpdateFriend`,
  `DeleteFriend`, `RemoveFriend`, and the job `PushRequest`.

### What is assumed of the libraries

The code relies on these behaviours without stating them; they are external.

- TypeORM's `Repository.save` of an entity with an id first reads the stored row
  (and the ids of a many-to-many relation), compares, and writes the difference
  in a transaction: changed columns are updated, relation rows missing in the
  entity deleted, new ones inserted. A row it does not find it inserts.
  `findOne` without an order may answer any of the rows that match.
- InnoDB transactions read from one snapshot (REPEATABLE READ). The foreign keys
  of the migration cascade on deletion and refuse insertions without parent.
- `Promise.all` rejects at once and does not stop its other promises. A DELETE
  queued on a connection behind a ROLLBACK takes effect alone. After a failed
  `findAndCreate` the insertions of the other users are dropped in the model.
- Commands given to one Redis connection in one turn reach it back to back.
- Bull runs as many jobs of a queue at once as the queue has named processors. A
  job that fails is not retried (no `attempts` is given). A job that a stopped
  process was handling is found stalled and run again, or given up.
- socket.io emits to the sockets that are in the room at that moment.
- mysql2 cuts a `Date` to milliseconds; MySQL rounds a `timestamp` without
  fraction to the nearest second; `created_At` has microseconds.

## 3. Runs

| run | instance | what it shows |
|---|---|---|
| `group_concurrent` | 3 users, 3 slots, 4 requests, stops of the process, nothing kept apart | `MembersWereAdmitted`, `NothingSurvivesTheGroup` and `UnreadIsBacked` hold however requests overlap |
| `group_orderly` | 2 slots, 5 requests, the writers of members and conversations one at a time | conversations follow memberships, one each; nobody disappears unasked; a deleted group stays deleted; the group implements `Membership` |
| `group_lost_join` | 2 slots, nothing kept apart | violates `OnlyRemovedMembersVanish` |
| `group_revived` | as above | violates `DisbandedForGood` |
| `direct_chat` | 2 users, 3 slots, 5 requests, calls that fail | `UnreadIsBacked` always; counters that miss nothing and exceed by failed messages only, hidden history, one chat per pair when requests on one user's row are kept apart |
| `paging` | 2 ticks a millisecond, 4 a second, 4 messages, pages of 1 and 2 | no message twice; none lost but in the millisecond of a cursor; a new row hides no new message, the row made with a group half a second of them at most |
| `presence` | 2 sockets, lifetime and delay 2, 3 jobs, stops of the process | last seen is kept and in the end stored; a ghost session fades; the sockets implement `Rooms` |
| `presence_offline` | the same | violates `NoSessionMeansOffline` |
| `delivery` | 3 sockets, a direct message and a group message, calls that fail, stops of the process | a client that reads the lists after joining misses nothing, gets nothing twice, and sees everything at last |
| `registration` | 2 addresses, 2 names, 3 slots, 4 requests | accounts are of the registration confirmed, or of one that overlapped it; codes stay good; only accounts end registrations early, and nothing prolongs them |
| `user_account` | 2 slots, codes of lifetime 2, 5 requests, calls that fail | a used code is gone; an upload that overlaps no other leaves an avatar that can be shown; with requests kept apart old ones go, and no code is deleted that was not used |
| `friend_pair` | 2 users, one request at a time | violates `OneRelationPerPair` |

### Findings

1. **A lost acceptance** (`group_lost_join`). Two users accept at the same time.
   Both requests read the same member list, push their user and save. The second
   save finds a stored member that is not in its list and deletes it. Both users
   are told that they joined.
2. **A group that comes back** (`group_revived`). An acceptance that has read the
   group saves it after the manager deleted it. `save` finds no row and inserts
   one: a group without manager, which nobody can delete.
3. **Online without a session** (`presence_offline`). Closing one of several
   tabs deletes the session of all of them, and the session expires after an hour
   of being connected. The user then counts as offline, and direct messages are
   not pushed.
4. **Two relations of one pair** (`friend_pair`). `checkExistence` lists the same
   condition twice where the reverse direction was meant, so each user of a pair
   can ask the other, with no concurrency at all.

Met while modelling, without a run of their own because no step decides on them:

- `getOlderMessages` looks up the `startTime` of a direct chat as that of a group,
  finds none, and the older page of a direct chat is always empty. `Paging`
  models it, and `OnlyMillisecondsAreLost` speaks of groups only.
- `expiredAt` and `status` of an invitation are stored and never compared (§2).

### What the properties leave out, and why

- `UnreadIsBacked` and `UnreadIsExact` count `lost`: the counters are committed
  before the message is inserted. One text that is too long for the column, sent
  alone, leaves them too high until the conversation is read, and so does a stop in
  between. The properties say that nothing else does.
- `group_orderly` has no stops: one in the middle of an acceptance leaves a
  conversation to a user who is no member.
- `OnlyMembersHaveConversations` speaks of moments without a request in
  progress: accept creates the conversation before the member.
- `LastSeenIsKept` and `LastSeenIsStored` speak of users whose keys were last
  written by a disconnection (`fresh`). A socket that closes before its token was
  verified writes the session and deletes the key *after* its disconnection, and
  a stop of the process is no disconnection: nothing writes a last seen then.
- `NothingIsMissed` and `SeenAtLast` let go of rows whose job could not be queued
  or whose session could not be looked up (`failed`): the row is stored, and no
  event follows. They speak of clients that read the lists after their socket
  joined. Who reads before joining can miss what is pushed in between. What asks
  for a session can pass by a socket in the room whose session was ended by
  another socket or by its lifetime: finding 3, seen from the other side.
- `NewMessagesAreVisible` does not speak of the row made together with a group:
  `createAndSendEvent` does not date it one second back, and `FoundersMissLittle`
  says how much of the history that costs.
- Nothing is said of passwords. A change overwrites whatever was set between its
  comparison and its UPDATE; with changes kept apart no step comes between, and the
  guard is all there is. Both steps are in `UserAccount`.
- `CodesAreGood` and `ConfirmedAsRegistered` allow one mix-up, that of two
  registrations of an address which were in progress at the same time (`met`):
  both find the cache empty, the data of one and the code of the other may stay.
- Two overlapping uploads find the same old file or each other's, and can delete
  the file the column names. `AvatarIsThere` says that this lasts until an upload
  overlaps no other: `overlap` is the number of the last one that entered during
  another, and later numbers are good.
- `NothingLeftOver` and `OnlyUsedCodesGo` hold with requests on the same data
  kept apart (`apart`). A validation deletes the key by name and may drop a code
  issued after its comparison; a request for a code is answered before the code is
  stored, so waiting for answers does not keep it apart. Two validations that both
  read the code before either deletes it are both granted; `SpentCodesAreGone`
  speaks of who comes later. `NothingLeftOver` also needs that
  no upload stopped halfway: nothing looks for the files that such a one leaves.

### Bounds

Every bound is a constant with `Max` in its name, or the size of a set.

- *Slots*. The violations that come of interleaving need two requests
  overlapping; three let a third change the tables between the steps of two others.
- *`MaxRequests`* counts requests and crashes. The longest interesting history
  of a group is found, invite, and two acceptances or an acceptance and a removal:
  four requests; the fifth of `group_orderly` and `direct_chat` lets a user leave and
  come back, or a conversation be deleted and remade. In `user_account` five are
  two codes, their validations and one more, or three uploads and two changes.
- *`MaxRows`* bounds the rows of one user and one table that exist or are about to
  be written, and the direct chats that a user may create. An insertion for which
  no number is left waits. With 3 in the groups that cuts off a fourth invitation
  of the same user or a fourth overlapping insertion; with 2 in the direct chats, a
  third copy of what overlapping requests make twice.
- *Time*. In `Presence` a unit stands for half an hour, the lifetime and the delay
  of an hour for two units. In `Registration` the code's lifetime is one unit and
  the registration's two, which keeps their order. In `UserAccount` a code lives
  two units, so that it can age without ending. In `Paging` two ticks make a
  millisecond and two milliseconds a second: the smallest clock on which
  truncation, rounding up and rounding down all happen.
- *`MaxJobs`* lets a socket connect only while fewer jobs wait, *`MaxSends`* and
  *`MaxMessages`* bound the messages on their way and stored.
- *`Sockets`* and *`Items`* of `Delivery`: three sockets let one stay, one come and
  one go; one row of each kind, since rows do not meet each other.
- Symmetry of users, slots, addresses and names is used in runs of safety
  properties only.

### Restrictions on the environment

- `Exclusive` (GroupChat) keeps requests of some kinds apart, `Patient` keeps
  requests away from a group whose creation is still being answered (its id is
  not known to clients by then; only pushed notices and the list give it
  away), `apart` (DirectChat, UserAccount; chosen at the start, so each run
  covers both) keeps the requests on one user's row, on the code or on the avatar
  apart. The code enforces none of them. A run that uses one says what
  is true *if* clients or a lock kept these requests apart; `group_concurrent` and
  the violations show what is true without.
- Handlers, and jobs that are due, are done within the unit of time they start
  in (`Settled`, guard of `Tick`): a unit is half an hour, or minutes.
- One-time codes of different requests differ.

### Fairness

`Presence` and `Delivery` state liveness. Their fairness is weak and covers what
the server itself keeps going: a handler that has started takes its next step (a
promise that was awaited is resolved), a job that is queued or due is run (Bull's
promise while the worker is up), and in `Presence` time passes. Clients promise
nothing: they may connect, disconnect, send or read for ever or never. Stops of
the process are not fair, and may come for ever: no property counts on one, and
`SeenAtLast` still holds since each stop takes the sockets it speaks of with it.
No strong fairness is needed: a place of a handler or a job is left by its own
step or a stop only, and both liveness properties of `Presence` speak of behaviours
in which the user's sockets are gone for good, so that the jobs waiting for a
worker run out.


## 4. Proofs

`tlapm` checks every theorem to its last leaf. They hold for every value of the
constants, under the named assumptions of the modules and nothing else: the
null values are no users, bounds are naturals, the sets of slots and sockets
are finite, the lifetimes are ordered as the code's literals order them. Where
a theorem needs more (requests kept apart, `Delay = TTL`), its statement says
so. Type correctness is proved first in each module and is a conjunct of every
invariant below.

| module | theorems | the inductive invariant, and why it is needed |
|---|---|---|
| `GroupChat_proofs` | `TypeCorrect`, `NothingSurvives`, `MembersAdmitted`, `UnreadBacked` | `NothingSurvivesTheGroup` is inductive as it stands: every insertion asks for the group. For the members, `Admission` says that what a request holds of a member list is admitted too, and `admitted` only grows. For the counters, each request between UPDATE and INSERT stands for one message, and a failing INSERT or a stop moves it to `lost`. |
| `GroupMembership_proofs` | `OrderlyMembership`, `OneAcceptanceLosesNobody`, `OneConversationEach`, `ConversationsFollowMembers`, `DeletedStaysDeleted` | `Orderly`: while no other rewriter of the list is in progress, the list an acceptance holds is the stored one, so that saving it inserts one row and deletes none. `OneAcceptance` needs less: with acceptances alone kept apart the held list may have become too long, never too short. `Kept` and `Followed` need more: with the requests that create rows kept apart too, a row that a request found missing still is, it is created for a member or for the user about to be added, and a removal leaves the removed user no row. `Followed` also needs that the process does not stop. For the deleted group, `Steady`: with deletions and acceptances kept apart, an acceptance that has read the group still finds it when it saves, so `Reinsert` is never taken. |
| `DirectChat_proofs` | `DirectChatTypes`, `DirectUnreadBacked`, `DirectUnreadExact`, `DeletedHistoryHidden`, `OneChat_OneRow` | `Orderly`: a counter held in memory is backed, and the bound never falls, since a message that is counted is about to be stored, stored, or `lost`; with requests on a row apart, what a request holds is what is stored, and what it leaves behind when it fails is counted in `lost`. |
| `Paging_proofs` | `PagingTypes`, `NoneTwice`, `PagesAreComplete`, `NewOnesAreVisible`, `FoundersMissHalfASecond` | `Reading`: all that a reader got is not before the cursor, and all that is missing is before it or shares its millisecond. Lemmas on `\div` and `%` come first. |
| `Presence_proofs` | `PresenceTypes`, `RoomsServed`, `LastSeenKept` | A socket in a room is verified and registered (`InRoom`), which makes each handler a step of `Rooms`. For the last seen: of the jobs and the key, the latest disconnection is the one that will be stored, and in time, since the job's delay is the key's lifetime (an assumption of the theorem; both are an hour in the code). |
| `Delivery_proofs` | `DeliveryTypes`, `NothingMissed`, `OncePerSocket` | `Seeing`: what a client that read the lists has neither on its page nor got is in a job that has not looked it up yet, or has it among the sockets it will push to. |
| `Registration_proofs` | `RegistrationTypes`, `Confirmed`, `GoodCodes`, `EndedByAccounts`, `NothingProlonged` | `Sound`: for every address without an account, codes and requests in progress fit the registration in the cache, which outlives the code. Two of them fit when they are of one registration or of two that met; this is not transitive, but all that reach an empty cache have met two by two (`AllMet`), and what one finds there as it stores is no older than itself (`FreshOrNone`), so that nothing is prolonged. |
| `UserAccount_proofs` | `TypeCorrect`, `SpentCodes`, `OnlyUsedCodes`, `AvatarShown`, `OldFilesGo` | `Codes`: a used code is neither stored nor about to be. `Base` adds that requests which are kept apart are alone with their data, so that the key holds what a validation compared, or nothing. `Uploads`: uploads that overlap, and the avatar they leave, are not after the last overlap; one after it is alone and knows where its file is. `Tidy`: its place tells what else is in the bucket, the table and the column. |

Each step lemma takes the actions one by one; those that cannot disturb a
conjunct are dealt with together by a lemma that says what they leave alone.

Only model-checked:

- `LastSeenIsStored`, `GhostsFade` and `SeenAtLast`: liveness under fairness is
  out of the prover's reach. That actions are enabled is too.
- The violations: a counterexample is an instance by nature.

## 5. Not modelled, and why

- *Sessions*: login, logout and refresh write one column by one statement each;
  nothing that was read is written back after an await.
- *Profile and search*: single reads, and one UPDATE of columns that nothing else
  depends on.
- *Redis publish/subscribe listeners*: the calls that used them are commented out.
- *Configuration, DTOs, templates, object mappers*: no state.
- *Tokens and password hashing*: external functions; a token is verified or not,
  a password is the one it is.
- *Contents*: texts of messages, names, sizes of lists of friends. No handler
  decides on them.
- *Several groups, pairs or users at once*: no statement touches the rows of two
  groups, of two pairs, or the accounts of two users, so one of each is modelled.
  `Registration` has several addresses, since names are unique across them.

- *Failures of Redis and MySQL calls, elsewhere than said in §2*: in `Paging`, a
  failed read is a page not shown. In `Presence`, a handleDisconnect that fails
  halfway leaves a disconnection half recorded, as a stop of the process at that
  place does, and only the stop is modelled; two commands given to one connection
  in one turn are one step, and neither is lost alone.

## 6. Plan

Done, in this order: groups and direct chats with their overlapping requests;
histories; presence; registration; the first proofs (types, deleted groups);
crashes; `Membership` and its refinement; rooms and delivery with liveness;
password and avatars; the proofs of the remaining modules.

What could come next, in order of use:

1. `Friendship` with a guard for the reverse direction, as the model of the repair,
   and its properties as passing ones.
2. The repairs of findings 1 and 2 (an INSERT into the relation in
   place of the save of the array), to show that they implement `Membership`
   without any request kept apart.
3. One module that runs the handlers of `Presence` and the jobs of `Delivery`
   side by side. `RoomsServed` and the theorems of `Delivery_proofs`, which know
   the sockets only through `Rooms`, meet at that interface today; the
   composition itself is not stated as a theorem.
