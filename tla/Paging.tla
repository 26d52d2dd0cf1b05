------------------------------- MODULE Paging -------------------------------
(***************************************************************************)
(* Reading the history of one conversation page by page, while messages    *)
(* arrive and the reader's conversation row is deleted and made again.     *)
(*                                                                         *)
(* Three clocks meet here: message.created_At has microseconds, a cursor   *)
(* is a Date and has milliseconds, user_conversation.startTime is a        *)
(* timestamp that MySQL rounds to the nearest second.  Time is counted in  *)
(* ticks, Milli of them in a millisecond and Second in a second.           *)
(***************************************************************************)
EXTENDS Integers, Sequences, FiniteSets, FiniteSetsExt

CONSTANTS
  Milli, Second,
  FirstLimit,     \* size of the first page
  Limits,         \* sizes of older pages that clients ask for
  MaxSends,       \* messages on their way at the same time
  MaxMessages, MaxTime

ASSUME TicksAssumption ==
  /\ Milli \in Nat \ {0} /\ Second \in Nat \ {0}
  /\ Second % (2 * Milli) = 0
ASSUME LimitsAssumption == FirstLimit \in Nat \ {0} /\ Limits \subseteq Nat \ {0}
ASSUME BoundsAssumption ==
  /\ MaxTime \in Nat /\ Second <= MaxTime
  /\ MaxSends \in Nat /\ MaxMessages \in Nat

VARIABLES
  clock,          \* the time, in ticks
  kind,           \* "group" or "chat"
  messages,       \* created_At of the messages, in the order of insertion
  start,          \* startTime of the reader's row, NoTime without a row
  sending,        \* messages on their way
  request,        \* the reader's request, between its two queries
  page,           \* the last page answered: indices of messages
  shown,          \* the pages before it, down from the newest message
  cursor,         \* its nextCursor, or NoTime
  opened,         \* history: how many messages there were at the first page
  stable,         \* history: the reader has had the same row since
  mine,           \* history: messages stored since the row was made
  founded         \* history: the row was made with the group

row     == <<start, mine, founded>>
history == <<opened, stable>>
vars    == <<clock, kind, messages, row, sending, request, page, shown, cursor, history>>

NoTime == -1
Idle   == [at |-> "idle", start |-> NoTime, limit |-> 0]
Times  == 0 .. MaxTime

TypeOK ==
  /\ clock \in Times
  /\ kind \in {"group", "chat"}
  /\ messages \in Seq(Times)
  /\ start \in -1 .. MaxTime + Second
  /\ sending \in 0 .. MaxSends
  /\ request \in [at : {"first", "older"}, start : -1 .. MaxTime + Second,
                  limit : Limits \cup {FirstLimit}] \cup {Idle}
  /\ page \subseteq DOMAIN messages
  /\ shown \subseteq DOMAIN messages
  /\ cursor \in Times \cup {NoTime}
  /\ opened \in 0 .. Len(messages)
  /\ stable \in BOOLEAN /\ founded \in BOOLEAN
  /\ mine \subseteq DOMAIN messages

Init ==
  /\ clock = Second
  /\ kind \in {"group", "chat"}
  /\ messages = << >>
  /\ start = NoTime
  /\ sending = 0
  /\ request = Idle
  /\ page = {} /\ shown = {}
  /\ cursor = NoTime
  /\ opened = 0
  /\ stable = FALSE
  /\ mine = {}
  /\ founded = FALSE

-----------------------------------------------------------------------------
(* A Date drops what is below a millisecond; a timestamp is rounded.       *)
AsDate(t)      == t - (t % Milli)
AsTimestamp(t) == ((t + Second \div 2) \div Second) * Second

(* findAndCreate dates a new row one second back.                          *)
\* Mutants of StartTime: it does not, like createAndSendEvent; it confuses
\* seconds with milliseconds.
StartTimeNow(t)        == AsTimestamp(AsDate(t))
StartTimeInSeconds(t)  == AsTimestamp(AsDate(t) - 1000 * Second)
StartTime(t)           == AsTimestamp(AsDate(t) - Second)

(* createAndSendEvent, when the group is founded with all its members.     *)
\* Mutant of FoundRow: the second is added that findAndCreate takes off.
FoundRowAhead ==
  /\ kind = "group" /\ messages = << >> /\ sending = 0 /\ start = NoTime
  /\ start' = AsTimestamp(AsDate(clock) + Second)
  /\ founded' = TRUE
  /\ UNCHANGED <<clock, kind, messages, mine, sending, request, page, shown, cursor, history>>

FoundRow ==
  /\ kind = "group" /\ messages = << >> /\ sending = 0
  /\ start = NoTime
  /\ start' = AsTimestamp(AsDate(clock))
  /\ founded' = TRUE
  /\ UNCHANGED <<clock, kind, messages, mine, sending, request, page, shown, cursor, history>>

(* Someone else sends a message: findAndCreate, later the insertion.       *)
BeginSend ==
  /\ sending < MaxSends /\ Len(messages) + sending < MaxMessages
  /\ sending' = sending + 1
  /\ IF start = NoTime
       THEN start' = StartTime(clock) /\ founded' = FALSE
       ELSE UNCHANGED <<start, founded>>
  /\ UNCHANGED <<clock, kind, messages, mine, request, page, shown, cursor, history>>

StoreMessage ==
  /\ sending > 0
  /\ sending' = sending - 1
  /\ messages' = Append(messages, clock)
  /\ mine' = IF start = NoTime THEN mine ELSE mine \cup {Len(messages')}
  /\ UNCHANGED <<clock, kind, start, founded, request, page, shown, cursor, history>>

(* DELETE /chat/:id.                                                       *)
DeleteConversation ==
  /\ start # NoTime
  /\ start' = NoTime
  /\ mine' = {}
  /\ stable' = FALSE
  /\ UNCHANGED <<clock, kind, messages, founded, sending, request, page, shown, cursor, opened>>

-----------------------------------------------------------------------------
(* GET /chat/:id and GET /chat/group/:id: getStartTime, then the first     *)
(* page, whose size the services choose.                                   *)
FirstPage ==
  /\ request = Idle
  /\ request' = [at |-> "first", start |-> start, limit |-> FirstLimit]
  /\ stable' = (start # NoTime)
  /\ UNCHANGED <<clock, kind, messages, row, sending, page, shown, cursor, opened>>

OpenChat  == kind = "chat" /\ FirstPage
OpenGroup == kind = "group" /\ FirstPage

(* GET /chat/:id/message and GET /chat/group/:id/message, with the cursor  *)
(* of the last page.                                                       *)
OlderPage(limit, since) ==
  /\ request = Idle
  /\ cursor # NoTime
  /\ request' = [at |-> "older", limit |-> limit, start |-> since]
  /\ UNCHANGED <<clock, kind, messages, row, sending, page, shown, cursor, history>>

(* getOlderMessages asks getStartTime for the row of a group, which no     *)
(* direct chat has.                                                        *)
OlderMessages(limit)      == kind = "chat" /\ OlderPage(limit, NoTime)
OlderMessagesGroup(limit) == kind = "group" /\ OlderPage(limit, start)

\* Mutant of Before: the message of the cursor is selected once more.
BeforeOrAt(t, c) == t <= c
Before(t, c) == t < c

(* The rows a page is taken from.  A first page without startTime is not   *)
(* restricted, an older one is compared with NULL and stays empty.         *)
Selected ==
  LET since == request.start
  IN  {i \in DOMAIN messages :
         \/ request.at = "first" /\ (since = NoTime \/ messages[i] >= since)
         \/ request.at = "older" /\ since # NoTime /\ messages[i] >= since
                                 /\ Before(messages[i], cursor)}

(* ORDER BY created_At DESC, take(limit + 1), slice(0, limit): the newest; *)
(* among messages of the same time it may be any.                          *)
Newest(S, limit) ==
  {Q \in SUBSET S : /\ Cardinality(Q) = Min({limit, Cardinality(S)})
                    /\ \A i \in Q, j \in S \ Q : messages[i] >= messages[j]}

\* Mutant of HasMore: one row is taken too few to know.
HasMoreOfTaken(n, limit) == n > limit + 1
HasMore(n, limit) == n > limit

Answer ==
  /\ request # Idle
  /\ \E Q \in Newest(Selected, request.limit) :
       /\ page' = Q
       /\ cursor' = IF HasMore(Cardinality(Selected), request.limit)
                    THEN AsDate(Min({messages[i] : i \in Q})) ELSE NoTime
  /\ IF request.at = "first"
       THEN shown' = {} /\ opened' = Len(messages)
       ELSE shown' = shown \cup page /\ UNCHANGED opened
  /\ request' = Idle
  /\ UNCHANGED <<clock, kind, messages, row, sending, stable>>

Tick ==
  /\ clock < MaxTime
  /\ clock' = clock + 1
  /\ UNCHANGED <<kind, messages, row, sending, request, page, shown, cursor, history>>

Next ==
  \/ FoundRow
  \/ BeginSend
  \/ StoreMessage
  \/ DeleteConversation
  \/ OpenChat
  \/ OpenGroup
  \/ \E limit \in Limits : OlderMessages(limit) \/ OlderMessagesGroup(limit)
  \/ Answer
  \/ Tick

Spec == Init /\ [][Next]_vars

-----------------------------------------------------------------------------
(* No page repeats a message of an earlier one, whatever arrived meanwhile *)
(* (getOlderMessagesGroup, getMessagesByGroupId).                          *)
NoMessageTwice == page \cap shown = {}

(* A reader of a group who follows the cursors to the end has got every    *)
(* message there was, except some of the very millisecond in which a page  *)
(* ended: the cursor has lost their microseconds.  Not so in a direct chat,*)
(* and not if the reader's row was deleted meanwhile.                      *)
OnlyMillisecondsAreLost ==
  kind = "group" /\ stable /\ request = Idle /\ cursor = NoTime =>
    LET got == shown \cup page
    IN  \A i \in (1 .. opened) \ got :
          messages[i] >= start => \E j \in got : AsDate(messages[j]) = AsDate(messages[i])

(* The message that makes a conversation appear, and all that follow, are  *)
(* not hidden by the row's startTime, though it is rounded up or down; only*)
(* the row made together with a group may hide some (findAndCreate,        *)
(* createAndSendEvent).                                                    *)
NewMessagesAreVisible ==
  start # NoTime /\ ~founded => \A i \in mine : messages[i] >= start

(* The row made together with a group, which is not dated back, hides no   *)
(* message but those sent within half a second after it: it is rounded, at *)
(* most, to the next second (createAndSendEvent).                          *)
FoundersMissLittle ==
  start # NoTime /\ founded => \A i \in mine : messages[i] + Second \div 2 >= start
=============================================================================
