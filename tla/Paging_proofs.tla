---------------------------- MODULE Paging_proofs ----------------------------
(***************************************************************************)
(* What Paging's runs show for one small clock holds for every resolution  *)
(* of the three clocks, every page size and any number of messages.        *)
(*                                                                         *)
(* The first part is arithmetic: division with remainder, least elements,  *)
(* and what AsDate and AsTimestamp do to a time.  The invariant Reading    *)
(* then says what every page leaves behind: all that was got is at least   *)
(* as new as the cursor (Ahead), and all that was not lies before it, or   *)
(* shares the millisecond of something that was got (Covered).  Covered    *)
(* needs SameRow, since a request carries the startTime it has read.       *)
(***************************************************************************)
EXTENDS Paging, FiniteSetTheorems, WellFoundedInduction, TLAPS

(* Products of whole numbers.                                              *)
LEMMA Products ==
  /\ \A a, b \in Nat : a * b \in Nat
  /\ \A a, b \in Int, n \in Nat : a <= b => a * n <= b * n
  /\ \A a \in Int, n \in Nat : (a + 1) * n = a * n + n /\ a * n \in Int
  <1>1. \A a, b \in Nat : a * b \in Nat
    OBVIOUS
  <1>2. \A a, b \in Int, n \in Nat : a <= b => a * n <= b * n
    OBVIOUS
  <1>3. \A a \in Int, n \in Nat : (a + 1) * n = a * n + n /\ a * n \in Int
    OBVIOUS
  <1> QED
    BY <1>1, <1>2, <1>3

(* Division with remainder.                                                *)
LEMMA Division ==
  ASSUME NEW a \in Int, NEW n \in Nat \ {0}
  PROVE  /\ a \div n \in Int /\ a % n \in 0 .. n - 1
         /\ a = (a \div n) * n + (a % n)
         /\ a \in Nat => a \div n \in Nat
  <1>1. a \div n \in Int /\ a % n \in 0 .. n - 1
    OBVIOUS
  <1>2. a = (a \div n) * n + (a % n)
    OBVIOUS
  <1>3. a \in Nat => a \div n \in Nat
    OBVIOUS
  <1> QED
    BY <1>1, <1>2, <1>3

(* A nonempty set of numbers has a least one.                              *)
LEMMA NatMinimum ==
  ASSUME NEW T \in SUBSET Nat, T # {}
  PROVE  Min(T) \in T /\ \A t \in T : Min(T) <= t
  <1> DEFINE R == {p \in Nat \X Nat : p[1] < p[2]}
  <1>1. IsWellFoundedOn(R, Nat)
    BY NatLessThanWellFounded DEF OpToRel
  <1>2. \A x, y \in Nat : x < y => <<x, y>> \in R
    OBVIOUS
  <1> HIDE DEF R
  <1>3. PICK x \in T : \A y \in T : <<y, x>> \notin R
    BY <1>1, WFMin
  <1>4. \A y \in T : x <= y
    <2>1. SUFFICES ASSUME NEW y \in T PROVE x <= y
      OBVIOUS
    <2>2. x \in Nat /\ y \in Nat
      OBVIOUS
    <2>3. ~ (y < x)
      BY <1>2, <1>3, <2>2
    <2> QED
      BY <2>2, <2>3
  <1> QED
    BY <1>4 DEF Min

-----------------------------------------------------------------------------
(* AsDate cuts to the beginning of the millisecond, AsTimestamp rounds to  *)
(* the nearest second.                                                     *)
LEMMA Milliseconds ==
  ASSUME NEW t \in Nat
  PROVE  /\ AsDate(t) \in 0 .. t
         /\ t \div Milli \in Nat
         /\ AsDate(t) = (t \div Milli) * Milli
         /\ t < (t \div Milli) * Milli + Milli
  <1>1. Milli \in Nat \ {0} /\ t \in Int
    BY TicksAssumption
  <1>2. /\ t \div Milli \in Nat
        /\ t % Milli \in 0 .. Milli - 1
        /\ t = (t \div Milli) * Milli + (t % Milli)
    BY <1>1, Division, Zenon
  <1>3. (t \div Milli) * Milli \in Nat
    BY <1>1, <1>2, Products
  <1> QED
    BY <1>1, <1>2, <1>3 DEF AsDate

(* Times between a date and the time it was cut from have that date.       *)
LEMMA SameMillisecond ==
  ASSUME NEW t \in Nat, NEW x \in Nat, AsDate(t) <= x, x <= t
  PROVE  AsDate(x) = AsDate(t)
  <1> DEFINE p == x \div Milli
             q == t \div Milli
  <1>1. Milli \in Nat \ {0}
    BY TicksAssumption
  <1>2. p \in Nat /\ AsDate(x) = p * Milli /\ x < p * Milli + Milli /\ AsDate(x) \in 0 .. x
    BY Milliseconds
  <1>3. q \in Nat /\ AsDate(t) = q * Milli /\ t < q * Milli + Milli /\ AsDate(t) \in 0 .. t
    BY Milliseconds
  <1> HIDE DEF p, q
  <1>4. p * Milli \in Nat /\ q * Milli \in Nat
    BY <1>1, <1>2, <1>3, Products
  <1>5. ~ (p + 1 <= q)
    <2>1. SUFFICES ASSUME p + 1 <= q PROVE FALSE
      OBVIOUS
    <2>2. (p + 1) * Milli <= q * Milli /\ (p + 1) * Milli = p * Milli + Milli
      BY <1>1, <1>2, <1>3, <2>1, Products
    <2> QED
      BY <1>1, <1>2, <1>3, <1>4, <2>2
  <1>6. ~ (q + 1 <= p)
    <2>1. SUFFICES ASSUME q + 1 <= p PROVE FALSE
      OBVIOUS
    <2>2. (q + 1) * Milli <= p * Milli /\ (q + 1) * Milli = q * Milli + Milli
      BY <1>1, <1>2, <1>3, <2>1, Products
    <2> QED
      BY <1>1, <1>2, <1>3, <1>4, <2>2
  <1>7. p = q
    BY <1>2, <1>3, <1>5, <1>6
  <1> QED
    BY <1>2, <1>3, <1>7

(* The first second begins a millisecond, so no date lies before it.       *)
LEMMA AfterTheFirstSecond ==
  ASSUME NEW t \in Nat, Second <= t
  PROVE  Second <= AsDate(t)
  <1> DEFINE k == Second \div (2 * Milli)
             q == t \div Milli
  <1>1. Milli \in Nat \ {0} /\ Second \in Nat \ {0} /\ 2 * Milli \in Nat \ {0}
        /\ Second \in Int /\ Second \in Nat
    BY TicksAssumption
  <1>2. k \in Nat /\ Second = k * (2 * Milli) + (Second % (2 * Milli))
    BY <1>1, Division, Zenon
  <1>3. k * (2 * Milli) = (2 * k) * Milli /\ 2 * k \in Nat
    BY <1>1, <1>2
  <1>4. Second = (2 * k) * Milli
    <2>1. k * (2 * Milli) \in Nat
      BY <1>1, <1>2, Products
    <2> QED
      BY <1>1, <1>2, <1>3, <2>1, TicksAssumption
  <1>5. q \in Nat /\ AsDate(t) = q * Milli /\ t < q * Milli + Milli
    BY Milliseconds
  <1> HIDE DEF k, q
  <1>6. ~ (q + 1 <= 2 * k)
    <2>1. SUFFICES ASSUME q + 1 <= 2 * k PROVE FALSE
      OBVIOUS
    <2>2. (q + 1) * Milli <= (2 * k) * Milli /\ (q + 1) * Milli = q * Milli + Milli
      BY <1>1, <1>3, <1>5, <2>1, Products
    <2>3. q * Milli \in Nat
      BY <1>1, <1>5, Products
    <2> QED
      BY <1>1, <1>4, <1>5, <2>2, <2>3
  <1>7. (2 * k) * Milli <= q * Milli
    <2>1. 2 * k <= q
      BY <1>3, <1>5, <1>6
    <2> QED
      BY <1>1, <1>3, <1>5, <2>1, Products
  <1> QED
    BY <1>4, <1>5, <1>7

(* Rounding moves a time by half a second at most.                         *)
LEMMA Rounding ==
  ASSUME NEW a \in Nat
  PROVE  /\ AsTimestamp(a) \in 0 .. a + (Second \div 2)
         /\ Second \div 2 \in Nat /\ Second \div 2 < Second
  <1> DEFINE h == Second \div 2
             b == a + h
             q == b \div Second
  <1>1. Second \in Nat \ {0}
    BY TicksAssumption
  <1>2. h \in Nat /\ h < Second
    BY <1>1
  <1> HIDE DEF h
  <1>3. b \in Nat /\ b \in Int
    BY <1>2
  <1> HIDE DEF b
  <1>4. q \in Nat /\ b % Second \in 0 .. Second - 1 /\ b = q * Second + (b % Second)
    BY <1>1, <1>3, Division, Zenon
  <1> HIDE DEF q
  <1>5. q * Second \in Nat
    BY <1>1, <1>4, Products
  <1>6. q * Second \in 0 .. b
    BY <1>1, <1>3, <1>4, <1>5
  <1> QED
    BY <1>2, <1>6 DEF AsTimestamp, q, b, h

(* Half a second is a whole number of ticks, and so is every startTime.    *)
LEMMA Halves == Second \div 2 \in Nat
  BY TicksAssumption

LEMMA StartsAreWhole == \A s \in -1 .. MaxTime + Second : s \in Int
  OBVIOUS

(* A row is never dated later than the moment it is made, unless the group *)
(* is made with it, and then by half a second at most.                     *)
LEMMA StartTimes ==
  ASSUME NEW t \in Times, Second <= t
  PROVE  /\ StartTime(t) \in 0 .. t
         /\ AsTimestamp(AsDate(t)) \in 0 .. MaxTime + Second
         /\ AsTimestamp(AsDate(t)) <= t + (Second \div 2)
  <1>1. t \in Nat /\ Second \in Nat /\ MaxTime \in Nat /\ t <= MaxTime
    BY TicksAssumption, BoundsAssumption DEF Times
  <1>2. AsDate(t) \in 0 .. t /\ Second <= AsDate(t)
    BY <1>1, Milliseconds, AfterTheFirstSecond
  <1>3. AsDate(t) - Second \in Nat /\ AsDate(t) \in Nat
    BY <1>1, <1>2
  <1>4. AsTimestamp(AsDate(t) - Second) \in 0 .. AsDate(t) - Second + (Second \div 2)
        /\ Second \div 2 \in Nat /\ Second \div 2 < Second
    BY <1>3, Rounding
  <1>5. AsTimestamp(AsDate(t)) \in 0 .. AsDate(t) + (Second \div 2)
    BY <1>3, Rounding
  <1>6. StartTime(t) = AsTimestamp(AsDate(t) - Second)
    BY DEF StartTime
  <1> DEFINE d == AsDate(t)
             h == Second \div 2
             u == AsTimestamp(d - Second)
             v == AsTimestamp(d)
  <1> HIDE DEF d, h, u, v
  <1>7. u \in 0 .. d - Second + h /\ v \in 0 .. d + h /\ d \in 0 .. t /\ h \in Nat /\ h < Second
    BY <1>2, <1>4, <1>5 DEF d, h, u, v
  <1>8. u \in 0 .. t /\ v \in 0 .. MaxTime + Second /\ v <= t + h
    BY <1>1, <1>7
  <1> QED
    BY <1>6, <1>8 DEF u, v, d, h

-----------------------------------------------------------------------------
(* A page of the limit's size, or of everything there is.                  *)
LEMMA Pages ==
  ASSUME messages \in Seq(Times), NEW S \in SUBSET DOMAIN messages,
         NEW limit \in Nat \ {0}, NEW Q \in Newest(S, limit)
  PROVE  /\ Q \subseteq S
         /\ HasMore(Cardinality(S), limit) => Q # {}
         /\ ~HasMore(Cardinality(S), limit) => Q = S
         /\ \A i \in Q, j \in S \ Q : messages[j] <= messages[i]
  <1> DEFINE n == Cardinality(S)
  <1>1. IsFiniteSet(S)
    <2>1. DOMAIN messages = 1 .. Len(messages) /\ Len(messages) \in Nat
      OBVIOUS
    <2>2. IsFiniteSet(DOMAIN messages)
      BY <2>1, FS_Interval
    <2> QED
      BY <2>2, FS_Subset
  <1>2. n \in Nat
    BY <1>1, FS_CardinalityType
  <1>3. /\ Q \subseteq S
        /\ Cardinality(Q) = Min({limit, n})
        /\ \A i \in Q, j \in S \ Q : messages[i] >= messages[j]
    BY DEF Newest
  <1> HIDE DEF n
  <1>4. Min({limit, n}) \in {limit, n} /\ Min({limit, n}) <= limit /\ Min({limit, n}) <= n
    <2>1. {limit, n} \in SUBSET Nat /\ {limit, n} # {}
      BY <1>2
    <2> QED
      BY <2>1, NatMinimum
  <1>5. \A i \in Q, j \in S \ Q : messages[j] <= messages[i]
    <2>1. \A i \in DOMAIN messages : messages[i] \in Int
      BY BoundsAssumption DEF Times
    <2> QED
      BY <1>3, <2>1
  <1>6. n > limit => Q # {}
    <2>1. SUFFICES ASSUME n > limit, Q = {} PROVE FALSE
      OBVIOUS
    <2>2. Cardinality(Q) = 0
      BY <2>1, FS_EmptySet
    <2> QED
      BY <1>2, <1>3, <1>4, <2>1, <2>2
  <1>7. ~(n > limit) => Q = S
    <2>1. SUFFICES ASSUME ~(n > limit) PROVE Q = S
      OBVIOUS
    <2>2. Cardinality(Q) = Cardinality(S)
      BY <1>2, <1>3, <1>4, <2>1 DEF n
    <2> QED
      BY <1>1, <1>3, <2>2, FS_Subset
  <1> QED
    BY <1>3, <1>5, <1>6, <1>7 DEF HasMore, n

(* The cursor of a page: whatever is not newer than the page is older than *)
(* the cursor, or of the millisecond of one of its messages.               *)
LEMMA Cursors ==
  ASSUME messages \in Seq(Times), NEW Q \in SUBSET DOMAIN messages, Q # {},
         NEW c, c = AsDate(Min({messages[i] : i \in Q}))
  PROVE  /\ c \in Times
         /\ \A i \in Q : c <= messages[i]
         /\ \A x \in Times : (\A i \in Q : x <= messages[i])
              => x < c \/ \E j \in Q : AsDate(messages[j]) = AsDate(x)
  <1> DEFINE T == {messages[i] : i \in Q}
  <1>1. \A i \in DOMAIN messages : messages[i] \in Times
    OBVIOUS
  <1>2. Times \subseteq Nat
    BY BoundsAssumption DEF Times
  <1>3. T \in SUBSET Nat /\ T # {}
    BY <1>1, <1>2
  <1>4. Min(T) \in T /\ \A t \in T : Min(T) <= t
    BY <1>3, NatMinimum
  <1>5. PICK q \in Q : Min(T) = messages[q]
    BY <1>4
  <1> DEFINE m == messages[q]
  <1>6. m \in Times /\ \A i \in Q : m <= messages[i]
    BY <1>1, <1>4, <1>5
  <1>7. c = AsDate(m)
    BY <1>5
  <1> HIDE DEF T, m
  <1>8. c \in 0 .. m
    BY <1>2, <1>6, <1>7, Milliseconds
  <1>9. c \in Times
    BY <1>6, <1>8, BoundsAssumption DEF Times
  <1>10. \A i \in Q : c <= messages[i]
    <2>1. SUFFICES ASSUME NEW i \in Q PROVE c <= messages[i]
      OBVIOUS
    <2>2. messages[i] \in Nat /\ m \in Nat
      BY <1>1, <1>2, <1>6
    <2> QED
      BY <1>6, <1>8, <2>2
  <1>11. \A x \in Times : (\A i \in Q : x <= messages[i])
           => x < c \/ \E j \in Q : AsDate(messages[j]) = AsDate(x)
    <2>1. SUFFICES ASSUME NEW x \in Times, \A i \in Q : x <= messages[i], ~(x < c)
                   PROVE  AsDate(messages[q]) = AsDate(x)
      OBVIOUS
    <2>2. x <= m
      BY <2>1 DEF m
    <2>3. x \in Nat /\ m \in Nat /\ c \in Nat
      BY <1>2, <1>6, <1>9
    <2>4. AsDate(m) <= x
      BY <1>7, <2>1, <2>3
    <2> QED
      BY <2>2, <2>3, <2>4, SameMillisecond DEF m
  <1> QED
    BY <1>9, <1>10, <1>11

-----------------------------------------------------------------------------
(* The clock has passed the first second.                                  *)
Started == Second <= clock

(* What the reader has got is not older than the cursor, and an older page *)
(* is asked for with a cursor.                                             *)
Ahead ==
  /\ page \cap shown = {}
  /\ cursor # NoTime => \A i \in page \cup shown : cursor <= messages[i]
  /\ request.at = "older" => cursor # NoTime

(* The row is dated before every message that it was made for, or not much *)
(* after it.                                                               *)
Late(withGroup) == IF withGroup THEN Second \div 2 ELSE 0

Dated ==
  /\ start = NoTime => mine = {}
  /\ start # NoTime =>
       /\ start <= clock + Late(founded)
       /\ \A i \in mine : start <= messages[i] + Late(founded)

(* A row that is stable is the one the reader's request has read.          *)
SameRow ==
  stable => /\ start # NoTime
            /\ kind = "group" /\ request # Idle => request.start = start

(* What the reader of a group has not got yet lies before the cursor, but  *)
(* for the millisecond of a message that was got.                          *)
Got == page \cup shown

Missing(i) ==
  /\ i \in 1 .. opened
  /\ i \notin Got
  /\ start <= messages[i]
  /\ ~ \E j \in Got : AsDate(messages[j]) = AsDate(messages[i])

Covered ==
  kind = "group" /\ stable /\ request.at # "first" =>
    \A i \in 1 .. opened : Missing(i) => cursor # NoTime /\ messages[i] < cursor

Reading == TypeOK /\ Started /\ Ahead /\ Dated /\ SameRow /\ Covered

-----------------------------------------------------------------------------
(* Reading holds before anything was stored or read.                       *)
LEMMA ReadingInit == Init => Reading
  <1>1. SUFFICES ASSUME Init PROVE Reading
    OBVIOUS
  <1>2. TypeOK
    <2>1. clock \in Times
      BY <1>1, TicksAssumption, BoundsAssumption DEF Init, Times
    <2>2. start \in -1 .. MaxTime + Second
      BY <1>1, TicksAssumption, BoundsAssumption DEF Init, NoTime
    <2>3. sending \in 0 .. MaxSends /\ opened \in 0 .. Len(messages)
      BY <1>1, BoundsAssumption DEF Init
    <2>4. messages \in Seq(Times) /\ page = {} /\ shown = {} /\ mine = {}
      BY <1>1 DEF Init
    <2>5. kind \in {"group", "chat"} /\ request = Idle /\ cursor = NoTime
          /\ stable \in BOOLEAN /\ founded \in BOOLEAN
      BY <1>1 DEF Init
    <2> QED
      BY <2>1, <2>2, <2>3, <2>4, <2>5 DEF TypeOK
  <1>3. Started
    BY <1>1, TicksAssumption DEF Init, Started
  <1>4. Ahead /\ Dated /\ SameRow /\ Covered
    BY <1>1 DEF Init, Ahead, Dated, SameRow, Covered, Idle
  <1> QED
    BY <1>2, <1>3, <1>4 DEF Reading

(* The second query of a page: an older one selects before the cursor, and *)
(* what the page leaves out is before the new cursor.                      *)
LEMMA AnswerKeepsReading ==
  ASSUME Reading, Answer
  PROVE  Reading'
  <1> DEFINE S == Selected
             limit == request.limit
             more == HasMore(Cardinality(S), limit)
  <1>0. TypeOK /\ Started /\ Ahead /\ Dated /\ SameRow /\ Covered
    BY DEF Reading
  <1>1. /\ messages \in Seq(Times) /\ Times \subseteq Nat
        /\ DOMAIN messages = 1 .. Len(messages) /\ Len(messages) \in Nat
        /\ \A i \in DOMAIN messages : messages[i] \in Times
    BY <1>0, BoundsAssumption DEF TypeOK, Times
  <1>2. /\ request \in [at : {"first", "older"}, start : -1 .. MaxTime + Second,
                        limit : Limits \cup {FirstLimit}]
        /\ limit \in Nat \ {0}
        /\ request.at \in {"first", "older"}
    BY <1>0, LimitsAssumption DEF TypeOK, Answer
  <1>3. S \in SUBSET DOMAIN messages
    BY DEF Selected
  <1>4. PICK Q \in Newest(S, limit) :
          /\ page' = Q
          /\ cursor' = IF more THEN AsDate(Min({messages[i] : i \in Q})) ELSE NoTime
    BY DEF Answer
  <1>5. /\ request' = Idle
        /\ UNCHANGED <<clock, kind, messages, start, mine, founded, sending, stable>>
        /\ request.at = "first" => shown' = {} /\ opened' = Len(messages)
        /\ request.at = "older" => shown' = shown \cup page /\ opened' = opened
    BY <1>2 DEF Answer, row
  <1> HIDE DEF S, limit, more
  <1>6. /\ Q \subseteq S
        /\ more => Q # {}
        /\ ~more => Q = S
        /\ \A i \in Q, j \in S \ Q : messages[j] <= messages[i]
    BY <1>1, <1>2, <1>3, Pages DEF more
  <1>7. Q \in SUBSET DOMAIN messages
    BY <1>3, <1>6
  <1>8. more => /\ cursor' \in Times
                /\ \A i \in Q : cursor' <= messages[i]
                /\ \A x \in Times : (\A i \in Q : x <= messages[i])
                     => x < cursor' \/ \E j \in Q : AsDate(messages[j]) = AsDate(x)
    <2>1. SUFFICES ASSUME more
                   PROVE  /\ cursor' \in Times
                          /\ \A i \in Q : cursor' <= messages[i]
                          /\ \A x \in Times : (\A i \in Q : x <= messages[i])
                               => x < cursor' \/ \E j \in Q : AsDate(messages[j]) = AsDate(x)
      OBVIOUS
    <2>2. Q # {} /\ cursor' = AsDate(Min({messages[i] : i \in Q}))
      BY <1>4, <1>6, <2>1
    <2> QED
      BY <1>1, <1>7, <2>2, Cursors
  <1>9. ~more => cursor' = NoTime
    BY <1>4
  <1>10. NoTime \notin Times
    BY DEF NoTime, Times
  <1>11. TypeOK'
    <2>1. shown' \subseteq DOMAIN messages /\ opened' \in 0 .. Len(messages)
      BY <1>0, <1>1, <1>2, <1>5 DEF TypeOK
    <2>2. cursor' \in Times \cup {NoTime}
      BY <1>8, <1>9
    <2> QED
      BY <1>0, <1>4, <1>5, <1>7, <2>1, <2>2 DEF TypeOK, Times
  <1>12. Started' /\ Dated'
    BY <1>0, <1>5 DEF Started, Dated
  <1>13. Ahead'
    <2>1. request'.at # "older"
      BY <1>5 DEF Idle
    <2>2. CASE request.at = "first"
      <3>1. page' = Q /\ shown' = {}
        BY <1>4, <1>5, <2>2
      <3>2. cursor' # NoTime => \A i \in Q : cursor' <= messages[i]
        BY <1>8, <1>9
      <3> QED
        BY <1>5, <2>1, <3>1, <3>2 DEF Ahead
    <2>3. CASE request.at = "older"
      <3>1. page' = Q /\ shown' = shown \cup page
        BY <1>4, <1>5, <2>3
      <3>2. cursor # NoTime /\ \A i \in page \cup shown : cursor <= messages[i]
        BY <1>0, <2>3 DEF Ahead
      <3>3. cursor \in Times /\ shown \subseteq DOMAIN messages /\ page \subseteq DOMAIN messages
        BY <1>0, <3>2 DEF TypeOK
      <3>4. \A i \in Q : messages[i] < cursor
        BY <1>6, <2>3 DEF S, Selected, Before
      <3>5. Q \cap (shown \cup page) = {}
        <4>1. SUFFICES ASSUME NEW i \in Q, i \in shown \cup page PROVE FALSE
          OBVIOUS
        <4>2. messages[i] \in Nat /\ cursor \in Nat
          BY <1>1, <1>7, <3>3, <4>1
        <4> QED
          BY <3>2, <3>4, <4>1, <4>2
      <3>6. cursor' # NoTime => \A i \in Q \cup shown \cup page : cursor' <= messages[i]
        <4>1. SUFFICES ASSUME more, NEW i \in shown \cup page
                       PROVE  cursor' <= messages[i]
          BY <1>8, <1>9
        <4>2. PICK q \in Q : TRUE
          BY <1>6, <4>1
        <4>3. messages[q] \in Nat /\ messages[i] \in Nat /\ cursor \in Nat /\ cursor' \in Nat
          BY <1>1, <1>7, <1>8, <3>3, <4>1, <4>2
        <4>4. cursor' <= messages[q] /\ messages[q] < cursor /\ cursor <= messages[i]
          BY <1>8, <3>2, <3>4, <4>1, <4>2
        <4> QED
          BY <4>3, <4>4
      <3> QED
        BY <1>5, <2>1, <3>1, <3>5, <3>6 DEF Ahead
    <2> QED
      BY <1>2, <2>2, <2>3
  <1>14. SameRow'
    BY <1>0, <1>5 DEF SameRow
  <1>15. Covered'
    <2>1. SUFFICES ASSUME kind = "group", stable, NEW i \in 1 .. opened', Missing(i)'
                   PROVE  cursor' # NoTime /\ messages[i] < cursor'
      BY <1>5 DEF Covered
    <2>2. start # NoTime /\ request.start = start
      BY <1>0, <2>1 DEF SameRow, Answer
    <2>3. i \in DOMAIN messages
      <3>1. opened' \in 0 .. Len(messages)
        BY <1>5, <1>11 DEF TypeOK
      <3> QED
        BY <1>1, <2>1, <3>1
    <2>4. /\ i \notin Q /\ i \notin shown'
          /\ start <= messages[i]
          /\ \A j \in Q \cup shown' : AsDate(messages[j]) # AsDate(messages[i])
      <3>1. AsDate(messages[i])' = AsDate(messages[i])
            /\ \A j : AsDate(messages[j])' = AsDate(messages[j])
        BY <1>5 DEF AsDate
      <3> QED
        BY <1>4, <1>5, <2>1, <3>1 DEF Missing, Got
    <2>5. i \in S
      <3>1. start \in Int /\ messages[i] \in Nat
        <4>1. start \in -1 .. MaxTime + Second
          BY <1>0 DEF TypeOK
        <4> QED
          BY <1>1, <2>3, <4>1, StartsAreWhole, Zenon
      <3>2. messages[i] >= request.start
        BY <2>2, <2>4, <3>1
      <3>3. CASE request.at = "first"
        BY <2>3, <3>2, <3>3 DEF S, Selected
      <3>4. CASE request.at = "older"
        <4>1. shown' = Got /\ opened' = opened
          BY <1>5, <3>4 DEF Got
        <4>2. Missing(i)
          BY <2>1, <2>4, <4>1 DEF Missing
        <4>3. messages[i] < cursor
          BY <1>0, <2>1, <3>4, <4>1, <4>2 DEF Covered
        <4> QED
          BY <2>2, <2>3, <3>2, <3>4, <4>3 DEF S, Selected, Before
      <3> QED
        BY <1>2, <3>3, <3>4
    <2>6. more /\ \A q \in Q : messages[i] <= messages[q]
      BY <1>6, <2>4, <2>5
    <2>7. messages[i] < cursor'
      BY <1>1, <1>8, <2>3, <2>4, <2>6
    <2> QED
      BY <1>8, <1>10, <2>6, <2>7
  <1> QED
    BY <1>11, <1>12, <1>13, <1>14, <1>15 DEF Reading

-----------------------------------------------------------------------------
(* A row is made: the reader had none, so nothing was stored for it.       *)
LEMMA NewRowKeepsReading ==
  ASSUME Reading, start = NoTime,
         NEW made \in 0 .. MaxTime + Second, NEW withGroup \in BOOLEAN,
         made <= clock + Late(withGroup),
         start' = made, founded' = withGroup,
         UNCHANGED <<clock, kind, messages, mine, request, page, shown, cursor, opened, stable>>,
         sending' \in 0 .. MaxSends
  PROVE  Reading'
  <1>1. TypeOK /\ Started /\ Ahead /\ Dated /\ SameRow /\ Covered
    BY DEF Reading
  <1>2. mine = {} /\ ~stable
    BY <1>1 DEF Dated, SameRow
  <1>3. made \in -1 .. MaxTime + Second
    BY TicksAssumption, BoundsAssumption
  <1>4. TypeOK'
    BY <1>1, <1>3 DEF TypeOK, Times
  <1>5. Started' /\ Ahead'
    BY <1>1 DEF Started, Ahead
  <1>6. Dated'
    BY <1>2 DEF Dated
  <1>7. SameRow' /\ Covered'
    BY <1>2 DEF SameRow, Covered
  <1> QED
    BY <1>4, <1>5, <1>6, <1>7 DEF Reading

(* The row made with the group, which may be dated into the future.        *)
LEMMA FoundRowKeepsReading ==
  ASSUME Reading, FoundRow
  PROVE  Reading'
  <1>1. clock \in Times /\ Second <= clock /\ sending \in 0 .. MaxSends
    BY DEF Reading, TypeOK, Started
  <1>2. /\ AsTimestamp(AsDate(clock)) \in 0 .. MaxTime + Second
        /\ AsTimestamp(AsDate(clock)) <= clock + Late(TRUE)
    BY <1>1, StartTimes DEF Late
  <1>3. /\ start = NoTime /\ start' = AsTimestamp(AsDate(clock)) /\ founded' = TRUE
        /\ UNCHANGED <<clock, kind, messages, mine, request, page, shown, cursor, opened, stable>>
        /\ sending' \in 0 .. MaxSends
    BY <1>1 DEF FoundRow, history
  <1> QED
    BY <1>2, <1>3, NewRowKeepsReading

(* findAndCreate of a sender, which makes the row if it is missing.        *)
LEMMA BeginSendKeepsReading ==
  ASSUME Reading, BeginSend
  PROVE  Reading'
  <1>1. TypeOK /\ Started /\ Ahead /\ Dated /\ SameRow /\ Covered
    BY DEF Reading
  <1>2. sending' \in 0 .. MaxSends
    <2>1. sending \in 0 .. MaxSends /\ sending < MaxSends /\ sending' = sending + 1
      BY <1>1 DEF TypeOK, BeginSend
    <2> QED
      BY <2>1, BoundsAssumption
  <1>3. UNCHANGED <<clock, kind, messages, mine, request, page, shown, cursor, opened, stable>>
    BY DEF BeginSend, history
  <1>4. CASE start = NoTime
    <2>1. start' = StartTime(clock) /\ founded' = FALSE
      BY <1>4 DEF BeginSend
    <2>2. clock \in Times /\ Second <= clock
      BY <1>1 DEF TypeOK, Started
    <2>3. StartTime(clock) \in 0 .. clock
      BY <2>2, StartTimes
    <2>4. StartTime(clock) \in 0 .. MaxTime + Second /\ StartTime(clock) <= clock + Late(FALSE)
      BY <2>2, <2>3, TicksAssumption, BoundsAssumption DEF Times, Late
    <2> QED
      BY <1>2, <1>3, <1>4, <2>1, <2>4, NewRowKeepsReading
  <1>5. CASE start # NoTime
    <2>1. UNCHANGED <<start, founded>>
      BY <1>5 DEF BeginSend
    <2>2. TypeOK'
      BY <1>1, <1>2, <1>3, <2>1 DEF TypeOK, Times
    <2>3. Started' /\ Ahead' /\ Dated' /\ SameRow'
      BY <1>1, <1>3, <2>1 DEF Started, Ahead, Dated, SameRow
    <2>4. Covered'
      BY <1>1, <1>3, <2>1 DEF Covered, Missing, Got, AsDate
    <2> QED
      BY <2>2, <2>3, <2>4 DEF Reading
  <1> QED
    BY <1>4, <1>5

(* A message that is stored is newer than any row but a founded one.       *)
LEMMA StoreMessageKeepsReading ==
  ASSUME Reading, StoreMessage
  PROVE  Reading'
  <1>1. TypeOK /\ Started /\ Ahead /\ Dated /\ SameRow /\ Covered
    BY DEF Reading
  <1>2. /\ sending' = sending - 1 /\ sending > 0
        /\ messages' = Append(messages, clock)
        /\ mine' = IF start = NoTime THEN mine ELSE mine \cup {Len(messages')}
        /\ UNCHANGED <<clock, kind, start, founded, request, page, shown, cursor, opened, stable>>
    BY DEF StoreMessage, history
  <1>3. messages \in Seq(Times) /\ clock \in Times
    BY <1>1 DEF TypeOK
  <1>4. /\ messages' \in Seq(Times)
        /\ Len(messages') = Len(messages) + 1 /\ Len(messages) \in Nat
        /\ DOMAIN messages = 1 .. Len(messages) /\ DOMAIN messages' = 1 .. Len(messages')
        /\ \A i \in DOMAIN messages : messages'[i] = messages[i]
        /\ messages'[Len(messages')] = clock
    BY <1>2, <1>3
  <1>5. /\ page \subseteq DOMAIN messages /\ shown \subseteq DOMAIN messages
        /\ mine \subseteq DOMAIN messages /\ 1 .. opened \subseteq DOMAIN messages
        /\ opened \in 0 .. Len(messages)
    <2>1. /\ page \subseteq DOMAIN messages /\ shown \subseteq DOMAIN messages
          /\ mine \subseteq DOMAIN messages /\ opened \in 0 .. Len(messages)
      BY <1>1 DEF TypeOK
    <2> QED
      BY <1>4, <2>1
  <1>6. TypeOK'
    <2>1. sending' \in 0 .. MaxSends
      <3>1. sending \in 0 .. MaxSends
        BY <1>1 DEF TypeOK
      <3> QED
        BY <1>2, <3>1, BoundsAssumption
    <2>2. DOMAIN messages \subseteq DOMAIN messages' /\ Len(messages') \in DOMAIN messages'
      BY <1>4
    <2>3. /\ page' \subseteq DOMAIN messages' /\ shown' \subseteq DOMAIN messages'
          /\ mine' \subseteq DOMAIN messages'
      BY <1>2, <1>5, <2>2
    <2>4. opened' \in 0 .. Len(messages')
      BY <1>2, <1>4, <1>5
    <2>5. messages' \in Seq(Times)
      BY <1>4
    <2> QED
      BY <1>1, <1>2, <2>1, <2>3, <2>4, <2>5 DEF TypeOK, Times
  <1>7. Started' /\ SameRow'
    BY <1>1, <1>2 DEF Started, SameRow
  <1>8. Ahead'
    <2>1. \A i \in page \cup shown : messages'[i] = messages[i]
      BY <1>4, <1>5
    <2> QED
      BY <1>1, <1>2, <2>1 DEF Ahead
  <1>9. Dated'
    <2>1. start = NoTime => mine' = {}
      BY <1>1, <1>2 DEF Dated
    <2>2. ASSUME start # NoTime, NEW i \in mine'
          PROVE  start <= messages'[i] + Late(founded)
      <3>1. /\ start <= clock + Late(founded)
            /\ \A j \in mine : start <= messages[j] + Late(founded)
        BY <1>1, <2>2 DEF Dated
      <3>2. i \in mine \/ i = Len(messages')
        BY <1>2, <2>2
      <3> QED
        BY <1>4, <1>5, <3>1, <3>2
    <2> QED
      BY <1>1, <1>2, <2>1, <2>2 DEF Dated
  <1>10. Covered'
    <2>1. \A i \in 1 .. opened : messages'[i] = messages[i]
      BY <1>4, <1>5
    <2>2. \A j \in Got : messages'[j] = messages[j]
      BY <1>4, <1>5 DEF Got
    <2>3. Got' = Got
      BY <1>2 DEF Got
    <2>4. SUFFICES ASSUME kind = "group", stable, request.at # "first",
                          NEW i \in 1 .. opened, Missing(i)'
                   PROVE  cursor # NoTime /\ messages'[i] < cursor
      BY <1>2 DEF Covered
    <2>5. Missing(i)
      BY <1>2, <2>1, <2>2, <2>3, <2>4 DEF Missing, AsDate
    <2> QED
      BY <1>1, <2>1, <2>4, <2>5 DEF Covered
  <1> QED
    BY <1>6, <1>7, <1>8, <1>9, <1>10 DEF Reading

(* The row is deleted: the reader has no stable row any more.              *)
LEMMA DeleteKeepsReading ==
  ASSUME Reading, DeleteConversation
  PROVE  Reading'
  <1>1. TypeOK /\ Started /\ Ahead /\ Dated /\ SameRow /\ Covered
    BY DEF Reading
  <1>2. /\ start' = NoTime /\ mine' = {} /\ stable' = FALSE
        /\ UNCHANGED <<clock, kind, messages, founded, sending, request, page, shown, cursor, opened>>
    BY DEF DeleteConversation
  <1>3. TypeOK'
    <2>1. start' \in -1 .. MaxTime + Second
      BY <1>2, TicksAssumption, BoundsAssumption DEF NoTime
    <2> QED
      BY <1>1, <1>2, <2>1 DEF TypeOK, Times
  <1>4. Started' /\ Ahead' /\ Dated' /\ SameRow' /\ Covered'
    BY <1>1, <1>2 DEF Started, Ahead, Dated, SameRow, Covered
  <1> QED
    BY <1>3, <1>4 DEF Reading

(* A reader opens the conversation.                                        *)
LEMMA FirstPageKeepsReading ==
  ASSUME Reading, FirstPage
  PROVE  Reading'
  <1>1. TypeOK /\ Started /\ Ahead /\ Dated /\ SameRow /\ Covered
    BY DEF Reading
  <1>2. /\ request' = [at |-> "first", start |-> start, limit |-> FirstLimit]
        /\ stable' = (start # NoTime)
        /\ UNCHANGED <<clock, kind, messages, start, mine, founded, sending, page, shown, cursor, opened>>
    BY DEF FirstPage, row
  <1>3. TypeOK'
    <2>1. request' \in [at : {"first", "older"}, start : -1 .. MaxTime + Second,
                        limit : Limits \cup {FirstLimit}]
      BY <1>1, <1>2 DEF TypeOK
    <2> QED
      BY <1>1, <1>2, <2>1 DEF TypeOK, Times
  <1>4. request'.at = "first" /\ request'.start = start
    BY <1>2
  <1>5. Started' /\ Ahead' /\ Dated' /\ SameRow' /\ Covered'
    BY <1>1, <1>2, <1>4 DEF Started, Ahead, Dated, SameRow, Covered
  <1> QED
    BY <1>3, <1>5 DEF Reading

(* A reader asks for an older page.                                        *)
LEMMA OlderPageKeepsReading ==
  ASSUME Reading, NEW limit \in Limits, NEW since,
         since \in {start, NoTime}, kind = "group" => since = start,
         OlderPage(limit, since)
  PROVE  Reading'
  <1>1. TypeOK /\ Started /\ Ahead /\ Dated /\ SameRow /\ Covered
    BY DEF Reading
  <1>2. /\ request = Idle /\ cursor # NoTime
        /\ request' = [at |-> "older", limit |-> limit, start |-> since]
        /\ UNCHANGED <<clock, kind, messages, start, mine, founded, sending, page, shown, cursor,
                       opened, stable>>
    BY DEF OlderPage, row, history
  <1>3. TypeOK'
    <2>1. since \in -1 .. MaxTime + Second
      <3>1. start \in -1 .. MaxTime + Second
        BY <1>1 DEF TypeOK
      <3> QED
        BY <3>1, TicksAssumption, BoundsAssumption DEF NoTime
    <2>2. request' \in [at : {"first", "older"}, start : -1 .. MaxTime + Second,
                        limit : Limits \cup {FirstLimit}]
      BY <1>2, <2>1
    <2> QED
      BY <1>1, <1>2, <2>2 DEF TypeOK, Times
  <1>4. request'.at = "older" /\ request'.start = since /\ request.at = "idle"
    BY <1>2 DEF Idle
  <1>5. Started' /\ Ahead' /\ Dated' /\ SameRow'
    BY <1>1, <1>2, <1>4 DEF Started, Ahead, Dated, SameRow
  <1>6. Covered'
    BY <1>1, <1>2, <1>4 DEF Covered, Missing, Got, AsDate
  <1> QED
    BY <1>3, <1>5, <1>6 DEF Reading

(* Time passes.                                                            *)
LEMMA TickKeepsReading ==
  ASSUME Reading, Tick
  PROVE  Reading'
  <1>1. TypeOK /\ Started /\ Ahead /\ Dated /\ SameRow /\ Covered
    BY DEF Reading
  <1>2. /\ clock < MaxTime /\ clock' = clock + 1
        /\ UNCHANGED <<kind, messages, start, mine, founded, sending, request, page, shown, cursor,
                       opened, stable>>
    BY DEF Tick, row, history
  <1>3. clock \in Times /\ start \in -1 .. MaxTime + Second
    BY <1>1 DEF TypeOK
  <1>4. clock' \in Times /\ clock <= clock' /\ clock \in Nat /\ clock' \in Nat /\ start \in Int
    BY <1>2, <1>3, TicksAssumption, BoundsAssumption DEF Times
  <1>5. TypeOK'
    BY <1>1, <1>2, <1>4 DEF TypeOK, Times
  <1>6. Started'
    BY <1>1, <1>4, TicksAssumption DEF Started
  <1>7. Ahead' /\ SameRow'
    BY <1>1, <1>2 DEF Ahead, SameRow
  <1>8. Dated'
    <2>1. Late(founded) \in Nat
      BY Halves DEF Late
    <2>2. start <= clock + Late(founded) => start <= clock' + Late(founded)
      BY <1>4, <2>1
    <2> QED
      BY <1>1, <1>2, <2>2 DEF Dated
  <1>9. Covered'
    BY <1>1, <1>2 DEF Covered, Missing, Got, AsDate
  <1> QED
    BY <1>5, <1>6, <1>7, <1>8, <1>9 DEF Reading

(* Reading is inductive.                                                   *)
LEMMA ReadingStep == Reading /\ [Next]_vars => Reading'
  <1> SUFFICES ASSUME Reading, [Next]_vars PROVE Reading'
    OBVIOUS
  <1>1. CASE FoundRow
    BY <1>1, FoundRowKeepsReading
  <1>2. CASE BeginSend
    BY <1>2, BeginSendKeepsReading
  <1>3. CASE StoreMessage
    BY <1>3, StoreMessageKeepsReading
  <1>4. CASE DeleteConversation
    BY <1>4, DeleteKeepsReading
  <1>5. CASE OpenChat \/ OpenGroup
    BY <1>5, FirstPageKeepsReading DEF OpenChat, OpenGroup
  <1>6. CASE \E limit \in Limits : OlderMessages(limit) \/ OlderMessagesGroup(limit)
    <2>1. PICK limit \in Limits : OlderMessages(limit) \/ OlderMessagesGroup(limit)
      BY <1>6
    <2>2. CASE OlderMessages(limit)
      BY <2>2, OlderPageKeepsReading DEF OlderMessages
    <2>3. CASE OlderMessagesGroup(limit)
      BY <2>3, OlderPageKeepsReading DEF OlderMessagesGroup
    <2> QED
      BY <2>1, <2>2, <2>3
  <1>7. CASE Answer
    BY <1>7, AnswerKeepsReading
  <1>8. CASE Tick
    BY <1>8, TickKeepsReading
  <1>9. CASE UNCHANGED vars
    <2>1. UNCHANGED <<clock, kind, messages, start, mine, founded, sending, request, page, shown,
                      cursor, opened, stable>>
      BY <1>9 DEF vars, row, history
    <2>2. TypeOK'
      BY <2>1 DEF Reading, TypeOK, Times
    <2>3. Started' /\ Ahead' /\ Dated' /\ SameRow'
      BY <2>1 DEF Reading, Started, Ahead, Dated, SameRow
    <2>4. Covered'
      BY <2>1 DEF Reading, Covered, Missing, Got, AsDate
    <2> QED
      BY <2>2, <2>3, <2>4 DEF Reading
  <1> QED
    BY <1>1, <1>2, <1>3, <1>4, <1>5, <1>6, <1>7, <1>8, <1>9 DEF Next

(* Reading is an invariant.                                                *)
LEMMA AlwaysReading == Spec => []Reading
  BY ReadingInit, ReadingStep, PTL DEF Spec

(* Type correctness, at every clock and with any pages.                    *)
THEOREM PagingTypes == Spec => []TypeOK
  <1>1. Reading => TypeOK
    BY DEF Reading
  <1> QED
    BY <1>1, AlwaysReading, PTL

(* No page repeats a message of an earlier one: every message that was     *)
(* answered is at least as new as the cursor of the page that ended there, *)
(* although the cursor has only milliseconds (getOlderMessages).           *)
THEOREM NoneTwice == Spec => []NoMessageTwice
  <1>1. Reading => NoMessageTwice
    BY DEF Reading, Ahead, NoMessageTwice
  <1> QED
    BY <1>1, AlwaysReading, PTL

(* The reader of a group who has followed the cursors to the end has got   *)
(* every message, but some of the millisecond in which a page ended        *)
(* (getMessagesByGroupId, getOlderMessagesGroup).                          *)
THEOREM PagesAreComplete == Spec => []OnlyMillisecondsAreLost
  <1>1. Reading => OnlyMillisecondsAreLost
    <2>1. SUFFICES ASSUME Reading, kind = "group", stable, request = Idle, cursor = NoTime,
                          NEW i \in (1 .. opened) \ (shown \cup page), messages[i] >= start
                   PROVE  \E j \in shown \cup page : AsDate(messages[j]) = AsDate(messages[i])
      BY DEF OnlyMillisecondsAreLost
    <2>2. messages[i] \in Nat /\ start \in Int
      <3>1. /\ messages \in Seq(Times) /\ opened \in 0 .. Len(messages)
            /\ start \in -1 .. MaxTime + Second
        BY <2>1 DEF Reading, TypeOK
      <3>2. Times \subseteq Nat
        BY BoundsAssumption DEF Times
      <3>3. DOMAIN messages = 1 .. Len(messages) /\ Len(messages) \in Nat
        BY <3>1
      <3>4. i \in DOMAIN messages
        BY <2>1, <3>1, <3>3
      <3>5. messages[i] \in Times
        BY <3>1, <3>4
      <3> QED
        BY <3>1, <3>2, <3>5, StartsAreWhole, Zenon
    <2>3. start <= messages[i]
      BY <2>1, <2>2
    <2>4. ~Missing(i)
      <3>1. request.at # "first"
        BY <2>1 DEF Idle
      <3> QED
        BY <2>1, <3>1 DEF Reading, Covered
    <2> QED
      BY <2>1, <2>3, <2>4 DEF Missing, Got
  <1> QED
    BY <1>1, AlwaysReading, PTL

(* The row a message makes is dated so that it hides neither that message  *)
(* nor any later one, wherever in a second it is made (findAndCreate).     *)
THEOREM NewOnesAreVisible == Spec => []NewMessagesAreVisible
  <1>1. Reading => NewMessagesAreVisible
    <2>1. SUFFICES ASSUME Reading, start # NoTime, ~founded, NEW i \in mine
                   PROVE  messages[i] >= start
      BY DEF NewMessagesAreVisible
    <2>2. /\ messages \in Seq(Times) /\ mine \subseteq DOMAIN messages
          /\ start \in -1 .. MaxTime + Second
      BY <2>1 DEF Reading, TypeOK
    <2>3. messages[i] \in Times
      BY <2>1, <2>2
    <2>4. messages[i] \in Nat /\ start \in Int
      BY <2>2, <2>3, TicksAssumption, BoundsAssumption DEF Times
    <2>5. start <= messages[i]
      <3>1. start <= messages[i] + 0
        BY <2>1 DEF Reading, Dated, Late
      <3> QED
        BY <2>4, <3>1
    <2> QED
      BY <2>4, <2>5
  <1> QED
    BY <1>1, AlwaysReading, PTL

(* The row made together with a group hides at most the half second that   *)
(* its date was rounded by, whatever the resolutions of the clocks         *)
(* (createAndSendEvent).                                                   *)
THEOREM FoundersMissHalfASecond == Spec => []FoundersMissLittle
  <1>1. Reading => FoundersMissLittle
    <2>1. SUFFICES ASSUME Reading, start # NoTime, founded, NEW i \in mine
                   PROVE  messages[i] + Second \div 2 >= start
      BY DEF FoundersMissLittle
    <2>2. /\ messages \in Seq(Times) /\ mine \subseteq DOMAIN messages
          /\ start \in -1 .. MaxTime + Second
      BY <2>1 DEF Reading, TypeOK
    <2>3. messages[i] \in Times
      BY <2>1, <2>2
    <2>4. messages[i] \in Nat /\ start \in Int /\ Second \div 2 \in Nat
      BY <2>2, <2>3, TicksAssumption, BoundsAssumption, Halves DEF Times
    <2>5. start <= messages[i] + Second \div 2
      BY <2>1 DEF Reading, Dated, Late
    <2> QED
      BY <2>4, <2>5
  <1> QED
    BY <1>1, AlwaysReading, PTL
=============================================================================
