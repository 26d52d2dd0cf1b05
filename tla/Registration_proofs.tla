------------------------- MODULE Registration_proofs -------------------------
(***************************************************************************)
(* Proofs about Registration, for any addresses, account names, slots and  *)
(* lifetimes with OtpTTL < PendingTTL, crashes, failed mails and           *)
(* overlapping registrations of one address included.                      *)
(*                                                                         *)
(* The argument is about addresses without an account.  For such an address*)
(* the two keys belong together (Fitting): a code that is there matches the*)
(* registration that is there, and dies before it; a request that is to    *)
(* store a registration finds none, or one that it overlaps; and a request *)
(* that checks a code holds a registration that matches every code that is *)
(* there or may still come.  An address with an account loses all this:    *)
(* keys of a later registration may be left over by a crash.  It does not  *)
(* matter any more, because the column email is unique.                    *)
(*                                                                         *)
(* To match is not transitive.  The invariant can do without, because the  *)
(* registrations that reach the cache between two deletions of newAccount  *)
(* have all found it empty, and so overlap each other, two by two.         *)
(***************************************************************************)
EXTENDS Registration, TLAPS

Storing == {"email", "cache", "store", "issue", "mail"}

(* Registrations of one address that are in progress overlap.              *)
AllMet ==
  \A s, t \in Slots :
    s # t /\ reqs[s].email = reqs[t].email /\ reqs[s].at \in Storing /\ reqs[t].at \in Storing
      => Matching(reqs[s].n, reqs[t].n)

(* What is there when a registration is to be stored is of this moment.    *)
FreshOrNone ==
  \A s \in Slots :
    At(s, "store") =>
      pending[reqs[s].email] = None \/ pending[reqs[s].email].left = PendingTTL

(* What a request may rely on while its address has no account.            *)
Held(q) ==
  LET e == q.email
  IN  /\ q.at \in {"store", "issue", "check"} /\ otp[e] # NoCode => Matching(otp[e].n, q.n)
      /\ q.at = "store" => pending[e] = None \/ Matching(pending[e].n, q.n)
      /\ q.at = "issue" =>
           pending[e] # None /\ Matching(pending[e].n, q.n) /\ pending[e].left = PendingTTL
      /\ q.at = "create" => Matching(q.code, q.n)
      /\ q.at \in {"check", "create"} =>
           /\ q.code # 0
           /\ pending[e] # None
           /\ \A t \in Slots :
                reqs[t].email = e /\ reqs[t].at \in {"store", "issue"} => Matching(q.n, reqs[t].n)
      /\ q.at \notin {"clear", "clearOtp"}

Fitting(e) ==
  /\ otp[e] # NoCode =>
       /\ pending[e] # None
       /\ Matching(otp[e].n, pending[e].n)
       /\ otp[e].left < pending[e].left
  /\ \A s \in Slots : reqs[s].email = e => Held(reqs[s])

AllFitting == \A e \in Emails : ~Registered(e) => Fitting(e)

Sound == TypeOK /\ AllMet /\ FreshOrNone /\ AllFitting /\ ConfirmedAsRegistered

-----------------------------------------------------------------------------
(* Matching goes both ways, and lasts.                                     *)
LEMMA MatchingBack ==
  ASSUME NEW n, NEW m, Matching(n, m)
  PROVE  Matching(m, n)
  <1>1. {n, m} = {m, n}
    OBVIOUS
  <1> QED
    BY <1>1 DEF Matching

LEMMA MatchingLasts ==
  ASSUME met \subseteq met', NEW n, NEW m, Matching(n, m)
  PROVE  Matching(n, m)'
  BY DEF Matching

(* Numbers are numbers of requests.                                        *)
LEMMA NumbersAreNumbers ==
  /\ 0 \in 0 .. MaxRequests /\ Numbers \subseteq 0 .. MaxRequests /\ 0 \notin Numbers
  /\ OtpTTL \in 1 .. OtpTTL /\ PendingTTL \in 1 .. PendingTTL
  BY TTLAssumption, BoundAssumption DEF Numbers

(* Nothing is there at the start.                                          *)
LEMMA SoundAtFirst == Init => Sound
  <1> SUFFICES ASSUME Init PROVE Sound
    OBVIOUS
  <1>1. TypeOK
    BY NumbersAreNumbers DEF Init, TypeOK
  <1>2. AllMet /\ FreshOrNone
    BY DEF Init, AllMet, FreshOrNone, Storing, Idle, At
  <1>3. AllFitting
    BY DEF Init, AllFitting, Fitting, Held, Idle
  <1> QED
    BY <1>1, <1>2, <1>3 DEF Sound, Init, ConfirmedAsRegistered

(* A slot that is busy holds a request.                                    *)
LEMMA BusySlots ==
  ASSUME TypeOK, NEW s \in Slots, reqs[s].at \in Places
  PROVE  /\ reqs[s] \in Request
         /\ reqs[s].email \in Emails /\ reqs[s].account \in Accounts
         /\ reqs[s].n \in Numbers /\ reqs[s].code \in 0 .. MaxRequests
  <1>1. reqs[s] # Idle
    BY DEF Places, Idle
  <1>2. reqs[s] \in Request
    BY <1>1 DEF TypeOK
  <1> QED
    BY <1>2 DEF Request

(* What a slot is given when a request goes on, or is answered.            *)
LEMMA NextPlace ==
  ASSUME TypeOK, NEW s \in Slots, reqs[s].at \in Places, NEW place \in Places,
         Goto(s, place) \/ Answer(s)
  PROVE  \E q \in Request \cup {Idle} :
           /\ reqs' = [reqs EXCEPT ![s] = q] /\ started' = started /\ met' = met
           /\ reqs' \in [Slots -> Request \cup {Idle}]
           /\ \A t \in Slots : reqs'[t] = IF t = s THEN q ELSE reqs[t]
           /\ Answer(s) => q = Idle
           /\ Goto(s, place) =>
                /\ q \in Request
                /\ q.at = place
                /\ q.email = reqs[s].email /\ q.account = reqs[s].account
                /\ q.n = reqs[s].n /\ q.code = reqs[s].code
  <1> DEFINE r == [reqs[s] EXCEPT !.at = place]
  <1>1. reqs[s] \in Request
    BY BusySlots
  <1>2. /\ r \in Request /\ r.at = place /\ r.email = reqs[s].email
        /\ r.account = reqs[s].account /\ r.n = reqs[s].n /\ r.code = reqs[s].code
    BY <1>1 DEF Request
  <1>3. r # Idle
    BY <1>2 DEF Idle, Places
  <1>4. CASE Goto(s, place)
    <2>1. reqs' = [reqs EXCEPT ![s] = r] /\ started' = started /\ met' = met
      BY <1>4 DEF Goto, Continue
    <2>2. ~Answer(s)
      <3>1. reqs'[s] = r
        BY <2>1 DEF TypeOK
      <3> QED
        BY <1>3, <3>1 DEF Answer, Continue, TypeOK
    <2> QED
      BY <1>2, <2>1, <2>2 DEF TypeOK
  <1>5. CASE Answer(s) /\ ~Goto(s, place)
    BY <1>5 DEF Answer, Continue, TypeOK
  <1> QED
    BY <1>4, <1>5

(* What a slot is given when a request comes in.                           *)
LEMMA FirstPlace ==
  ASSUME TypeOK, NEW s \in Slots, NEW q \in Request, Receive(s, q)
  PROVE  /\ reqs' \in [Slots -> Request \cup {Idle}]
         /\ \A t \in Slots : reqs'[t] = IF t = s THEN q ELSE reqs[t]
         /\ reqs[s] = Idle
         /\ started' \in 0 .. MaxRequests
  <1>1. started' \in 0 .. MaxRequests
    BY BoundAssumption DEF Receive, TypeOK
  <1> QED
    BY <1>1 DEF Receive, TypeOK

-----------------------------------------------------------------------------
(* Steps of requests that leave the rows and keys alone: what remains to be*)
(* said of the place the request goes to.                                  *)
LEMMA SoundIfOnlyReqs ==
  ASSUME Sound, NEW s \in Slots, NEW q \in Request \cup {Idle},
         UNCHANGED <<users, pending, otp>>, met \subseteq met',
         \A t \in Slots : reqs'[t] = IF t = s THEN q ELSE reqs[t],
         TypeOK',
         q.at \in Storing => \A t \in Slots :
           t # s /\ reqs[t].at \in Storing /\ reqs[t].email = q.email =>
             Matching(q.n, reqs[t].n)',
         q.at = "store" => pending[q.email] = None,
         q # Idle /\ ~Registered(q.email) => q.at # "issue" /\ Held(q)'
  PROVE  Sound'
  <1>1. AllMet'
    <2> SUFFICES ASSUME NEW t \in Slots, NEW v \in Slots, t # v, reqs'[t].email = reqs'[v].email,
                        reqs'[t].at \in Storing, reqs'[v].at \in Storing
                 PROVE  Matching(reqs[t].n, reqs[v].n)'
      BY DEF AllMet
    <2>1. CASE t # s /\ v # s
      <3>1. Matching(reqs[t].n, reqs[v].n)
        BY <2>1 DEF Sound, AllMet
      <3> QED
        BY <2>1, <3>1, MatchingLasts
    <2>2. CASE t = s
      BY <2>2
    <2>3. CASE v = s
      <3>1. Matching(reqs[v].n, reqs[t].n)'
        BY <2>3
      <3>2. {reqs'[v].n, reqs'[t].n} = {reqs'[t].n, reqs'[v].n}
        OBVIOUS
      <3> QED
        BY <3>1, <3>2 DEF Matching
    <2> QED
      BY <2>1, <2>2, <2>3
  <1>2. FreshOrNone'
    BY DEF Sound, FreshOrNone, At
  <1>3. AllFitting'
    <2> SUFFICES ASSUME NEW e \in Emails, ~Registered(e)
                 PROVE  Fitting(e)'
      BY DEF AllFitting, Registered
    <2>1. Fitting(e)
      BY DEF Sound, AllFitting
    <2>2. ASSUME NEW t \in Slots, reqs'[t].email = e
          PROVE  Held(reqs[t])'
      <3>1. CASE t # s
        <4>1. Held(reqs[t]) /\ reqs'[t] = reqs[t]
          BY <2>1, <2>2, <3>1 DEF Fitting
        <4>2. ASSUME reqs[t].at \in {"check", "create"}, NEW v \in Slots,
                     reqs'[v].email = e, reqs'[v].at \in {"store", "issue"}
              PROVE  Matching(reqs[t].n, reqs[v].n)'
          <5>1. pending[e] # None
            BY <2>2, <4>1, <4>2 DEF Held
          <5>2. v # s
            BY <4>2, <5>1 DEF Idle
          <5> QED
            BY <2>2, <4>1, <4>2, <5>2, MatchingLasts DEF Held
        <4>3. \A n, m : Matching(n, m) => Matching(n, m)'
          BY MatchingLasts
        <4> QED
          BY <2>2, <4>1, <4>2, <4>3 DEF Held
      <3>2. CASE t = s /\ q # Idle
        BY <2>2, <3>2
      <3>3. CASE t = s /\ q = Idle
        BY <3>3 DEF Held, Idle
      <3> QED
        BY <3>1, <3>2, <3>3
    <2> QED
      BY <2>1, <2>2, MatchingLasts DEF Fitting
  <1>4. ConfirmedAsRegistered'
    BY MatchingLasts DEF Sound, ConfirmedAsRegistered
  <1> QED
    BY <1>1, <1>2, <1>3, <1>4 DEF Sound

(* A registration and a confirmation come in.                              *)
LEMMA ReceivedSound ==
  ASSUME Sound, NEW s \in Slots, NEW e \in Emails,
         \/ \E a \in Accounts : Register(s, e, a)
         \/ \E n \in Numbers : VerifyOTP(s, e, n)
  PROVE  Sound'
  <1> USE DEF Sound
  <1>1. ASSUME NEW a \in Accounts, Register(s, e, a)
        PROVE  Sound'
    <2>0. PICK q : q = [at |-> "email", email |-> e, account |-> a, n |-> started + 1, code |-> 0]
      OBVIOUS
    <2>1. started + 1 \in Numbers
      BY <1>1, BoundAssumption DEF Register, Receive, TypeOK, Numbers
    <2>2. q \in Request
      BY <2>0, <2>1, NumbersAreNumbers DEF Request, Places
    <2>3. /\ Receive(s, q) /\ UNCHANGED store
          /\ met' = met \cup {{reqs[t].n, started + 1} : t \in Registering(e)}
      BY <1>1, <2>0 DEF Register
    <2>4. \A t \in Registering(e) : t \in Slots /\ reqs[t].n \in Numbers
      BY BusySlots DEF Registering, Places
    <2>5. met' \in SUBSET (SUBSET Numbers)
      BY <2>1, <2>3, <2>4 DEF TypeOK
    <2>6. TypeOK'
      BY <2>2, <2>3, <2>5, FirstPlace DEF TypeOK, store
    <2>7. \A t \in Slots : reqs'[t] = IF t = s THEN q ELSE reqs[t]
      BY <2>2, <2>3, FirstPlace
    <2>8. q.at = "email" /\ q.email = e /\ q.n = started + 1
      BY <2>0
    <2>9. ASSUME NEW t \in Slots, t # s, reqs[t].at \in Storing, reqs[t].email = e
          PROVE  Matching(q.n, reqs[t].n)'
      <3>1. {reqs[t].n, q.n} \in met'
        BY <2>3, <2>8, <2>9 DEF Registering, Storing
      <3>2. {reqs[t].n, q.n} = {q.n, reqs[t].n} /\ reqs'[t] = reqs[t]
        BY <2>7, <2>9
      <3>3. {q.n, reqs'[t].n} \in met'
        BY <3>1, <3>2
      <3> QED
        BY <3>3 DEF Matching
    <2>10. Held(q)'
      BY <2>8 DEF Held
    <2> QED
      BY <2>2, <2>3, <2>6, <2>7, <2>8, <2>9, <2>10, SoundIfOnlyReqs DEF store
  <1>2. ASSUME NEW n \in Numbers, VerifyOTP(s, e, n)
        PROVE  Sound'
    <2>0. PICK q : q = [at |-> "check", email |-> e, account |-> pending[e].account,
                        n |-> pending[e].n, code |-> n]
      OBVIOUS
    <2>1. pending[e].n \in Numbers /\ pending[e].account \in Accounts
      BY <1>2 DEF VerifyOTP, TypeOK
    <2>2. q \in Request
      BY <2>0, <2>1, NumbersAreNumbers DEF Request, Places
    <2>3. Receive(s, q) /\ UNCHANGED <<store, met>> /\ pending[e] # None
      BY <1>2, <2>0 DEF VerifyOTP
    <2>4. TypeOK'
      BY <2>2, <2>3, FirstPlace DEF TypeOK, store
    <2>5. \A t \in Slots : reqs'[t] = IF t = s THEN q ELSE reqs[t]
      BY <2>2, <2>3, FirstPlace
    <2>6. /\ q.at = "check" /\ q.at \notin Storing /\ q.email = e /\ q.n = pending[e].n
          /\ q.code # 0
      BY <2>0, NumbersAreNumbers DEF Storing
    <2>7. ASSUME ~Registered(e)
          PROVE  Held(q)'
      <3>1. Fitting(e)
        BY <2>7 DEF AllFitting
      <3>2. otp[e] # NoCode => Matching(otp[e].n, q.n)
        BY <2>6, <3>1 DEF Fitting
      <3>3. ASSUME NEW t \in Slots, reqs'[t].email = e, reqs'[t].at \in {"store", "issue"}
            PROVE  Matching(q.n, reqs'[t].n)
        <4>1. reqs'[t] = reqs[t]
          BY <2>5, <2>6, <3>3
        <4> QED
          BY <2>3, <2>6, <3>1, <3>3, <4>1 DEF Fitting, Held
      <3> QED
        BY <2>3, <2>6, <3>2, <3>3 DEF Held, Matching, store
    <2> QED
      BY <2>2, <2>3, <2>4, <2>5, <2>6, <2>7, SoundIfOnlyReqs DEF store
  <1> QED
    BY <1>1, <1>2

(* The reads of register and verifyOTP, and the queueing of the mail.      *)
LEMMA ReadsSound ==
  ASSUME Sound, NEW s \in Slots,
         CheckEmail(s) \/ CheckCache(s) \/ QueueMail(s) \/ CheckCode(s)
  PROVE  Sound'
  <1> USE DEF Sound
  <1>0. reqs[s].at \in {"email", "cache", "mail", "check"} /\ reqs[s].at \in Places
    BY DEF CheckEmail, CheckCache, QueueMail, CheckCode, At, Places
  <1>1. PICK place \in {"cache", "store", "create"} :
          /\ Goto(s, place) \/ Answer(s)
          /\ place = "cache" => At(s, "email")
          /\ place = "store" => At(s, "cache") /\ (Answer(s) \/ pending[reqs[s].email] = None)
          /\ place = "create" => \/ Answer(s)
                                 \/ At(s, "check") /\ otp[reqs[s].email].n = reqs[s].code
    BY DEF CheckEmail, CheckCache, QueueMail, CheckCode
  <1>2. place \in Places
    BY <1>1 DEF Places
  <1>3. PICK q \in Request \cup {Idle} :
          /\ reqs' \in [Slots -> Request \cup {Idle}] /\ started' = started /\ met' = met
          /\ \A t \in Slots : reqs'[t] = IF t = s THEN q ELSE reqs[t]
          /\ Answer(s) => q = Idle
          /\ Goto(s, place) => /\ q \in Request /\ q.at = place
                               /\ q.email = reqs[s].email /\ q.account = reqs[s].account
                               /\ q.n = reqs[s].n /\ q.code = reqs[s].code
    BY <1>0, <1>1, <1>2, NextPlace
  <1>4. UNCHANGED <<users, pending, otp, inbox>>
    BY DEF CheckEmail, CheckCache, QueueMail, CheckCode, store
  <1>5. queue' \in SUBSET (Emails \X Numbers)
    BY <1>0, BusySlots DEF CheckEmail, CheckCache, QueueMail, CheckCode, store, TypeOK
  <1>6. TypeOK'
    BY <1>3, <1>4, <1>5 DEF TypeOK
  <1>7. CASE Answer(s)
    <2>1. q = Idle /\ q.at \notin Storing /\ q.at # "store"
      BY <1>3, <1>7 DEF Idle, Storing
    <2> QED
      BY <1>3, <1>4, <1>6, <2>1, SoundIfOnlyReqs
  <1>8. CASE Goto(s, place) /\ ~Answer(s)
    <2>1. /\ q.at = place /\ q.email = reqs[s].email
          /\ q.n = reqs[s].n /\ q.code = reqs[s].code
          /\ reqs[s].email \in Emails /\ reqs[s].n \in Numbers
      BY <1>0, <1>3, <1>8, BusySlots
    <2>2. q.at \in Storing => reqs[s].at \in Storing
      BY <1>1, <2>1 DEF Storing, At
    <2>3. ASSUME q.at \in Storing, NEW t \in Slots, t # s, reqs[t].at \in Storing,
                 reqs[t].email = q.email
          PROVE  Matching(q.n, reqs[t].n)'
      BY <1>3, <2>1, <2>2, <2>3 DEF AllMet, Matching
    <2>4. q.at = "store" => pending[q.email] = None
      BY <1>1, <1>8, <2>1
    <2>5. ASSUME ~Registered(q.email)
          PROVE  Held(q)'
      <3>1. Fitting(q.email)
        BY <2>1, <2>5 DEF AllFitting
      <3>2. Held(reqs[s])
        BY <2>1, <3>1 DEF Fitting
      <3>3. CASE place = "cache"
        BY <2>1, <3>3 DEF Held
      <3>4. CASE place = "store"
        <4>1. otp[q.email] = NoCode /\ pending[q.email] = None
          BY <2>1, <2>4, <3>1, <3>4 DEF Fitting
        <4> QED
          BY <1>4, <2>1, <3>4, <4>1 DEF Held
      <3>5. CASE place = "create"
        <4>1. At(s, "check") /\ otp[q.email].n = q.code /\ q.code # 0
          BY <1>1, <1>8, <2>1, <3>2, <3>5 DEF Held, At
        <4>2. Matching(q.code, q.n)
          <5>1. otp[q.email] # NoCode
            BY <4>1 DEF NoCode
          <5> QED
            BY <2>1, <3>2, <4>1, <5>1 DEF Held, At
        <4>3. ASSUME NEW t \in Slots, reqs'[t].email = q.email, reqs'[t].at \in {"store", "issue"}
              PROVE  Matching(q.n, reqs'[t].n)
          <5>1. reqs'[t] = reqs[t]
            BY <1>3, <2>1, <3>5, <4>3
          <5> QED
            BY <2>1, <3>2, <4>1, <4>3, <5>1 DEF Held, At
        <4>4. pending[q.email] # None
          BY <2>1, <3>2, <4>1 DEF Held, At
        <4> QED
          BY <1>3, <1>4, <2>1, <3>5, <4>1, <4>2, <4>3, <4>4 DEF Held, Matching
      <3> QED
        BY <3>3, <3>4, <3>5
    <2> QED
      BY <1>3, <1>4, <1>6, <2>1, <2>3, <2>4, <2>5, SoundIfOnlyReqs
  <1> QED
    BY <1>1, <1>7, <1>8

-----------------------------------------------------------------------------
(* A later step of a request keeps the types.                              *)
LEMMA WritesTyped ==
  ASSUME Sound, NEW s \in Slots,
         StorePending(s) \/ IssueOtp(s) \/ CreateUser(s) \/ ClearPending(s) \/ ClearOtp(s)
  PROVE  TypeOK'
  <1> DEFINE r == reqs[s]
  <1> USE DEF Sound
  <1>0. r.at \in Places
    BY DEF StorePending, IssueOtp, Issued, CreateUser, ClearPending, ClearOtp, At, Places
  <1>1. r.email \in Emails /\ r.account \in Accounts /\ r.n \in Numbers /\ r.code \in 0 .. MaxRequests
    BY <1>0, BusySlots
  <1>2. reqs' \in [Slots -> Request \cup {Idle}] /\ started' = started /\ met' = met
    <2>1. \E place \in Places : Goto(s, place) \/ Answer(s)
      BY DEF StorePending, IssueOtp, Issued, CreateUser, ClearPending, ClearOtp, Places
    <2> QED
      BY <1>0, <2>1, NextPlace
  <1>3. CASE StorePending(s)
    <2>1. [n |-> r.n, left |-> PendingTTL, account |-> r.account]
            \in [n : Numbers, left : 1 .. PendingTTL, account : Accounts]
      BY <1>1, NumbersAreNumbers
    <2> QED
      BY <1>2, <1>3, <2>1 DEF StorePending, TypeOK
  <1>4. CASE IssueOtp(s)
    <2>1. [n |-> r.n, left |-> OtpTTL] \in [n : Numbers, left : 1 .. OtpTTL]
      BY <1>1, NumbersAreNumbers
    <2> QED
      BY <1>2, <1>4, <2>1 DEF IssueOtp, Issued, TypeOK
  <1>5. CASE ClearPending(s) \/ ClearOtp(s)
    BY <1>2, <1>5 DEF ClearPending, ClearOtp, TypeOK
  <1>6. CASE CreateUser(s)
    <2>1. ~Registered(r.email) => r.code \in Numbers
      BY <1>1, <1>6, BoundAssumption DEF CreateUser, AllFitting, Fitting, Held, At, Numbers
    <2>2. users' \in SUBSET [email : Emails, account : Accounts, n : Numbers, code : Numbers]
      BY <1>1, <1>6, <2>1 DEF CreateUser, TypeOK
    <2> QED
      BY <1>2, <1>6, <2>2 DEF CreateUser, TypeOK
  <1> QED
    BY <1>3, <1>4, <1>5, <1>6

(* What the requests that write have in common: the request that goes on   *)
(* registers what it registered before, and the others stay where they are.*)
LEMMA StillMet ==
  ASSUME Sound, NEW s \in Slots, reqs[s].at \in Places, NEW place \in Places \ {"store"},
         Goto(s, place) \/ Answer(s), place \in Storing => reqs[s].at \in Storing
  PROVE  /\ AllMet'
         /\ met' = met
         /\ \A t \in Slots : t # s => reqs'[t] = reqs[t]
         /\ ~At(s, "store")'
         /\ \/ reqs'[s] = Idle
            \/ /\ reqs'[s].at = place /\ reqs'[s].email = reqs[s].email
               /\ reqs'[s].n = reqs[s].n /\ reqs'[s].code = reqs[s].code
  <1>1. PICK q \in Request \cup {Idle} :
          /\ \A t \in Slots : reqs'[t] = IF t = s THEN q ELSE reqs[t]
          /\ met' = met
          /\ Answer(s) => q = Idle
          /\ Goto(s, place) => /\ q.at = place /\ q.email = reqs[s].email
                               /\ q.n = reqs[s].n /\ q.code = reqs[s].code
    BY NextPlace DEF Sound
  <1>2. q.at \in Storing =>
          reqs[s].at \in Storing /\ q.email = reqs[s].email /\ q.n = reqs[s].n
    BY <1>1 DEF Idle, Storing
  <1>3. AllMet'
    BY <1>1, <1>2 DEF Sound, AllMet, Matching
  <1>4. q.at # "store"
    BY <1>1 DEF Idle
  <1> QED
    BY <1>1, <1>3, <1>4 DEF At

(* Of an address that a step of a request does not touch, all stays true.  *)
LEMMA FittingElsewhere ==
  ASSUME NEW s \in Slots, NEW e, Fitting(e), met' = met,
         pending'[e] = pending[e], otp'[e] = otp[e],
         \A t \in Slots : t # s => reqs'[t] = reqs[t],
         reqs'[s] = Idle \/ reqs'[s].email # e
  PROVE  Fitting(e)'
  <1>1. \A n, m : Matching(n, m)' <=> Matching(n, m)
    BY DEF Matching
  <1>2. ASSUME NEW t \in Slots, reqs'[t].email = e, t # s
        PROVE  Held(reqs[t])'
    <2>1. Held(reqs[t]) /\ reqs'[t] = reqs[t] /\ reqs[t].email = e
      BY <1>2 DEF Fitting
    <2>2. ASSUME NEW v \in Slots, reqs'[v].email = e, reqs'[v].at \in {"store", "issue"}
          PROVE  reqs'[v] = reqs[v]
      BY <2>2 DEF Idle
    <2> QED
      BY <1>1, <2>1, <2>2 DEF Held
  <1>3. reqs'[s].email = e => Held(reqs[s])'
    BY DEF Held, Idle
  <1> QED
    BY <1>1, <1>2, <1>3 DEF Fitting

(* The registration is stored: what was there matches it, and the others   *)
(* that are to be stored do, too.                                          *)
LEMMA StoredSound ==
  ASSUME Sound, NEW s \in Slots, StorePending(s)
  PROVE  Sound'
  <1> DEFINE r == reqs[s]
  <1> USE DEF Sound
  <1>0. /\ r.at = "store" /\ r.at \in Places /\ r.at \in Storing
        /\ Goto(s, "issue") /\ "issue" \in Places \ {"store"}
    BY DEF StorePending, At, Places, Storing
  <1>1. r.email \in Emails /\ r.n \in Numbers
    BY <1>0, BusySlots
  <1>2. /\ \A t \in Slots : t # s => reqs'[t] = reqs[t]
        /\ reqs'[s].at = "issue" /\ reqs'[s].email = r.email /\ reqs'[s].n = r.n
        /\ met' = met
    BY <1>0, NextPlace
  <1>3. AllMet'
    BY <1>0, StillMet
  <1>4. /\ UNCHANGED <<users, otp>>
        /\ pending'[r.email].n = r.n /\ pending'[r.email].left = PendingTTL
        /\ pending'[r.email] # None
        /\ \A e \in Emails : e # r.email => pending'[e] = pending[e]
    BY <1>1, NumbersAreNumbers DEF StorePending, TypeOK, None
  <1>5. FreshOrNone'
    <2> SUFFICES ASSUME NEW t \in Slots, At(t, "store")'
                 PROVE  pending'[reqs'[t].email] = None \/ pending'[reqs'[t].email].left = PendingTTL
      BY DEF FreshOrNone
    <2>1. t # s /\ reqs'[t] = reqs[t] /\ reqs[t].at = "store"
      BY <1>2 DEF At
    <2>2. reqs[t].email \in Emails
      BY <2>1, BusySlots DEF Places
    <2> QED
      BY <1>4, <2>1, <2>2 DEF FreshOrNone, At
  <1>6. ASSUME NEW e \in Emails, ~Registered(e)
        PROVE  Fitting(e)'
    <2>1. Fitting(e)
      BY <1>6 DEF AllFitting
    <2>2. CASE e # r.email
      BY <1>2, <1>4, <2>1, <2>2, FittingElsewhere
    <2>3. CASE e = r.email
      <3>1. Held(r)
        BY <2>1, <2>3 DEF Fitting
      <3>2. otp[e] # NoCode => Matching(otp[e].n, r.n) /\ otp[e].left < PendingTTL
        <4>1. otp[e] # NoCode => otp[e].left \in 1 .. OtpTTL
          BY DEF TypeOK
        <4> QED
          BY <1>0, <2>3, <3>1, <4>1, TTLAssumption DEF Held
      <3>3. ASSUME NEW t \in Slots, t # s, reqs[t].email = e
            PROVE  Held(reqs[t])'
        <4>1. Held(reqs[t])
          BY <2>1, <3>3 DEF Fitting
        <4>2. reqs[t].at \in {"store", "issue"} => Matching(r.n, reqs[t].n)
          BY <1>0, <2>3, <3>3 DEF AllMet, Storing
        <4>3. reqs[t].at \in {"check", "create"} => Matching(reqs[t].n, r.n)
          BY <1>0, <2>3, <3>3, <4>1 DEF Held
        <4>4. ASSUME NEW v \in Slots, reqs'[v].email = e, reqs'[v].at \in {"store", "issue"}
              PROVE  /\ reqs[v].email = e /\ reqs[v].at \in {"store", "issue"}
                     /\ reqs'[v].n = reqs[v].n
          BY <1>0, <1>2, <2>3, <4>4
        <4>5. \A n, m : Matching(n, m)' <=> Matching(n, m)
          BY <1>2 DEF Matching
        <4> QED
          BY <1>2, <1>4, <2>3, <3>3, <4>1, <4>2, <4>3, <4>4, <4>5 DEF Held
      <3>4. Held(reqs[s])'
        <4>1. \A n, m : Matching(n, m)' <=> Matching(n, m)
          BY <1>2 DEF Matching
        <4>2. otp'[e] # NoCode => Matching(otp'[e].n, r.n)
          BY <1>4, <3>2
        <4>3. Matching(r.n, r.n)
          BY DEF Matching
        <4> QED
          BY <1>2, <1>4, <2>3, <4>1, <4>2, <4>3 DEF Held
      <3> QED
        BY <1>2, <1>4, <2>3, <3>2, <3>3, <3>4 DEF Fitting, Matching
    <2> QED
      BY <2>2, <2>3
  <1>7. AllFitting'
    BY <1>4, <1>6 DEF AllFitting, Registered
  <1> QED
    BY <1>2, <1>3, <1>4, <1>5, <1>7, WritesTyped DEF ConfirmedAsRegistered, Matching

(* The code is issued: it matches the registration that is stored.         *)
LEMMA IssuedSound ==
  ASSUME Sound, NEW s \in Slots, IssueOtp(s)
  PROVE  Sound'
  <1> DEFINE r == reqs[s]
  <1> USE DEF Sound
  <1>0. /\ r.at = "issue" /\ r.at \in Places /\ r.at \in Storing
        /\ Goto(s, "mail") /\ "mail" \in Places \ {"store"}
    BY DEF IssueOtp, Issued, At, Places, Storing
  <1>1. r.email \in Emails /\ r.n \in Numbers
    BY <1>0, BusySlots
  <1>2. /\ \A t \in Slots : t # s => reqs'[t] = reqs[t]
        /\ reqs'[s].at = "mail" /\ reqs'[s].email = r.email /\ met' = met
    BY <1>0, NextPlace
  <1>3. AllMet'
    BY <1>0, StillMet
  <1>4. /\ UNCHANGED <<users, pending>>
        /\ otp'[r.email].n = r.n /\ otp'[r.email].left = OtpTTL
        /\ \A e \in Emails : e # r.email => otp'[e] = otp[e]
    BY <1>1 DEF IssueOtp, Issued, TypeOK
  <1>5. FreshOrNone'
    BY <1>2, <1>4 DEF FreshOrNone, At
  <1>6. ASSUME NEW e \in Emails, ~Registered(e)
        PROVE  Fitting(e)'
    <2>1. Fitting(e)
      BY <1>6 DEF AllFitting
    <2>2. CASE e # r.email
      BY <1>2, <1>4, <2>1, <2>2, FittingElsewhere
    <2>3. CASE e = r.email
      <3>1. pending[e] # None /\ Matching(pending[e].n, r.n) /\ pending[e].left = PendingTTL
        BY <1>0, <2>1, <2>3 DEF Fitting, Held
      <3>2. /\ Matching(otp'[e].n, pending[e].n)
            /\ otp'[e].left < pending[e].left
        BY <1>4, <2>3, <3>1, TTLAssumption, MatchingBack
      <3>3. ASSUME NEW t \in Slots, t # s, reqs[t].email = e
            PROVE  Held(reqs[t])'
        <4>1. Held(reqs[t])
          BY <2>1, <3>3 DEF Fitting
        <4>2. reqs[t].at \in {"store", "issue"} => Matching(r.n, reqs[t].n)
          BY <1>0, <2>3, <3>3 DEF AllMet, Storing
        <4>3. reqs[t].at = "check" => Matching(r.n, reqs[t].n)
          <5>1. reqs[t].at = "check" => Matching(reqs[t].n, r.n)
            BY <1>0, <2>3, <3>3, <4>1 DEF Held
          <5> QED
            BY <5>1, MatchingBack
        <4> QED
          <5>1. ASSUME NEW v \in Slots, reqs'[v].email = e, reqs'[v].at \in {"store", "issue"}
                PROVE  reqs'[v] = reqs[v]
            BY <1>2, <5>1
          <5>2. \A n, m : Matching(n, m)' <=> Matching(n, m)
            BY <1>2 DEF Matching
          <5> QED
            BY <1>2, <1>4, <2>3, <3>3, <4>1, <4>2, <4>3, <5>1, <5>2 DEF Held
      <3>4. Held(reqs[s])'
        BY <1>2 DEF Held
      <3> QED
        BY <1>2, <1>4, <3>1, <3>2, <3>3, <3>4 DEF Fitting, Matching
    <2> QED
      BY <2>2, <2>3
  <1>7. AllFitting'
    BY <1>4, <1>6 DEF AllFitting, Registered
  <1> QED
    BY <1>2, <1>3, <1>4, <1>5, <1>7, WritesTyped DEF ConfirmedAsRegistered, Matching

(* The account is created, of data that its code matches; or it is not,    *)
(* and nothing happens.                                                    *)
LEMMA CreatedSound ==
  ASSUME Sound, NEW s \in Slots, CreateUser(s)
  PROVE  Sound'
  <1> DEFINE r == reqs[s]
  <1> USE DEF Sound
  <1>0. /\ r.at = "create" /\ r.at \in Places /\ (Goto(s, "clear") \/ Answer(s))
        /\ "clear" \in Places \ {"store"} /\ "clear" \notin Storing
    BY DEF CreateUser, At, Places, Storing
  <1>1. r.email \in Emails /\ r.n \in Numbers
    BY <1>0, BusySlots
  <1>2. /\ \A t \in Slots : t # s => reqs'[t] = reqs[t]
        /\ reqs'[s] = Idle \/ (reqs'[s].at = "clear" /\ reqs'[s].email = r.email)
        /\ Answer(s) => reqs'[s] = Idle
        /\ AllMet' /\ met' = met /\ ~At(s, "store")'
    <2>1. Answer(s) => reqs'[s] = Idle
      BY DEF Answer, Continue, TypeOK
    <2>2. "clear" \in Places \ {"store"} /\ ("clear" \in Storing => r.at \in Storing)
      BY <1>0
    <2>3. Goto(s, "clear") \/ Answer(s)
      BY <1>0
    <2> QED
      BY <1>0, <2>1, <2>2, <2>3, StillMet
  <1>3. UNCHANGED <<pending, otp>> /\ users \subseteq users'
    BY DEF CreateUser
  <1>4. FreshOrNone'
    BY <1>2, <1>3 DEF FreshOrNone, At
  <1>5. Answer(s) \/ \E u \in users' : u.email = r.email
    <2> DEFINE u == [email |-> r.email, account |-> r.account, n |-> r.n, code |-> r.code]
    <2>1. Answer(s) \/ u \in users'
      BY DEF CreateUser
    <2>2. u.email = r.email
      OBVIOUS
    <2> QED
      BY <2>1, <2>2
  <1>6. ASSUME NEW e \in Emails, ~(Registered(e)')
        PROVE  Fitting(e)'
    <2>1. Fitting(e)
      BY <1>3, <1>6 DEF AllFitting, Registered
    <2>2. reqs'[s] = Idle \/ reqs'[s].email # e
      BY <1>2, <1>5, <1>6 DEF Registered
    <2> QED
      BY <1>2, <1>3, <1>6, <2>1, <2>2, FittingElsewhere
  <1>7. AllFitting'
    BY <1>6 DEF AllFitting
  <1>8. ConfirmedAsRegistered'
    <2>1. ~Registered(r.email) => Matching(r.code, r.n)
      BY <1>0, <1>1 DEF AllFitting, Fitting, Held
    <2>2. \A n, m : Matching(n, m)' <=> Matching(n, m)
      BY <1>2 DEF Matching
    <2> QED
      BY <2>1, <2>2 DEF CreateUser, ConfirmedAsRegistered
  <1> QED
    BY <1>2, <1>4, <1>7, <1>8, WritesTyped

(* Keys are deleted, of an address that has an account.                    *)
LEMMA ClearedSound ==
  ASSUME Sound, NEW s \in Slots, ClearPending(s) \/ ClearOtp(s)
  PROVE  Sound'
  <1> DEFINE r == reqs[s]
  <1> USE DEF Sound
  <1>0. /\ r.at \in {"clear", "clearOtp"} /\ r.at \in Places
        /\ "clearOtp" \in Places \ {"store"} /\ "clearOtp" \notin Storing
        /\ Goto(s, "clearOtp") \/ Answer(s)
    BY DEF ClearPending, ClearOtp, At, Places, Storing
  <1>1. r.email \in Emails
    BY <1>0, BusySlots
  <1>2. /\ \A t \in Slots : t # s => reqs'[t] = reqs[t]
        /\ reqs'[s] = Idle \/ (reqs'[s].at = "clearOtp" /\ reqs'[s].email = r.email)
        /\ AllMet' /\ met' = met /\ ~At(s, "store")'
    <2>1. "clearOtp" \in Places \ {"store"} /\ ("clearOtp" \in Storing => r.at \in Storing)
      BY <1>0
    <2>2. Goto(s, "clearOtp") \/ Answer(s)
      BY <1>0
    <2> QED
      BY <1>0, <2>1, <2>2, StillMet
  <1>3. /\ users' = users
        /\ \A e \in Emails : e # r.email => pending'[e] = pending[e] /\ otp'[e] = otp[e]
        /\ \A e \in Emails : pending'[e] \in {pending[e], None}
    BY DEF ClearPending, ClearOtp, TypeOK
  <1>4. FreshOrNone'
    <2> SUFFICES ASSUME NEW t \in Slots, At(t, "store")'
                 PROVE  pending'[reqs'[t].email] = None \/ pending'[reqs'[t].email].left = PendingTTL
      BY DEF FreshOrNone
    <2>1. reqs'[t] = reqs[t] /\ reqs[t].at = "store"
      BY <1>2 DEF At
    <2>2. reqs[t].email \in Emails
      BY <2>1, BusySlots DEF Places
    <2> QED
      BY <1>3, <2>1, <2>2 DEF FreshOrNone, At
  <1>5. ASSUME NEW e \in Emails, ~Registered(e)
        PROVE  Fitting(e)'
    <2>1. Fitting(e)
      BY <1>5 DEF AllFitting
    <2>2. e # r.email
      BY <1>0, <2>1 DEF Fitting, Held
    <2>3. reqs'[s] = Idle \/ reqs'[s].email # e
      BY <1>2, <2>2
    <2> QED
      BY <1>2, <1>3, <2>1, <2>2, <2>3, FittingElsewhere
  <1>6. AllFitting'
    BY <1>3, <1>5 DEF AllFitting, Registered
  <1> QED
    BY <1>2, <1>3, <1>4, <1>6, WritesTyped DEF ConfirmedAsRegistered, Matching

(* A mail arrives, or fails.                                               *)
LEMMA MailedSound ==
  ASSUME Sound, NEW e \in Emails, NEW n \in Numbers, SendMail(e, n)
  PROVE  Sound'
  <1>1. UNCHANGED <<users, pending, otp, reqs, started, met>>
    BY DEF SendMail
  <1>2. TypeOK'
    BY DEF SendMail, Sound, TypeOK
  <1> QED
    BY <1>1, <1>2 DEF Sound, AllMet, FreshOrNone, AllFitting, Fitting, Held, Matching, At,
                      Registered, ConfirmedAsRegistered

(* Time passes while nobody is at work: the code dies first.               *)
LEMMA TickSound ==
  ASSUME Sound, Tick
  PROVE  Sound'
  <1> USE DEF Sound
  <1>0. UNCHANGED <<users, queue, inbox, reqs, started, met>> /\ \A s \in Slots : reqs[s] = Idle
    BY DEF Tick
  <1>1. ASSUME NEW e \in Emails
        PROVE  /\ pending'[e] \in [n : Numbers, left : 1 .. PendingTTL, account : Accounts] \cup {None}
               /\ pending[e] # None /\ pending[e].left > 1 =>
                    /\ pending'[e] # None
                    /\ pending'[e].n = pending[e].n /\ pending'[e].left = pending[e].left - 1
    <2>1. pending'[e] = IF pending[e].left > 1
                        THEN [pending[e] EXCEPT !.left = @ - 1] ELSE None
      BY DEF Tick
    <2>2. CASE pending[e] = None
      <3>1. ~(pending[e].left > 1)
        BY <2>2 DEF None
      <3> QED
        BY <2>1, <2>2, <3>1
    <2>3. CASE pending[e] # None
      <3>1. pending[e] \in [n : Numbers, left : 1 .. PendingTTL, account : Accounts]
        BY <2>3 DEF TypeOK
      <3>2. pending[e].left > 1 => pending[e].left - 1 \in 1 .. PendingTTL
        BY <3>1, TTLAssumption
      <3> QED
        BY <2>1, <3>1, <3>2, NumbersAreNumbers DEF None
    <2> QED
      BY <2>2, <2>3
  <1>2. ASSUME NEW e \in Emails
        PROVE  /\ otp'[e] \in [n : Numbers, left : 1 .. OtpTTL] \cup {NoCode}
               /\ otp'[e] # NoCode => /\ otp[e] # NoCode /\ otp[e].left > 1
                                      /\ otp'[e].n = otp[e].n /\ otp'[e].left = otp[e].left - 1
                                      /\ otp[e].left \in 1 .. OtpTTL
    <2>1. otp'[e] = IF otp[e].left > 1 THEN [otp[e] EXCEPT !.left = @ - 1] ELSE NoCode
      BY DEF Tick
    <2>2. CASE otp[e] = NoCode
      <3>1. ~(otp[e].left > 1)
        BY <2>2 DEF NoCode
      <3> QED
        BY <2>1, <2>2, <3>1
    <2>3. CASE otp[e] # NoCode
      <3>1. otp[e] \in [n : Numbers, left : 1 .. OtpTTL]
        BY <2>3 DEF TypeOK
      <3>2. otp[e].left > 1 => otp[e].left - 1 \in 1 .. OtpTTL
        BY <3>1, TTLAssumption
      <3> QED
        BY <2>1, <2>3, <3>1, <3>2
    <2> QED
      BY <2>2, <2>3
  <1>3. TypeOK'
    <2>1. /\ pending' \in [Emails -> [n : Numbers, left : 1 .. PendingTTL, account : Accounts]
                                        \cup {None}]
          /\ otp' \in [Emails -> [n : Numbers, left : 1 .. OtpTTL] \cup {NoCode}]
      BY <1>1, <1>2 DEF Tick
    <2> QED
      BY <1>0, <2>1 DEF TypeOK
  <1>4. ASSUME NEW e \in Emails, ~Registered(e)
        PROVE  Fitting(e)'
    <2>1. Fitting(e)
      BY <1>4 DEF AllFitting
    <2>2. ASSUME otp'[e] # NoCode
          PROVE  /\ pending'[e] # None
                 /\ Matching(otp'[e].n, pending'[e].n)
                 /\ otp'[e].left < pending'[e].left
      <3>1. /\ otp[e].left \in 1 .. OtpTTL /\ otp[e].left > 1
            /\ otp'[e].n = otp[e].n /\ otp'[e].left = otp[e].left - 1
            /\ pending[e] # None
            /\ Matching(otp[e].n, pending[e].n) /\ otp[e].left < pending[e].left
        BY <1>2, <2>1, <2>2 DEF Fitting
      <3>2. pending[e].left \in 1 .. PendingTTL
        BY <3>1 DEF TypeOK
      <3>3. pending[e].left > 1
        BY <3>1, <3>2, TTLAssumption
      <3>4. /\ pending'[e] # None
            /\ pending'[e].n = pending[e].n /\ pending'[e].left = pending[e].left - 1
        BY <1>1, <3>1, <3>3
      <3> QED
        BY <3>1, <3>2, <3>4, TTLAssumption
    <2> QED
      BY <1>0, <2>2 DEF Fitting, Held, Idle, Matching
  <1>5. AllFitting'
    BY <1>0, <1>4 DEF AllFitting, Registered
  <1> QED
    BY <1>0, <1>3, <1>5 DEF AllMet, FreshOrNone, Storing, At, Idle, ConfirmedAsRegistered, Matching

(* The process stops between any two steps of any requests.                *)
LEMMA CrashSound ==
  ASSUME Sound, Crash
  PROVE  Sound'
  <1>1. UNCHANGED <<store, met>> /\ \A s \in Slots : reqs'[s] = Idle
    BY DEF Crash
  <1>2. TypeOK'
    <2>1. started' \in 0 .. MaxRequests
      BY BoundAssumption DEF Crash, Sound, TypeOK
    <2> QED
      BY <1>1, <2>1 DEF Crash, Sound, TypeOK, store
  <1>3. AllMet' /\ FreshOrNone'
    BY <1>1 DEF AllMet, FreshOrNone, Storing, At, Idle
  <1>4. AllFitting'
    BY <1>1 DEF Sound, AllFitting, Fitting, Held, Idle, Registered, store, Matching
  <1> QED
    BY <1>1, <1>2, <1>3, <1>4 DEF Sound, ConfirmedAsRegistered, store, Matching

(* Every step keeps the invariant.                                         *)
LEMMA SoundGoesOn == Sound /\ [Next]_vars => Sound'
  <1> SUFFICES ASSUME Sound, [Next]_vars PROVE Sound'
    OBVIOUS
  <1>1. ASSUME NEW s \in Slots, NEW e \in Emails,
               \/ \E a \in Accounts : Register(s, e, a)
               \/ \E n \in Numbers : VerifyOTP(s, e, n)
        PROVE  Sound'
    BY <1>1, ReceivedSound
  <1>2. ASSUME NEW s \in Slots, CheckEmail(s) \/ CheckCache(s) \/ QueueMail(s) \/ CheckCode(s)
        PROVE  Sound'
    BY <1>2, ReadsSound
  <1>3. ASSUME NEW s \in Slots, StorePending(s) \/ IssueOtp(s) \/ CreateUser(s)
                                \/ ClearPending(s) \/ ClearOtp(s)
        PROVE  Sound'
    BY <1>3, StoredSound, IssuedSound, CreatedSound, ClearedSound
  <1>4. ASSUME NEW e \in Emails, NEW n \in Numbers, SendMail(e, n)
        PROVE  Sound'
    BY <1>4, MailedSound
  <1>5. CASE Tick
    BY <1>5, TickSound
  <1>6. CASE Crash
    BY <1>6, CrashSound
  <1>7. CASE UNCHANGED vars
    BY <1>7 DEF vars, store, Sound, TypeOK, AllMet, FreshOrNone, AllFitting, Fitting, Held, At,
                Registered, ConfirmedAsRegistered, Matching
  <1> QED
    BY <1>1, <1>2, <1>3, <1>4, <1>5, <1>6, <1>7 DEF Next

(* The invariant holds in every state.                                     *)
LEMMA AlwaysSound == Spec => []Sound
  BY SoundAtFirst, SoundGoesOn, PTL DEF Spec

-----------------------------------------------------------------------------
(* The variables keep their types.                                         *)
THEOREM RegistrationTypes == Spec => []TypeOK
  BY AlwaysSound, PTL DEF Sound

(* An account holds the data of the registration whose code confirmed it,  *)
(* however requests, stops, mails and the expiry of the two keys fall; the *)
(* only mix-up there can be is that of two registrations of the address    *)
(* that were in progress at the same time.                                 *)
THEOREM Confirmed == Spec => []ConfirmedAsRegistered
  BY AlwaysSound, PTL DEF Sound

(* As long as a code lasts, it confirms the registration it was issued for,*)
(* or one that overlapped it.                                              *)
THEOREM GoodCodes == Spec => []CodesAreGood
  <1>1. Sound => CodesAreGood
    BY MatchingBack DEF Sound, AllFitting, Fitting, CodesAreGood
  <1> QED
    BY <1>1, AlwaysSound, PTL

(* A registration ends before its time only when its address has an        *)
(* account.                                                                *)
THEOREM EndedByAccounts == Spec => OnlyAccountsEndRegistrations
  <1>1. Sound /\ [Next]_vars =>
          [ \A e \in Emails :
              pending[e].left > 1 /\ pending'[e] = None => Registered(e) ]_vars
    <2> SUFFICES ASSUME Sound, Next, NEW e \in Emails,
                        pending[e].left > 1, pending'[e] = None, ~Registered(e)
                 PROVE  FALSE
      BY DEF Registered
    <2>0. pending'[e] # pending[e]
      BY DEF None
    <2>1. ASSUME NEW s \in Slots, StorePending(s)
          PROVE  FALSE
      <3>1. reqs[s].n \in Numbers
        BY <2>1, BusySlots DEF StorePending, At, Places, Sound
      <3>2. pending'[e] = [n |-> reqs[s].n, left |-> PendingTTL, account |-> reqs[s].account]
        BY <2>0, <2>1 DEF StorePending, Sound, TypeOK
      <3> QED
        BY <3>1, <3>2, NumbersAreNumbers DEF None
    <2>2. ASSUME NEW s \in Slots, ClearPending(s)
          PROVE  FALSE
      <3>1. reqs[s].email = e
        BY <2>0, <2>2 DEF ClearPending, Sound, TypeOK
      <3> QED
        BY <2>2, <3>1 DEF ClearPending, Sound, AllFitting, Fitting, Held, At
    <2>3. CASE Tick
      <3>1. pending'[e] = [pending[e] EXCEPT !.left = @ - 1]
        BY <2>3 DEF Tick
      <3>2. pending[e] \in [n : Numbers, left : 1 .. PendingTTL, account : Accounts]
        <4>1. pending[e] # None
          BY DEF None
        <4> QED
          BY <4>1 DEF Sound, TypeOK
      <3>3. pending'[e].n \in Numbers
        BY <3>1, <3>2
      <3> QED
        BY <3>3, NumbersAreNumbers DEF None
    <2>4. CASE pending' = pending
      BY <2>0, <2>4
    <2> QED
      BY <2>1, <2>2, <2>3, <2>4
         DEF Next, Register, VerifyOTP, CheckEmail, CheckCache, IssueOtp, Issued, QueueMail,
             CheckCode, CreateUser, ClearOtp, SendMail, Crash, store
  <1> QED
    BY <1>1, AlwaysSound, PTL DEF Spec, OnlyAccountsEndRegistrations

(* The registration in the cache keeps its address for its own lifetime:   *)
(* nothing puts its end off, and only one of the same moment replaces it.  *)
THEOREM NothingProlonged == Spec => NoneIsProlonged
  <1>1. Sound /\ [Next]_vars =>
          [ \A e \in Emails :
              pending[e] # None /\ pending'[e] # pending[e] =>
                pending'[e].left < pending[e].left \/ pending[e].left = PendingTTL ]_vars
    <2> SUFFICES ASSUME Sound, Next, NEW e \in Emails,
                        pending[e] # None, pending'[e] # pending[e]
                 PROVE  pending'[e].left < pending[e].left \/ pending[e].left = PendingTTL
      OBVIOUS
    <2>0. pending[e].left \in 1 .. PendingTTL /\ None.left = 0
      BY DEF Sound, TypeOK, None
    <2>1. ASSUME NEW s \in Slots, StorePending(s)
          PROVE  pending[e].left = PendingTTL
      <3>1. reqs[s].email = e
        BY <2>1 DEF StorePending, Sound, TypeOK
      <3> QED
        BY <2>1, <3>1 DEF StorePending, Sound, FreshOrNone
    <2>2. ASSUME NEW s \in Slots, ClearPending(s)
          PROVE  pending'[e].left < pending[e].left
      <3>1. pending'[e] = None
        BY <2>2 DEF ClearPending, Sound, TypeOK
      <3> QED
        BY <2>0, <3>1, TTLAssumption
    <2>3. CASE Tick
      <3>1. pending'[e] = IF pending[e].left > 1
                          THEN [pending[e] EXCEPT !.left = @ - 1] ELSE None
        BY <2>3 DEF Tick
      <3>2. pending[e] \in [n : Numbers, left : 1 .. PendingTTL, account : Accounts]
        BY DEF Sound, TypeOK
      <3>3. pending'[e].left = pending[e].left - 1 \/ pending'[e].left = 0
        BY <2>0, <3>1, <3>2
      <3> QED
        BY <2>0, <3>3, TTLAssumption
    <2>4. CASE pending' = pending
      BY <2>4
    <2> QED
      BY <2>1, <2>2, <2>3, <2>4
         DEF Next, Register, VerifyOTP, CheckEmail, CheckCache, IssueOtp, Issued, QueueMail,
             CheckCode, CreateUser, ClearOtp, SendMail, Crash, store
  <1> QED
    BY <1>1, AlwaysSound, PTL DEF Spec, NoneIsProlonged
=============================================================================
