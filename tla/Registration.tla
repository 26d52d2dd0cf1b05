---------------------------- MODULE Registration ----------------------------
(***************************************************************************)
(* Registering an account: the row of users, and the two Redis keys an     *)
(* unconfirmed registration of an e-mail address lives in, newAccount and  *)
(* otp, which expire at different times; the mails with the codes; and the *)
(* requests that read and write all of them, one awaited call at a time.   *)
(*                                                                         *)
(* A registration is known by its number n.  It stands for what was typed  *)
(* in (the password) and for the random code that is issued for it: codes  *)
(* of different registrations are taken to be different.  A request that   *)
(* its first read turns away, and a code that was never mailed to anyone,  *)
(* change nothing and are no steps.  Registrations of one address may      *)
(* overlap in any number; met remembers which did.                         *)
(***************************************************************************)
EXTENDS Integers, FiniteSets

CONSTANTS
  Emails, Accounts,
  Slots,          \* requests that may be in progress at the same time
  PendingTTL,     \* register: lifetime of newAccount
  OtpTTL,         \* emailAuthentication: lifetime of otp
  MaxRequests     \* requests and crashes in a behaviour

ASSUME TTLAssumption ==
  /\ PendingTTL \in Nat /\ OtpTTL \in Nat
  /\ 0 < OtpTTL /\ OtpTTL < PendingTTL
ASSUME BoundAssumption == MaxRequests \in Nat

VARIABLES
  users,          \* rows of users: email, account, n, and the code it took
  pending,        \* newAccount <email>
  otp,            \* otp <email>
  queue,          \* mail jobs, as <<email, n>>
  inbox,          \* the codes that arrived, by address
  reqs,
  started,
  met             \* history: pairs of registrations of an address that overlapped

store == <<users, pending, otp, queue, inbox>>
vars  == <<store, reqs, started, met>>

Numbers == 1 .. MaxRequests
None    == [n |-> 0, left |-> 0, account |-> "none"]
NoCode  == [n |-> 0, left |-> 0]
Idle    == [at |-> "idle", email |-> "none", account |-> "none", n |-> 0, code |-> 0]

Places == {"email", "cache", "store", "issue", "mail", "check", "create", "clear", "clearOtp"}

Request == [at : Places, email : Emails, account : Accounts, n : Numbers, code : 0 .. MaxRequests]

TypeOK ==
  /\ users \in SUBSET [email : Emails, account : Accounts, n : Numbers, code : Numbers]
  /\ pending \in [Emails -> [n : Numbers, left : 1 .. PendingTTL, account : Accounts] \cup {None}]
  /\ otp \in [Emails -> [n : Numbers, left : 1 .. OtpTTL] \cup {NoCode}]
  /\ queue \in SUBSET (Emails \X Numbers)
  /\ inbox \in [Emails -> SUBSET Numbers]
  /\ reqs \in [Slots -> Request \cup {Idle}]
  /\ started \in 0 .. MaxRequests
  /\ met \in SUBSET (SUBSET Numbers)

Init ==
  /\ users = {}
  /\ pending = [e \in Emails |-> None]
  /\ otp = [e \in Emails |-> NoCode]
  /\ queue = {}
  /\ inbox = [e \in Emails |-> {}]
  /\ reqs = [s \in Slots |-> Idle]
  /\ started = 0
  /\ met = {}

-----------------------------------------------------------------------------
At(s, place) == reqs[s].at = place

Receive(s, request) ==
  /\ started < MaxRequests
  /\ reqs[s] = Idle
  /\ started' = started + 1
  /\ reqs' = [reqs EXCEPT ![s] = request]

Continue(s, request) ==
  /\ reqs' = [reqs EXCEPT ![s] = request]
  /\ UNCHANGED <<started, met>>

Goto(s, place) == Continue(s, [reqs[s] EXCEPT !.at = place])
Answer(s)      == Continue(s, Idle)

Registered(e) == \E u \in users : u.email = e
Taken(a)      == \E u \in users : u.account = a

(* The register requests of an address that are in progress.               *)
Registering(e) ==
  {s \in Slots : reqs[s].email = e /\ reqs[s].at \in {"email", "cache", "store", "issue", "mail"}}

-----------------------------------------------------------------------------
(***************************************************************************)
(* POST /auth/register: register reads the account, the address and the    *)
(* cache, then stores the registration; emailAuthentication stores a code  *)
(* and queues the mail.                                                    *)
(***************************************************************************)
Register(s, e, a) ==
  /\ ~Taken(a)
  /\ Receive(s, [at |-> "email", email |-> e, account |-> a, n |-> started + 1, code |-> 0])
  /\ met' = met \cup {{reqs[t].n, started + 1} : t \in Registering(e)}
  /\ UNCHANGED store

CheckEmail(s) ==
  /\ At(s, "email")
  /\ IF Registered(reqs[s].email) THEN Answer(s) ELSE Goto(s, "cache")
  /\ UNCHANGED store

\* Mutant of CheckCache: only addresses with an account are turned away.
CheckNothing(s) ==
  /\ At(s, "cache")
  /\ Goto(s, "store")
  /\ UNCHANGED store

CheckCache(s) ==
  /\ At(s, "cache")
  /\ IF pending[reqs[s].email] # None THEN Answer(s) ELSE Goto(s, "store")
  /\ UNCHANGED store

StorePending(s) ==
  LET r == reqs[s]
  IN  /\ At(s, "store")
      /\ pending' = [pending EXCEPT ![r.email] =
                       [n |-> r.n, left |-> PendingTTL, account |-> r.account]]
      /\ Goto(s, "issue")
      /\ UNCHANGED <<users, otp, queue, inbox>>

Issued(s, lifetime) ==
  LET r == reqs[s]
  IN  /\ At(s, "issue")
      /\ otp' = [otp EXCEPT ![r.email] = [n |-> r.n, left |-> lifetime]]
      /\ Goto(s, "mail")
      /\ UNCHANGED <<users, pending, queue, inbox>>

\* Mutant of IssueOtp: the lifetime is that of both keys together.
IssueLastingOtp(s) == Issued(s, OtpTTL + PendingTTL)
IssueOtp(s) == Issued(s, OtpTTL)

QueueMail(s) ==
  LET r == reqs[s]
  IN  /\ At(s, "mail")
      /\ queue' = queue \cup {<<r.email, r.n>>}
      /\ Answer(s)
      /\ UNCHANGED <<users, pending, otp, inbox>>

(* handleSendOTPEmailVerification: a failed job is not tried again.        *)
SendMail(e, n) ==
  /\ <<e, n>> \in queue
  /\ queue' = queue \ {<<e, n>>}
  /\ \/ inbox' = [inbox EXCEPT ![e] = @ \cup {n}]
     \/ UNCHANGED inbox
  /\ UNCHANGED <<users, pending, otp, reqs, started, met>>

-----------------------------------------------------------------------------
(***************************************************************************)
(* POST /auth/register/verify-otp: verifyOTP reads the registration, then  *)
(* the code; creates the account; deletes both keys.                       *)
(***************************************************************************)
VerifyOTP(s, e, code) ==
  /\ code \in inbox[e]
  /\ pending[e] # None
  /\ Receive(s, [at |-> "check", email |-> e, account |-> pending[e].account,
                 n |-> pending[e].n, code |-> code])
  /\ UNCHANGED <<store, met>>

CheckCode(s) ==
  /\ At(s, "check")
  /\ IF otp[reqs[s].email].n = reqs[s].code THEN Goto(s, "create") ELSE Answer(s)
  /\ UNCHANGED store

\* Mutant of CreateUser: a conflict deletes the keys as well.
CreateUserOrClear(s) ==
  LET r == reqs[s]
  IN  /\ At(s, "create")
      /\ users' = IF Registered(r.email) \/ Taken(r.account) THEN users
                  ELSE users \cup {[email |-> r.email, account |-> r.account, n |-> r.n,
                                    code |-> r.code]}
      /\ Goto(s, "clear")
      /\ UNCHANGED <<pending, otp, queue, inbox>>

(* UserService.create; both columns are unique, a duplicate answers 409.   *)
CreateUser(s) ==
  LET r == reqs[s]
  IN  /\ At(s, "create")
      /\ IF Registered(r.email) \/ Taken(r.account)
           THEN Answer(s) /\ UNCHANGED users
           ELSE /\ users' = users \cup {[email |-> r.email, account |-> r.account, n |-> r.n,
                                         code |-> r.code]}
                /\ Goto(s, "clear")
      /\ UNCHANGED <<pending, otp, queue, inbox>>

ClearPending(s) ==
  /\ At(s, "clear")
  /\ pending' = [pending EXCEPT ![reqs[s].email] = None]
  /\ Goto(s, "clearOtp")
  /\ UNCHANGED <<users, otp, queue, inbox>>

ClearOtp(s) ==
  /\ At(s, "clearOtp")
  /\ otp' = [otp EXCEPT ![reqs[s].email] = NoCode]
  /\ Answer(s)
  /\ UNCHANGED <<users, pending, queue, inbox>>

-----------------------------------------------------------------------------
(* Keys age; a request is answered within the unit of time it came in.     *)
Tick ==
  /\ \A s \in Slots : reqs[s] = Idle
  /\ pending' = [e \in Emails |-> IF pending[e].left > 1
                                  THEN [pending[e] EXCEPT !.left = @ - 1] ELSE None]
  /\ otp' = [e \in Emails |-> IF otp[e].left > 1
                              THEN [otp[e] EXCEPT !.left = @ - 1] ELSE NoCode]
  /\ UNCHANGED <<users, queue, inbox, reqs, started, met>>

(* The process stops; MySQL, Redis and the mail queue stay.                *)
Crash ==
  /\ started < MaxRequests
  /\ \E s \in Slots : reqs[s] # Idle
  /\ reqs' = [s \in Slots |-> Idle]
  /\ started' = started + 1
  /\ UNCHANGED <<store, met>>

Next ==
  \/ \E s \in Slots :
       \/ \E e \in Emails, a \in Accounts : Register(s, e, a)
       \/ \E e \in Emails, n \in Numbers : VerifyOTP(s, e, n)
       \/ CheckEmail(s)
       \/ CheckCache(s)
       \/ StorePending(s)
       \/ IssueOtp(s)
       \/ QueueMail(s)
       \/ CheckCode(s)
       \/ CreateUser(s)
       \/ ClearPending(s)
       \/ ClearOtp(s)
  \/ \E e \in Emails, n \in Numbers : SendMail(e, n)
  \/ Tick
  \/ Crash

Spec == Init /\ [][Next]_vars

-----------------------------------------------------------------------------
(***************************************************************************)
(* Properties.                                                             *)
(***************************************************************************)
(* The two registrations are the same one, or overlapped.                  *)
Matching(n, m) == n = m \/ {n, m} \in met

(* An account holds the data of the very registration whose code confirmed *)
(* it, though verifyOTP reads data and code from two keys that are written,*)
(* deleted and expire separately; but for registrations of one address that*)
(* were in progress at the same time (register, emailAuthentication).      *)
ConfirmedAsRegistered == \A u \in users : Matching(u.code, u.n)

(* As long as a code lasts it confirms the registration it was issued for: *)
(* whatever expired, crashed or was confirmed since, an address without an *)
(* account that has a code in otp has the data of the same registration in *)
(* newAccount, or of one that overlapped it (register, emailAuthentication,*)
(* verifyOTP, the lifetimes).                                              *)
CodesAreGood ==
  \A e \in Emails :
    ~Registered(e) /\ otp[e] # NoCode => pending[e] # None /\ Matching(pending[e].n, otp[e].n)

(* A registration ends before its time only because its address has got an *)
(* account: losing the race for an account name to someone else, or for the*)
(* same registration to oneself, deletes nothing (verifyOTP, create).      *)
OnlyAccountsEndRegistrations ==
  [][ \A e \in Emails :
        pending[e].left > 1 /\ pending'[e] = None => Registered(e) ]_vars

(* What is in the cache for an address, be it that its mail failed or that *)
(* the process stopped before sending one, keeps the address from being    *)
(* registered for its own lifetime and no longer: nothing puts it off, and *)
(* only a registration of the same moment replaces it (register).          *)
NoneIsProlonged ==
  [][ \A e \in Emails :
        pending[e] # None /\ pending'[e] # pending[e] =>
          pending'[e].left < pending[e].left \/ pending[e].left = PendingTTL ]_vars
=============================================================================
