------------------------- MODULE UserAccount_proofs -------------------------
(***************************************************************************)
(* Theorems about UserAccount, for any number of overlapping requests and  *)
(* any lifetime of a code: the types, that a used code is gone, that the   *)
(* avatar shown is there, and, for clients that keep requests on the same  *)
(* data apart, how codes last and that no file is left behind.             *)
(***************************************************************************)
EXTENDS UserAccount, TLAPS

Ops    == {"otp", "validate", "change", "upload"}
Places == {"issue", "mail", "spend", "set", "put", "row", "column", "object", "delete"}

-----------------------------------------------------------------------------
(***************************************************************************)
(* Types.  A validation holds the code that it compared, which is not the  *)
(* 0 of a request that holds nothing.                                      *)
(***************************************************************************)
HeldCodes == \A s \in Slots : At(s, "spend") => reqs[s].held \in Numbers

(* The fields of an empty slot.                                            *)
LEMMA IdleFields == Idle.op = "none" /\ Idle.at = "idle" /\ Idle.n = 0 /\ Idle.held = 0
BY DEF Idle

(* A handler that stands somewhere has a request.                          *)
LEMMA RequestFields ==
  ASSUME TypeOK, NEW s \in Slots, reqs[s].at \in Places
  PROVE  reqs[s] \in Request
BY IdleFields DEF TypeOK, Places

(* A request that enters takes the next number.                            *)
LEMMA ReceiveFields ==
  ASSUME TypeOK, NEW s \in Slots, NEW op \in Ops, NEW place \in Places,
         NEW held \in 0 .. MaxRequests, Receive(s, op, place, held)
  PROVE  \E q \in Request :
           /\ q.op = op /\ q.at = place /\ q.n = started + 1 /\ q.held = held
           /\ reqs' = [reqs EXCEPT ![s] = q]
           /\ started' = started + 1 /\ started' \in 0 .. MaxRequests
           /\ overlap' \in {overlap, started'} /\ (op # "upload" => overlap' = overlap)
           /\ op = "upload" /\ Uploaders # {} => overlap' = started'
           /\ op = "upload" /\ Uploaders = {} => overlap' = overlap
           /\ reqs[s] = Idle /\ UNCHANGED <<failed, apart>>
           /\ apart => \A t \in Slots : reqs[t].op \notin Together(op)
<1> DEFINE q == [op |-> op, at |-> place, n |-> started + 1, held |-> held]
<1>1. started + 1 \in Numbers
  BY BoundAssumption DEF Receive, Admitted, TypeOK, Numbers
<1>2. q \in Request
  BY <1>1 DEF Request, Ops, Places
<1>3. started' = started + 1 /\ started' \in 0 .. MaxRequests
  BY <1>1 DEF Receive, Admitted, Numbers, TypeOK
<1> QED BY <1>2, <1>3 DEF Receive, Admitted

(* A request that goes on keeps all but its place.                         *)
LEMMA GotoFields ==
  ASSUME TypeOK, NEW s \in Slots, NEW place \in Places, reqs[s].at \in Places, Goto(s, place)
  PROVE  \E q \in Request :
           /\ q.op = reqs[s].op /\ q.at = place /\ q.n = reqs[s].n /\ q.held = reqs[s].held
           /\ reqs' = [reqs EXCEPT ![s] = q]
           /\ UNCHANGED <<pastVars, started, apart>>
<1> DEFINE q == [reqs[s] EXCEPT !.at = place]
<1>1. reqs[s] \in Request
  BY RequestFields
<1>2. q \in Request /\ q.op = reqs[s].op /\ q.at = place /\ q.n = reqs[s].n /\ q.held = reqs[s].held
  BY <1>1 DEF Request, Places
<1> QED BY <1>2 DEF Goto, Continue

(* Whatever a slot is given, the table of requests keeps its type.         *)
LEMMA SlotType ==
  ASSUME TypeOK, NEW s \in Slots, NEW q \in Request \cup {Idle}, reqs' = [reqs EXCEPT ![s] = q]
  PROVE  reqs' \in [Slots -> Request \cup {Idle}]
BY DEF TypeOK

(* Entering a handler preserves the types.                                 *)
LEMMA EnterType ==
  ASSUME TypeOK, NEW s \in Slots, Enter(s)
  PROVE  TypeOK'
<1>1. ASSUME NEW op \in Ops, NEW place \in Places, NEW held \in 0 .. MaxRequests,
             Receive(s, op, place, held), UNCHANGED <<password, codeVars, fileVars>>
      PROVE  TypeOK'
  <2>1. reqs' \in [Slots -> Request \cup {Idle}] /\ started' \in 0 .. MaxRequests
        /\ overlap' \in {overlap, started'} /\ UNCHANGED <<failed, apart>>
    BY <1>1, ReceiveFields, SlotType
  <2> QED BY <1>1, <2>1 DEF TypeOK, codeVars, fileVars
<1>2. 0 \in 0 .. MaxRequests /\ Numbers \subseteq 0 .. MaxRequests
  BY BoundAssumption DEF Numbers
<1> QED BY <1>1, <1>2
        DEF Enter, GetOTPForgotPassword, ValidateOTP, ChangePassword, UploadAvatar, Ops, Places

(* So does every later step of a handler.                                  *)
LEMMA ProceedType ==
  ASSUME TypeOK, HeldCodes, NEW s \in Slots, Proceed(s)
  PROVE  TypeOK'
<1> DEFINE r == reqs[s]
<1> USE DEF At, Places
<1>a. Idle \in Request \cup {Idle}
  OBVIOUS
<1>b. r.at \in Places
  BY DEF Proceed, IssueOtp, Issued, QueueMail, SpendCode, SetPassword, PutObject, SaveFile,
         SetAvatar, DeleteObject, DeleteRow
<1>c. /\ r \in Request /\ r.n \in Numbers /\ r.n \in 0 .. MaxRequests
      /\ r.held \in 0 .. MaxRequests
  BY <1>b, RequestFields, BoundAssumption DEF Request, Numbers
<1>d. ASSUME Answer(s)
      PROVE  reqs' \in [Slots -> Request \cup {Idle}] /\ UNCHANGED <<pastVars, started, apart>>
  BY <1>d, SlotType DEF Answer, Continue
<1>e. ASSUME NEW place \in Places, Goto(s, place)
      PROVE  reqs' \in [Slots -> Request \cup {Idle}] /\ UNCHANGED <<pastVars, started, apart>>
  BY <1>b, <1>e, GotoFields, SlotType
<1> USE DEF codeVars, fileVars, pastVars
<1>1. CASE IssueOtp(s)
  <2>1. OtpTTL \in 1 .. OtpTTL
    BY TTLAssumption
  <2>2. otp' \in [n : Numbers, left : 1 .. OtpTTL]
    BY <1>1, <1>c, <2>1 DEF IssueOtp, Issued
  <2> QED BY <1>1, <1>e, <2>2 DEF IssueOtp, Issued, TypeOK
<1>2. CASE QueueMail(s)
  BY <1>2, <1>c, <1>d DEF QueueMail, TypeOK
<1>3. CASE SpendCode(s)
  <2>1. otp' = NoCode /\ r.held \in Numbers
    BY <1>3 DEF SpendCode, HeldCodes
  <2> QED BY <1>3, <1>d, <2>1 DEF SpendCode, TypeOK
<1>4. CASE SetPassword(s)
  BY <1>4, <1>c, <1>d DEF SetPassword, TypeOK
<1>5. CASE PutObject(s)
  BY <1>5, <1>c, <1>e DEF PutObject, TypeOK
<1>6. CASE SaveFile(s)
  BY <1>6, <1>c, <1>e DEF SaveFile, TypeOK
<1>7. CASE SetAvatar(s)
  BY <1>7, <1>c, <1>d, <1>e DEF SetAvatar, TypeOK
<1>8. CASE DeleteObject(s)
  BY <1>8, <1>e DEF DeleteObject, TypeOK
<1>9. CASE DeleteRow(s)
  BY <1>9, <1>d DEF DeleteRow, TypeOK
<1> QED BY <1>1, <1>2, <1>3, <1>4, <1>5, <1>6, <1>7, <1>8, <1>9 DEF Proceed

(* The number of a held code stays: only validations wait to spend it.     *)
LEMMA HeldStep ==
  ASSUME TypeOK, HeldCodes, NEW s \in Slots, Enter(s) \/ Proceed(s)
  PROVE  HeldCodes'
<1> USE DEF At
<1>1. ASSUME NEW q, reqs' = [reqs EXCEPT ![s] = q], q.at = "spend" => q.held \in Numbers
      PROVE  HeldCodes'
  BY <1>1 DEF HeldCodes, TypeOK
<1>2. ASSUME NEW op \in Ops, NEW place \in Places, NEW held \in 0 .. MaxRequests,
             Receive(s, op, place, held), place # "spend" \/ held \in Numbers
      PROVE  HeldCodes'
  BY <1>1, <1>2, ReceiveFields
<1>3. ASSUME Answer(s)
      PROVE  HeldCodes'
  BY <1>1, <1>3, IdleFields DEF Answer, Continue
<1>4. ASSUME NEW place \in Places \ {"spend"}, Goto(s, place), reqs[s].at \in Places
      PROVE  HeldCodes'
  BY <1>1, <1>4, GotoFields
<1>5. 0 \in 0 .. MaxRequests /\ Numbers \subseteq 0 .. MaxRequests
  BY BoundAssumption DEF Numbers
<1>6. CASE Enter(s)
  BY <1>2, <1>5, <1>6
     DEF Enter, GetOTPForgotPassword, ValidateOTP, ChangePassword, UploadAvatar, Ops, Places
<1>7. CASE Proceed(s)
  BY <1>3, <1>4, <1>7
     DEF Proceed, IssueOtp, Issued, QueueMail, SpendCode, SetPassword, PutObject, SaveFile,
         SetAvatar, DeleteObject, DeleteRow, Places
<1> QED BY <1>6, <1>7

(* Every step preserves the types.                                         *)
LEMMA TypeStep == TypeOK /\ HeldCodes /\ [Next]_vars => TypeOK' /\ HeldCodes'
<1> SUFFICES ASSUME TypeOK, HeldCodes, [Next]_vars
             PROVE  TypeOK' /\ HeldCodes'
  OBVIOUS
<1> USE DEF codeVars, fileVars, pastVars
<1>1. CASE \E s \in Slots : Enter(s) \/ Proceed(s)
  BY <1>1, EnterType, ProceedType, HeldStep
<1>2. ASSUME NEW s \in Slots, Fail(s)
      PROVE  TypeOK' /\ HeldCodes'
  BY <1>2, SlotType, IdleFields DEF Fail, TypeOK, HeldCodes, At
<1>3. ASSUME NEW n \in Numbers, SendMail(n)
      PROVE  TypeOK' /\ HeldCodes'
  BY <1>3 DEF SendMail, TypeOK, HeldCodes, At
<1>4. CASE ResetPassword
  <2>1. started' \in 0 .. MaxRequests
    BY <1>4, BoundAssumption DEF ResetPassword, Admitted, TypeOK
  <2> QED BY <1>4, <2>1 DEF ResetPassword, TypeOK, HeldCodes, At
<1>5. CASE Tick
  <2>1. otp' \in [n : Numbers, left : 1 .. OtpTTL] \cup {NoCode}
    <3>1. CASE otp.left > 1 /\ otp \in [n : Numbers, left : 1 .. OtpTTL]
      <4>1. otp.left - 1 \in 1 .. OtpTTL /\ otp.n \in Numbers
        BY <3>1, TTLAssumption
      <4>2. otp' = [otp EXCEPT !.left = otp.left - 1]
        BY <1>5, <3>1 DEF Tick
      <4> QED BY <3>1, <4>1, <4>2
    <3>2. CASE ~(otp.left > 1)
      BY <1>5, <3>2 DEF Tick
    <3> QED BY <3>1, <3>2 DEF TypeOK, NoCode
  <2> QED BY <1>5, <2>1 DEF Tick, TypeOK, HeldCodes, At
<1>6. CASE UNCHANGED vars
  BY <1>6 DEF vars, TypeOK, HeldCodes, At
<1> QED BY <1>1, <1>2, <1>3, <1>4, <1>5, <1>6 DEF Next, Done

(* The types, and what is needed to keep them.                             *)
LEMMA Typing == Spec => [](TypeOK /\ HeldCodes)
<1>1. Init => TypeOK /\ HeldCodes
  <2> SUFFICES ASSUME Init
               PROVE  TypeOK /\ HeldCodes
    OBVIOUS
  <2>1. 0 \in 0 .. MaxRequests
    BY BoundAssumption
  <2>2. HeldCodes
    BY IdleFields DEF Init, HeldCodes, At
  <2> QED BY <2>1, <2>2 DEF Init, TypeOK
<1> QED BY <1>1, TypeStep, PTL DEF Spec

(* The data of an account keep their types: a code never outlives the      *)
(* lifetime it is stored with (sendEmailOTPChangePassword,                 *)
(* validateOTPResetPassword, uploadAvatar).                                *)
THEOREM TypeCorrect == Spec => []TypeOK
BY Typing, PTL

-----------------------------------------------------------------------------
(***************************************************************************)
(* Codes.  A request that is about to store a code has a number that no    *)
(* other request has, so that it is none of the codes in a mail, in the    *)
(* hands of a validation or among those already used.  This needs no       *)
(* assumption on how requests overlap.                                     *)
(***************************************************************************)
FreshCode(q) ==
  /\ q.n # otp.n
  /\ q.n \notin queue \cup inbox \cup spent
  /\ \A t \in Slots : reqs[t].op = "validate" => reqs[t].held # q.n

Codes ==
  /\ otp.n \notin spent
  /\ otp.n <= started
  /\ \A c \in queue \cup inbox \cup spent : c <= started
  /\ \A s \in Slots : /\ reqs[s].n <= started
                      /\ reqs[s].op = "validate" => reqs[s].held <= started
                      /\ At(s, "issue") => FreshCode(reqs[s])
                      /\ At(s, "spend") => reqs[s].op = "validate"
  /\ \A s, t \in Slots : s # t /\ reqs[s] # Idle => reqs[s].n # reqs[t].n

(* The numbers that the invariant compares.                                *)
LEMMA CodeNumbers ==
  ASSUME TypeOK
  PROVE  /\ started \in Nat /\ otp.n \in Nat
         /\ \A c \in queue \cup inbox \cup spent : c \in Nat /\ c # 0
         /\ \A t \in Slots : reqs[t].n \in Nat /\ reqs[t].held \in Nat
<1>1. started \in Nat
  BY BoundAssumption DEF TypeOK
<1>2. otp.n \in Nat
  BY DEF TypeOK, NoCode, Numbers
<1>3. \A c \in queue \cup inbox \cup spent : c \in Nat /\ c # 0
  BY DEF TypeOK, Numbers
<1>4. \A t \in Slots : reqs[t].n \in Nat /\ reqs[t].held \in Nat
  BY IdleFields, BoundAssumption DEF TypeOK, Request, Numbers
<1> QED BY <1>1, <1>2, <1>3, <1>4

(* A request enters with the next number, and holds something older.       *)
LEMMA EnterCodes ==
  ASSUME TypeOK, Codes, NEW s \in Slots, Enter(s)
  PROVE  Codes'
<1>1. ASSUME NEW op \in Ops, NEW place \in Places, NEW held \in 0 .. MaxRequests,
             Receive(s, op, place, held), UNCHANGED codeVars,
             place = "spend" => op = "validate", place = "issue" => op # "validate",
             op = "validate" => held \in inbox
      PROVE  Codes'
  <2>1. PICK q \in Request :
           /\ q.op = op /\ q.at = place /\ q.n = started + 1 /\ q.held = held
           /\ reqs' = [reqs EXCEPT ![s] = q] /\ started' = started + 1
    BY <1>1, ReceiveFields
  <2>2. \A t \in Slots : reqs'[t] = IF t = s THEN q ELSE reqs[t]
    BY <2>1 DEF TypeOK
  <2>3. UNCHANGED <<otp, queue, inbox, spent>>
    BY <1>1 DEF codeVars
  <2>4. \A t \in Slots : /\ reqs'[t].n <= started'
                         /\ reqs'[t].op = "validate" => reqs'[t].held <= started'
    BY <1>1, <2>1, <2>2, CodeNumbers DEF Codes
  <2>5. \A t, v \in Slots : t # v /\ reqs'[t] # Idle => reqs'[t].n # reqs'[v].n
    BY <2>1, <2>2, CodeNumbers DEF Codes
  <2>6. otp'.n <= started' /\ \A c \in queue' \cup inbox' \cup spent' : c <= started'
    BY <2>1, <2>3, CodeNumbers DEF Codes
  <2>7. place = "issue" => FreshCode(reqs[s])'
    <3>1. FreshCode(q)
      BY <2>1, CodeNumbers DEF Codes, FreshCode
    <3> QED BY <1>1, <2>1, <2>2, <2>3, <3>1 DEF FreshCode
  <2>8. ASSUME NEW t \in Slots, t # s, reqs[t].at = "issue"
        PROVE  FreshCode(reqs[t])'
    BY <1>1, <2>1, <2>2, <2>3, <2>8 DEF Codes, FreshCode, At
  <2>9. \A t \in Slots : /\ At(t, "issue")' => FreshCode(reqs[t])'
                         /\ At(t, "spend")' => reqs'[t].op = "validate"
    BY <1>1, <2>1, <2>2, <2>7, <2>8 DEF At, Codes
  <2> QED BY <2>3, <2>4, <2>5, <2>6, <2>9 DEF Codes
<1>2. 0 \in 0 .. MaxRequests /\ Numbers \subseteq 0 .. MaxRequests
  BY BoundAssumption DEF Numbers
<1> QED BY <1>1, <1>2
        DEF Enter, GetOTPForgotPassword, ValidateOTP, ChangePassword, UploadAvatar, Ops, Places

(* Every other step keeps the numbers of the requests, or empties a slot.  *)
LEMMA CodesKept ==
  ASSUME TypeOK, Codes, UNCHANGED started,
         \A t \in Slots : \/ reqs'[t] = Idle
                          \/ /\ reqs'[t].op = reqs[t].op /\ reqs'[t].n = reqs[t].n
                             /\ reqs'[t].held = reqs[t].held /\ reqs[t] # Idle
                             /\ reqs'[t].at \in {"issue", "spend"} => reqs'[t].at = reqs[t].at,
         otp'.n \notin spent', otp'.n <= started',
         \A c \in queue' \cup inbox' \cup spent' : c <= started,
         \A t \in Slots : At(t, "issue")' => /\ reqs[t].n # otp'.n
                                             /\ reqs[t].n \notin queue' \cup inbox' \cup spent'
  PROVE  Codes'
<1> USE IdleFields
<1>1. \A t \in Slots : /\ reqs'[t].n <= started'
                       /\ reqs'[t].op = "validate" => reqs'[t].held <= started'
  BY CodeNumbers DEF Codes
<1>2. \A t, v \in Slots : t # v /\ reqs'[t] # Idle => reqs'[t].n # reqs'[v].n
  <2> SUFFICES ASSUME NEW t \in Slots, NEW v \in Slots, t # v, reqs'[t] # Idle
               PROVE  reqs'[t].n # reqs'[v].n
    OBVIOUS
  <2>1. reqs[t] # Idle /\ reqs'[t].n = reqs[t].n
    OBVIOUS
  <2>2. reqs[t].n # 0
    BY <2>1 DEF TypeOK, Request, Numbers
  <2> QED BY <2>1, <2>2 DEF Codes
<1>3. ASSUME NEW t \in Slots, At(t, "issue")'
      PROVE  FreshCode(reqs[t])'
  <2>1. reqs'[t].n = reqs[t].n /\ At(t, "issue")
    BY <1>3 DEF At
  <2>2. \A v \in Slots : reqs'[v].op = "validate" => reqs'[v].held # reqs[t].n
    BY <2>1 DEF Codes, FreshCode
  <2> QED BY <1>3, <2>1, <2>2 DEF FreshCode
<1>4. \A t \in Slots : At(t, "spend")' => reqs'[t].op = "validate"
  BY DEF At, Codes
<1> QED BY <1>1, <1>2, <1>3, <1>4 DEF Codes

(* The steps on the code, its mail and its validation.                     *)
LEMMA ProceedCodes ==
  ASSUME TypeOK, HeldCodes, Codes, NEW s \in Slots, Proceed(s)
  PROVE  Codes'
<1> DEFINE r == reqs[s]
<1> DEFINE Same(t) == /\ reqs'[t].op = reqs[t].op /\ reqs'[t].n = reqs[t].n
                      /\ reqs'[t].held = reqs[t].held /\ reqs[t] # Idle
                      /\ reqs'[t].at \in {"issue", "spend"} => reqs'[t].at = reqs[t].at
<1> USE DEF At, Places
<1>a. r.at \in Places
  BY DEF Proceed, IssueOtp, Issued, QueueMail, SpendCode, SetPassword, PutObject, SaveFile,
         SetAvatar, DeleteObject, DeleteRow
<1>b. r \in Request
  BY <1>a, RequestFields
<1>c. ASSUME Answer(s)
      PROVE  reqs'[s] = Idle /\ UNCHANGED started /\ \A t \in Slots : reqs'[t] = Idle \/ Same(t)
  BY <1>c DEF Answer, Continue, TypeOK
<1>d. ASSUME NEW place \in Places \ {"issue", "spend"}, Goto(s, place)
      PROVE  reqs'[s].at = place /\ UNCHANGED started /\ \A t \in Slots : reqs'[t] = Idle \/ Same(t)
  BY <1>a, <1>b, <1>d, GotoFields, IdleFields DEF TypeOK
<1>e. ASSUME UNCHANGED codeVars, UNCHANGED started, \A t \in Slots : reqs'[t] = Idle \/ Same(t)
      PROVE  Codes'
  <2>1. UNCHANGED <<otp, queue, inbox, spent>>
    BY <1>e DEF codeVars
  <2>2. \A t \in Slots : At(t, "issue")' => At(t, "issue")
    BY <1>e, IdleFields
  <2> QED BY <1>e, <2>1, <2>2, CodesKept DEF Codes, FreshCode
<1>1. CASE IssueOtp(s)
  <2>1. /\ otp'.n = r.n /\ UNCHANGED <<queue, inbox, spent>> /\ At(s, "issue")
        /\ Goto(s, "mail")
    BY <1>1 DEF IssueOtp, Issued
  <2>2. reqs'[s].at = "mail" /\ UNCHANGED started /\ \A t \in Slots : reqs'[t] = Idle \/ Same(t)
    BY <1>d, <2>1
  <2>3. otp'.n \notin spent' /\ otp'.n <= started'
    BY <2>1, <2>2 DEF Codes, FreshCode
  <2>4. \A t \in Slots : At(t, "issue")' => /\ reqs[t].n # otp'.n
                                            /\ reqs[t].n \notin queue' \cup inbox' \cup spent'
    BY <2>1, <2>2, IdleFields DEF Codes, FreshCode
  <2> QED BY <2>1, <2>2, <2>3, <2>4, CodesKept DEF Codes
<1>2. CASE QueueMail(s)
  <2>1. queue' = queue \cup {r.n} /\ UNCHANGED <<otp, inbox, spent>> /\ r.at = "mail"
    BY <1>2 DEF QueueMail
  <2>2. reqs'[s] = Idle /\ UNCHANGED started /\ \A t \in Slots : reqs'[t] = Idle \/ Same(t)
    BY <1>2, <1>c DEF QueueMail
  <2>3. \A t \in Slots : At(t, "issue")' => /\ reqs[t].n # otp'.n
                                            /\ reqs[t].n \notin queue' \cup inbox' \cup spent'
    BY <2>1, <2>2, IdleFields DEF Codes, FreshCode
  <2> QED BY <2>1, <2>2, <2>3, CodesKept DEF Codes
<1>3. CASE SpendCode(s)
  <2>1. otp' = NoCode /\ spent' = spent \cup {r.held} /\ UNCHANGED <<queue, inbox>> /\ r.at = "spend"
    BY <1>3 DEF SpendCode
  <2>2. reqs'[s] = Idle /\ UNCHANGED started /\ \A t \in Slots : reqs'[t] = Idle \/ Same(t)
    BY <1>3, <1>c DEF SpendCode
  <2>3. r.op = "validate" /\ r.held <= started /\ r.held \in Numbers
    BY <2>1 DEF Codes, HeldCodes
  <2>4. \A t \in Slots : At(t, "issue")' => /\ reqs[t].n # otp'.n
                                            /\ reqs[t].n \notin queue' \cup inbox' \cup spent'
    BY <2>1, <2>2, <2>3, IdleFields DEF Codes, FreshCode, NoCode, TypeOK, Request, Numbers
  <2>5. otp'.n \notin spent' /\ otp'.n <= started'
    BY <2>1, <2>2, <2>3, CodeNumbers DEF NoCode, Numbers
  <2> QED BY <2>1, <2>2, <2>3, <2>4, <2>5, CodesKept DEF Codes
<1>4. CASE SetPassword(s) \/ DeleteRow(s)
  BY <1>4, <1>c, <1>e DEF SetPassword, DeleteRow
<1>5. CASE PutObject(s) \/ SaveFile(s) \/ SetAvatar(s) \/ DeleteObject(s)
  BY <1>5, <1>c, <1>d, <1>e DEF PutObject, SaveFile, SetAvatar, DeleteObject
<1> QED BY <1>1, <1>2, <1>3, <1>4, <1>5 DEF Proceed

(* Every step preserves the invariant.                                     *)
LEMMA CodesStep == TypeOK /\ HeldCodes /\ Codes /\ [Next]_vars => Codes'
<1> SUFFICES ASSUME TypeOK, HeldCodes, Codes, [Next]_vars
             PROVE  Codes'
  OBVIOUS
<1> USE DEF codeVars, At
<1>1. CASE \E s \in Slots : Enter(s) \/ Proceed(s)
  BY <1>1, EnterCodes, ProceedCodes
<1>2. ASSUME NEW s \in Slots, Fail(s)
      PROVE  Codes'
  <2>1. \A t \in Slots : reqs'[t] = Idle \/ (t # s /\ reqs'[t] = reqs[t])
    BY <1>2 DEF Fail, TypeOK
  <2>2. \A t \in Slots : reqs'[t] = Idle \/ (reqs[t] # Idle /\ reqs'[t] = reqs[t])
    BY <2>1
  <2>3. UNCHANGED <<otp, queue, inbox, spent, started>>
    BY <1>2 DEF Fail
  <2> QED BY <2>2, <2>3, CodesKept, IdleFields DEF Codes, FreshCode
<1>a. ASSUME UNCHANGED <<reqs, started>>, otp'.n = otp.n \/ otp'.n = 0, UNCHANGED spent,
             queue' \cup inbox' \subseteq queue \cup inbox
      PROVE  Codes'
  <2>1. otp'.n \notin spent'
    BY <1>a, CodeNumbers DEF Codes
  <2>2. \A t \in Slots : reqs[t] = Idle \/ reqs[t].n # 0
    BY DEF TypeOK, Request, Numbers
  <2>3. otp'.n <= started'
    BY <1>a, CodeNumbers DEF Codes
  <2> QED BY <1>a, <2>1, <2>2, <2>3, CodesKept, IdleFields DEF Codes, FreshCode
<1>3. ASSUME NEW n \in Numbers, SendMail(n)
      PROVE  Codes'
  BY <1>3, <1>a DEF SendMail
<1>4. CASE ResetPassword
  <2>1. UNCHANGED <<otp, queue, inbox, spent, reqs>> /\ started' = started + 1
    BY <1>4 DEF ResetPassword, Admitted
  <2>2. otp'.n <= started' /\ \A c \in queue' \cup inbox' \cup spent' : c <= started'
    BY <2>1, CodeNumbers DEF Codes
  <2>3. \A t \in Slots : /\ reqs'[t].n <= started'
                         /\ reqs'[t].op = "validate" => reqs'[t].held <= started'
    BY <2>1, CodeNumbers DEF Codes
  <2> QED BY <2>1, <2>2, <2>3 DEF Codes, FreshCode
<1>5. CASE Tick
  <2>1. otp'.n = otp.n \/ otp'.n = 0
    BY <1>5 DEF Tick, NoCode, TypeOK
  <2> QED BY <1>5, <2>1, <1>a DEF Tick
<1>6. CASE UNCHANGED vars
  BY <1>6, <1>a DEF vars
<1> QED BY <1>1, <1>2, <1>3, <1>4, <1>5, <1>6 DEF Next, Done

(* Whatever requests overlap, fail or arrive late, the code that is stored *)
(* is never one that was used already, so that no code opens the form for  *)
(* a second comer (sendEmailOTPChangePassword, validateOTPResetPassword).  *)
THEOREM SpentCodes == Spec => []SpentCodesAreGone
<1>1. Init => Codes
  BY IdleFields DEF Init, Codes, NoCode, At
<1>2. Codes => SpentCodesAreGone
  BY DEF Codes, SpentCodesAreGone
<1> QED BY <1>1, <1>2, CodesStep, Typing, PTL DEF Spec

-----------------------------------------------------------------------------
(***************************************************************************)
(* Requests kept apart.  Each place belongs to one kind of request, and of *)
(* the kinds that touch the same data one request is in progress at most.  *)
(***************************************************************************)
CodeOps == {"otp", "validate"}

Placed ==
  \A s \in Slots :
    /\ reqs[s].at \in {"issue", "mail"} => reqs[s].op = "otp"
    /\ reqs[s].at = "spend" => reqs[s].op = "validate"
    /\ reqs[s].at = "set" => reqs[s].op = "change"
    /\ reqs[s].at \in {"put", "row", "column", "object", "delete"} <=> reqs[s].op = "upload"

Alone(kinds) ==
  \A s, t \in Slots : s # t /\ reqs[s].op \in kinds => reqs[t].op \notin kinds

KeptApart ==
  /\ Placed
  /\ \A f \in files : f <= started
  /\ apart => Alone(CodeOps) /\ Alone({"upload"})

(* A step gives one slot a request of the same kind, or none.              *)
Onward(s) ==
  /\ UNCHANGED apart
  /\ \E q : /\ reqs' = [reqs EXCEPT ![s] = q]
            /\ \/ q = Idle
               \/ q.op = reqs[s].op /\ q.n = reqs[s].n /\ q.held = reqs[s].held

(* It is so for every step of a request that has entered.                  *)
LEMMA ProceedOnward ==
  ASSUME TypeOK, NEW s \in Slots, Proceed(s) \/ Fail(s)
  PROVE  Onward(s) /\ reqs[s] # Idle /\ UNCHANGED started
<1>1. CASE Fail(s)
  BY <1>1 DEF Fail, Onward
<1>2. CASE Proceed(s)
  <2>1. reqs[s].at \in Places
    BY <1>2 DEF Proceed, IssueOtp, Issued, QueueMail, SpendCode, SetPassword, PutObject,
                SaveFile, SetAvatar, DeleteObject, DeleteRow, At, Places
  <2>2. ASSUME NEW place \in Places, Goto(s, place)
        PROVE  Onward(s) /\ UNCHANGED started
    BY <2>1, <2>2, GotoFields DEF Onward
  <2>3. ASSUME Answer(s)
        PROVE  Onward(s) /\ UNCHANGED started
    BY <2>3 DEF Onward, Answer, Continue
  <2>4. Onward(s) /\ UNCHANGED started
    BY <1>2, <2>2, <2>3
       DEF Proceed, IssueOtp, Issued, QueueMail, SpendCode, SetPassword, PutObject,
           SaveFile, SetAvatar, DeleteObject, DeleteRow, Places
  <2> QED BY <2>1, <2>4, IdleFields DEF Places
<1> QED BY <1>1, <1>2

(* Where such a step may lead.                                             *)
LEMMA ProceedPlaces ==
  ASSUME TypeOK, NEW s \in Slots, Proceed(s) \/ Fail(s)
  PROVE  reqs'[s].at \in {"idle", "mail", "row", "column", "object", "delete"}
<1>1. reqs \in [Slots -> Request \cup {Idle}]
  BY DEF TypeOK
<1>2. ASSUME Answer(s) \/ Fail(s)
      PROVE  reqs'[s].at = "idle"
  BY <1>1, <1>2, IdleFields DEF Answer, Continue, Fail
<1>3. ASSUME NEW place \in Places, Goto(s, place), reqs[s].at \in Places
      PROVE  reqs'[s].at = place
  BY <1>1, <1>3, GotoFields
<1> QED BY <1>2, <1>3
        DEF Proceed, IssueOtp, Issued, QueueMail, SpendCode, SetPassword, PutObject,
            SaveFile, SetAvatar, DeleteObject, DeleteRow, Places, At

(* The kinds that are kept apart stay apart as requests go on.             *)
LEMMA AloneKept ==
  ASSUME TypeOK, NEW s \in Slots, Onward(s), NEW kinds \in SUBSET Ops, Alone(kinds)
  PROVE  Alone(kinds)'
<1>1. \A t \in Slots : reqs'[t].op = reqs[t].op \/ reqs'[t].op = "none"
  BY IdleFields DEF Onward, TypeOK
<1>2. "none" \notin kinds
  BY DEF Ops
<1> QED BY <1>1, <1>2 DEF Alone

(* And a request that enters looks for the others of its kind.             *)
LEMMA AloneEntered ==
  ASSUME TypeOK, NEW s \in Slots, NEW op \in Ops, NEW kinds \in SUBSET Ops, Alone(kinds),
         NEW q, q.op = op, reqs' = [reqs EXCEPT ![s] = q],
         op \in kinds => \A t \in Slots : reqs[t].op \notin kinds
  PROVE  Alone(kinds)'
BY DEF Alone, TypeOK

(* What holds of a request that has just entered.                          *)
LEMMA EnterFields ==
  ASSUME TypeOK, NEW s \in Slots, Enter(s)
  PROVE  \E q \in Request :
           /\ reqs' = [reqs EXCEPT ![s] = q] /\ reqs[s] = Idle
           /\ q.n = started + 1 /\ started' = started + 1 /\ UNCHANGED <<failed, apart>>
           /\ (q.op # "upload" \/ Uploaders = {}) => overlap' = overlap
           /\ q.op = "upload" /\ Uploaders # {} => overlap' = started'
           /\ apart => \A t \in Slots : reqs[t].op \notin Together(q.op)
           /\ \/ q.op = "otp" /\ q.at = "issue"
              \/ q.op = "validate" /\ q.at = "spend" /\ q.held = otp.n
              \/ q.op = "change" /\ q.at = "set"
              \/ /\ q.op = "upload" /\ q.at = "put"
                 /\ IF files = {} THEN q.held = 0 ELSE q.held \in files
           /\ UNCHANGED <<password, codeVars, fileVars>>
<1>1. 0 \in 0 .. MaxRequests /\ Numbers \subseteq 0 .. MaxRequests
  BY BoundAssumption DEF Numbers
<1> USE DEF Ops, Places
<1>2. CASE GetOTPForgotPassword(s)
  BY <1>1, <1>2, ReceiveFields DEF GetOTPForgotPassword
<1>3. ASSUME NEW code \in Numbers, ValidateOTP(s, code)
      PROVE  \E q \in Request :
           /\ q.op = "validate" /\ q.at = "spend" /\ q.n = started + 1 /\ q.held = otp.n
           /\ reqs' = [reqs EXCEPT ![s] = q]
           /\ started' = started + 1
           /\ reqs[s] = Idle /\ UNCHANGED <<failed, overlap, apart>>
           /\ apart => \A t \in Slots : reqs[t].op \notin Together("validate")
  BY <1>1, <1>3, ReceiveFields DEF ValidateOTP
<1>4. ASSUME NEW old \in 0 .. MaxRequests, ChangePassword(s, old)
      PROVE  \E q \in Request :
           /\ q.op = "change" /\ q.at = "set" /\ q.n = started + 1
           /\ reqs' = [reqs EXCEPT ![s] = q]
           /\ started' = started + 1
           /\ reqs[s] = Idle /\ UNCHANGED <<failed, overlap, apart>>
           /\ apart => \A t \in Slots : reqs[t].op \notin Together("change")
  BY <1>4, ReceiveFields DEF ChangePassword
<1>5. ASSUME NEW old \in 0 .. MaxRequests, UploadAvatar(s, old)
      PROVE  \E q \in Request :
           /\ q.op = "upload" /\ q.at = "put" /\ q.n = started + 1
           /\ IF files = {} THEN q.held = 0 ELSE q.held \in files
           /\ reqs' = [reqs EXCEPT ![s] = q]
           /\ started' = started + 1
           /\ reqs[s] = Idle /\ UNCHANGED <<failed, apart>>
           /\ overlap' = IF Uploaders # {} THEN started' ELSE overlap
           /\ apart => \A t \in Slots : reqs[t].op \notin Together("upload")
  BY <1>5, ReceiveFields DEF UploadAvatar
<1>6. CASE \E code \in Numbers : ValidateOTP(s, code)
  BY <1>3, <1>6 DEF ValidateOTP
<1>7. CASE \E old \in 0 .. MaxRequests : ChangePassword(s, old)
  BY <1>4, <1>7 DEF ChangePassword
<1>8. CASE \E old \in 0 .. MaxRequests : UploadAvatar(s, old)
  BY <1>5, <1>8 DEF UploadAvatar
<1> QED BY <1>2, <1>6, <1>7, <1>8 DEF Enter

(* Every step keeps requests apart.                                        *)
LEMMA KeptApartStep == TypeOK /\ Codes /\ KeptApart /\ [Next]_vars => KeptApart'
<1> SUFFICES ASSUME TypeOK, Codes, KeptApart, [Next]_vars
             PROVE  KeptApart'
  OBVIOUS
<1>a. started \in Nat /\ \A f \in files : f \in Nat
  BY BoundAssumption DEF TypeOK, Numbers
<1>b. Placed
  BY DEF KeptApart
<1>1. ASSUME NEW s \in Slots, Enter(s)
      PROVE  KeptApart'
  <2>1. PICK q \in Request :
           /\ reqs' = [reqs EXCEPT ![s] = q] /\ started' = started + 1 /\ UNCHANGED apart
           /\ apart => \A t \in Slots : reqs[t].op \notin Together(q.op)
           /\ \/ q.op = "otp" /\ q.at = "issue"
              \/ q.op = "validate" /\ q.at = "spend"
              \/ q.op = "change" /\ q.at = "set"
              \/ q.op = "upload" /\ q.at = "put"
           /\ UNCHANGED <<password, codeVars, fileVars>>
    BY <1>1, EnterFields
  <2>2. Placed'
    BY <1>b, <2>1 DEF Placed, TypeOK
  <2>3. \A f \in files' : f <= started'
    BY <1>a, <2>1 DEF KeptApart, fileVars
  <2>4. ASSUME apart
        PROVE  Alone(CodeOps)' /\ Alone({"upload"})'
    <3>1. \A t \in Slots : reqs[t].op \notin Together(q.op)
      BY <2>1, <2>4
    <3>2. /\ q.op \in CodeOps => \A t \in Slots : reqs[t].op \notin CodeOps
          /\ q.op \in {"upload"} => \A t \in Slots : reqs[t].op \notin {"upload"}
      BY <3>1 DEF Together, CodeOps
    <3>3. q.op \in Ops /\ CodeOps \in SUBSET Ops /\ {"upload"} \in SUBSET Ops
      BY <2>1 DEF Ops, CodeOps
    <3> QED BY <2>1, <2>4, <3>2, <3>3, AloneEntered DEF KeptApart
  <2> QED BY <2>1, <2>2, <2>3, <2>4 DEF KeptApart
<1>2. ASSUME NEW s \in Slots, Proceed(s) \/ Fail(s)
      PROVE  KeptApart'
  <2>1. Onward(s) /\ UNCHANGED <<started, apart>>
    BY <1>2, ProceedOnward DEF Onward
  <2>2. \A f \in files' : f <= started'
    <3>1. files' \subseteq files \cup {reqs[s].n}
      BY <1>2 DEF Proceed, Fail, IssueOtp, Issued, QueueMail, SpendCode, SetPassword,
                  PutObject, SaveFile, SetAvatar, DeleteObject, DeleteRow, fileVars
    <3> QED BY <2>1, <3>1 DEF KeptApart, Codes
  <2>3. Placed'
    <3>1. ASSUME NEW q, reqs' = [reqs EXCEPT ![s] = q],
                 q = Idle \/ (q.at \in {"row", "column", "object", "delete"} /\ q.op = "upload")
                          \/ (q.at = "mail" /\ q.op = "otp")
          PROVE  Placed'
      BY <1>b, <3>1, IdleFields DEF Placed, TypeOK
    <3>2. CASE Fail(s)
      BY <3>1, <3>2 DEF Fail
    <3>3. CASE Answer(s)
      BY <3>1, <3>3 DEF Answer, Continue
    <3>4. ASSUME NEW place \in {"row", "column", "object", "delete"}, Goto(s, place),
                 reqs[s].at \in {"put", "row", "column", "object", "delete"}
          PROVE  Placed'
      BY <1>b, <3>1, <3>4, GotoFields DEF Placed, Places
    <3>5. ASSUME Goto(s, "mail"), reqs[s].at = "issue"
          PROVE  Placed'
      BY <1>b, <3>1, <3>5, GotoFields DEF Placed, Places
    <3> QED BY <1>2, <3>2, <3>3, <3>4, <3>5
            DEF Proceed, IssueOtp, Issued, QueueMail, SpendCode, SetPassword, PutObject,
                SaveFile, SetAvatar, DeleteObject, DeleteRow, At
  <2>4. apart => Alone(CodeOps)' /\ Alone({"upload"})'
    BY <2>1, AloneKept DEF KeptApart, Ops, CodeOps
  <2> QED BY <2>1, <2>2, <2>3, <2>4 DEF KeptApart
<1>3. ASSUME UNCHANGED <<reqs, apart, files>>, started' \in {started, started + 1}
      PROVE  KeptApart'
  <2>1. Placed' /\ \A f \in files' : f <= started'
    BY <1>3, <1>a DEF KeptApart, Placed
  <2> QED BY <1>3, <2>1 DEF KeptApart, Alone
<1>4. CASE ResetPassword \/ \E n \in Numbers : SendMail(n)
  BY <1>3, <1>4 DEF SendMail, ResetPassword, Admitted, fileVars
<1>5. CASE Tick
  BY <1>3, <1>5 DEF Tick, fileVars
<1>6. CASE UNCHANGED vars
  BY <1>3, <1>6 DEF vars, fileVars
<1> QED BY <1>1, <1>2, <1>4, <1>5, <1>6 DEF Next, Done

(* All that the promises to careful clients rest on.                       *)
Base == TypeOK /\ HeldCodes /\ Codes /\ KeptApart

(* It holds throughout.                                                    *)
LEMMA BaseHolds == Spec => []Base
<1>1. Init => Codes /\ KeptApart
  BY IdleFields DEF Init, Codes, NoCode, At, KeptApart, Placed, Alone, CodeOps
<1> QED BY <1>1, Typing, CodesStep, KeptApartStep, PTL DEF Spec, Base

-----------------------------------------------------------------------------
(***************************************************************************)
(* Codes of clients that keep requests apart.                              *)
(***************************************************************************)
(* The key holds the code of the validation in progress, or nothing.       *)
HeldCode == apart => \A s \in Slots : At(s, "spend") => otp.n \in {0, reqs[s].held}

(* A step on the code removes it before its time only as it is used.       *)
LEMMA CodeStep ==
  Base /\ HeldCode /\ [Next]_vars =>
    /\ HeldCode'
    /\ apart /\ otp.left > 1 /\ otp' = NoCode => otp.n \in spent'
<1> SUFFICES ASSUME Base, HeldCode, [Next]_vars
             PROVE  /\ HeldCode'
                    /\ apart /\ otp.left > 1 /\ otp' = NoCode => otp.n \in spent'
  OBVIOUS
<1> USE DEF Base, At
<1>a. otp.left > 1 => otp # NoCode /\ otp.n # 0
  BY DEF NoCode, TypeOK, Numbers
<1>1. ASSUME NEW s \in Slots, Enter(s)
      PROVE  HeldCode' /\ otp' = otp
  <2>1. otp' = otp
    BY <1>1, EnterFields DEF codeVars
  <2> QED BY <1>1, <2>1, EnterFields DEF HeldCode, TypeOK
<1>b. ASSUME NEW s \in Slots, Onward(s), reqs'[s].at # "spend"
      PROVE  \A t \in Slots : reqs'[t].at = "spend" => t # s /\ reqs[t] = reqs'[t]
  BY <1>b DEF Onward, TypeOK
<1>2. ASSUME NEW s \in Slots, Proceed(s) \/ Fail(s)
      PROVE  /\ HeldCode'
             /\ apart /\ otp.left > 1 /\ otp' = NoCode => otp.n \in spent'
  <2>1. Onward(s) /\ UNCHANGED apart
    BY <1>2, ProceedOnward DEF Onward
  <2>2. reqs'[s].at # "spend"
    BY <1>2, ProceedPlaces
  <2>3. \A t \in Slots : reqs'[t].at = "spend" => t # s /\ reqs[t] = reqs'[t]
    BY <2>1, <2>2, <1>b
  <2>4. CASE ~IssueOtp(s) /\ ~SpendCode(s)
    <3>1. UNCHANGED otp
      BY <1>2, <2>4 DEF Proceed, Fail, QueueMail, SetPassword, PutObject, SaveFile,
                        SetAvatar, DeleteObject, DeleteRow, codeVars
    <3> QED BY <2>1, <2>3, <3>1, <1>a DEF HeldCode
  <2>5. CASE IssueOtp(s)
    <3>1. reqs[s].op = "otp" /\ otp'.n = reqs[s].n /\ reqs[s].n \in Numbers
      BY <2>5, RequestFields DEF IssueOtp, Issued, KeptApart, Placed, Places, Request
    <3>2. apart => \A t \in Slots : reqs'[t].at # "spend"
      BY <2>3, <3>1 DEF KeptApart, Placed, Alone, CodeOps
    <3>3. otp' # NoCode
      BY <3>1 DEF NoCode, Numbers
    <3> QED BY <2>1, <3>2, <3>3 DEF HeldCode
  <2>6. CASE SpendCode(s)
    <3>1. otp' = NoCode /\ spent' = spent \cup {reqs[s].held} /\ reqs[s].at = "spend"
      BY <2>6 DEF SpendCode
    <3>2. otp'.n = 0
      BY <3>1 DEF NoCode
    <3> QED BY <2>1, <3>1, <3>2, <1>a DEF HeldCode
  <2> QED BY <2>4, <2>5, <2>6
<1>3. ASSUME UNCHANGED <<reqs, apart>>, otp'.n \in {0, otp.n}
      PROVE  HeldCode'
  BY <1>3 DEF HeldCode
<1>4. ASSUME ResetPassword \/ \E n \in Numbers : SendMail(n)
      PROVE  HeldCode' /\ otp' = otp
  BY <1>3, <1>4 DEF SendMail, ResetPassword, codeVars
<1>5. CASE Tick
  <2>1. otp.left > 1 => otp' = [otp EXCEPT !.left = otp.left - 1]
    BY <1>5 DEF Tick
  <2>2. otp.left > 1 => otp' # NoCode
    <3>1. otp.left > 1 => otp \in [n : Numbers, left : 1 .. OtpTTL]
      BY DEF TypeOK, NoCode
    <3> QED BY <2>1, <3>1 DEF NoCode, Numbers
  <2>3. otp'.n \in {0, otp.n}
    BY <1>5 DEF Tick, NoCode, TypeOK
  <2> QED BY <1>3, <1>5, <2>2, <2>3 DEF Tick
<1>6. CASE UNCHANGED vars
  BY <1>3, <1>6, <1>a DEF vars, codeVars
<1> QED BY <1>1, <1>2, <1>4, <1>5, <1>6, <1>a DEF Next, Done

(* A client that handles one code after the other loses none before its    *)
(* time: validateOTPResetPassword deletes by key what it has read there.   *)
THEOREM OnlyUsedCodes == Spec => OnlyUsedCodesGo
<1>1. Init => HeldCode
  BY IdleFields DEF Init, HeldCode, At
<1>2. Base /\ HeldCode /\ [Next]_vars =>
        HeldCode' /\ [apart /\ otp.left > 1 /\ otp' = NoCode => otp.n \in spent']_vars
  BY CodeStep
<1> QED BY <1>1, <1>2, BaseHolds, PTL DEF Spec, OnlyUsedCodesGo

-----------------------------------------------------------------------------
(***************************************************************************)
(* Avatars.  Uploads that overlap are not after the last overlap, nor is   *)
(* the avatar that one of them leaves.  An upload after it is alone, finds *)
(* its own file where it put it, and deletes neither that file nor the one *)
(* the column names by then.                                               *)
(***************************************************************************)
Uploading(r) ==
  r.op = "upload" =>
    /\ avatar > overlap => r.n >= avatar
    /\ r.n > overlap =>
         /\ r.held # r.n
         /\ r.at \in {"object", "delete"} => r.held # avatar
         /\ r.at \in {"row", "column"} => r.n \in objects
         /\ r.at = "column" => r.n \in files

Uploads ==
  /\ AvatarIsThere
  /\ avatar <= started
  /\ apart => overlap = 0
  /\ \A s, t \in Uploaders : s # t => reqs[s].n <= overlap
  /\ \A s \in Slots : Uploading(reqs[s])

(* The numbers that it compares.                                           *)
LEMMA UploadNumbers ==
  ASSUME TypeOK
  PROVE  /\ avatar \in Nat /\ overlap \in Nat /\ started \in Nat
         /\ \A t \in Slots : reqs[t].n \in Nat
         /\ \A f \in files : f \in Nat
BY CodeNumbers, BoundAssumption DEF TypeOK, Numbers

(* A step of one slot: of the files it touches at most its own upload's.   *)
LEMMA UploadsKept ==
  ASSUME Base, Uploads, NEW s \in Slots, NEW q, reqs' = [reqs EXCEPT ![s] = q],
         UNCHANGED <<apart, started, overlap>>,
         q.op = "upload" => reqs[s].op = "upload" /\ q.n = reqs[s].n,
         \/ UNCHANGED fileVars
         \/ /\ reqs[s].op = "upload" /\ reqs[s].n <= started
            /\ avatar' \in {avatar, reqs[s].n} /\ AvatarIsThere',
         Uploading(q)'
  PROVE  Uploads'
<1> TypeOK
  BY DEF Base
<1>1. \A t \in Slots : reqs'[t] = IF t = s THEN q ELSE reqs[t]
  BY DEF TypeOK
<1>2. AvatarIsThere' /\ avatar' <= started' /\ (apart' => overlap' = 0)
  BY DEF Uploads, AvatarIsThere, fileVars
<1>3. \A v, t \in Uploaders' : v # t => reqs'[v].n <= overlap'
  BY <1>1 DEF Uploads, Uploaders
<1>4. ASSUME NEW t \in Slots
      PROVE  Uploading(reqs[t])'
  <2>1. CASE t = s
    BY <1>1, <2>1 DEF Uploading
  <2>2. CASE t # s /\ UNCHANGED fileVars
    BY <1>1, <2>2 DEF Uploads, Uploading, fileVars
  <2>3. CASE /\ t # s /\ reqs[s].op = "upload" /\ reqs[t].op = "upload"
             /\ avatar' \in {avatar, reqs[s].n}
    <3>1. reqs[s].n <= overlap /\ reqs[t].n <= overlap
      BY <2>3 DEF Uploads, Uploaders
    <3>2. ~(avatar > overlap)
      BY <2>3, <3>1, UploadNumbers DEF Uploads, Uploading
    <3>3. ~(avatar' > overlap') /\ ~(reqs'[t].n > overlap')
      BY <1>1, <2>3, <3>1, <3>2, UploadNumbers
    <3> QED BY <3>3 DEF Uploading
  <2>4. CASE t # s /\ reqs[t].op # "upload"
    BY <1>1, <2>4 DEF Uploading
  <2> QED BY <2>1, <2>2, <2>3, <2>4
<1> QED BY <1>2, <1>3, <1>4 DEF Uploads

(* The steps of an upload.                                                 *)
LEMMA UploadStep ==
  ASSUME Base, Uploads, NEW s \in Slots, Proceed(s)
  PROVE  Uploads'
<1> DEFINE r == reqs[s]
<1> USE DEF At
<1>a. TypeOK /\ reqs \in [Slots -> Request \cup {Idle}]
  BY DEF Base, TypeOK
<1>b. ASSUME r.at \in {"put", "row", "column", "object", "delete"}
      PROVE  /\ r \in Request /\ r.op = "upload" /\ r.n \in Nat /\ r.n # 0 /\ r.n <= started
             /\ Uploading(r)
  <2>1. r \in Request /\ r.op = "upload"
    BY <1>a, <1>b, RequestFields DEF Base, KeptApart, Placed, Places
  <2>2. r.n <= started
    BY DEF Base, Codes
  <2> QED BY <2>1, <2>2 DEF Uploads, Request, Numbers
<1>c. ASSUME NEW place \in {"row", "column", "object", "delete"}, Goto(s, place),
             r.at \in {"put", "row", "column", "object", "delete"}
      PROVE  \E q : /\ q.op = "upload" /\ q.at = place /\ q.n = r.n /\ q.held = r.held
                    /\ reqs' = [reqs EXCEPT ![s] = q] /\ UNCHANGED <<apart, started, overlap>>
  BY <1>a, <1>b, <1>c, GotoFields DEF Places, pastVars
<1>d. ASSUME Answer(s),
             \/ UNCHANGED fileVars
             \/ /\ r.op = "upload" /\ r.n <= started
                /\ avatar' \in {avatar, r.n} /\ AvatarIsThere'
      PROVE  Uploads'
  <2>1. reqs' = [reqs EXCEPT ![s] = Idle] /\ UNCHANGED <<apart, started, overlap>>
    BY <1>d DEF Answer, Continue, pastVars
  <2>2. Uploading(Idle)'
    BY IdleFields DEF Uploading
  <2> QED BY <1>d, <2>1, <2>2, UploadsKept, IdleFields
<1>n. /\ avatar \in Nat /\ overlap \in Nat /\ started \in Nat
      /\ \A t \in Slots : reqs[t].n \in Nat
  BY <1>a, UploadNumbers
<1>1. CASE IssueOtp(s) \/ QueueMail(s) \/ SpendCode(s) \/ SetPassword(s)
  <2>1. CASE Answer(s)
    BY <1>1, <2>1, <1>d
       DEF IssueOtp, Issued, QueueMail, SpendCode, SetPassword, PutObject, SaveFile, SetAvatar,
           DeleteObject, DeleteRow
  <2>2. CASE IssueOtp(s)
    <3>1. PICK q : /\ q.op = "otp" /\ reqs' = [reqs EXCEPT ![s] = q]
                   /\ UNCHANGED <<apart, started, overlap>>
      BY <1>a, <2>2, GotoFields DEF IssueOtp, Issued, Base, KeptApart, Placed, Places, pastVars
    <3>2. UNCHANGED fileVars
      BY <2>2 DEF IssueOtp, Issued
    <3> QED BY <3>1, <3>2, UploadsKept DEF Uploading
  <2> QED BY <1>1, <2>1, <2>2 DEF QueueMail, SpendCode, SetPassword
<1>2. CASE PutObject(s)
  <2>1. /\ objects' = objects \cup {r.n} /\ UNCHANGED <<avatar, files>>
        /\ r.at = "put" /\ r.op = "upload" /\ r.n <= started /\ Uploading(r)
    BY <1>2, <1>b DEF PutObject
  <2>2. PICK q : /\ q.op = "upload" /\ q.at = "row" /\ q.n = r.n /\ q.held = r.held
                 /\ reqs' = [reqs EXCEPT ![s] = q] /\ UNCHANGED <<apart, started, overlap>>
    BY <1>2, <1>c DEF PutObject
  <2>3. AvatarIsThere'
    BY <2>1, <2>2 DEF Uploads, AvatarIsThere
  <2>4. Uploading(q)'
    BY <2>1, <2>2 DEF Uploading
  <2> QED BY <2>1, <2>2, <2>3, <2>4, UploadsKept
<1>3. CASE SaveFile(s)
  <2>1. /\ files' = files \cup {r.n} /\ UNCHANGED <<avatar, objects>>
        /\ r.at = "row" /\ r.op = "upload" /\ r.n <= started /\ Uploading(r)
    BY <1>3, <1>b DEF SaveFile
  <2>2. PICK q : /\ q.op = "upload" /\ q.at = "column" /\ q.n = r.n /\ q.held = r.held
                 /\ reqs' = [reqs EXCEPT ![s] = q] /\ UNCHANGED <<apart, started, overlap>>
    BY <1>3, <1>c DEF SaveFile
  <2>3. AvatarIsThere'
    BY <2>1, <2>2 DEF Uploads, AvatarIsThere
  <2>4. Uploading(q)'
    BY <2>1, <2>2 DEF Uploading
  <2> QED BY <2>1, <2>2, <2>3, <2>4, UploadsKept
<1>4. CASE SetAvatar(s)
  <2>1. /\ avatar' = r.n /\ UNCHANGED <<objects, files, overlap>>
        /\ r.at = "column" /\ r.op = "upload" /\ r.n <= started /\ Uploading(r)
    BY <1>4, <1>b DEF SetAvatar, Answer, Goto, Continue, pastVars
  <2>2. AvatarIsThere'
    BY <2>1 DEF AvatarIsThere, Uploading
  <2>3. CASE r.held = 0
    BY <1>4, <1>d, <2>1, <2>2, <2>3 DEF SetAvatar
  <2>4. CASE r.held # 0
    <3>1. PICK q : /\ q.op = "upload" /\ q.at = "object" /\ q.n = r.n /\ q.held = r.held
                   /\ reqs' = [reqs EXCEPT ![s] = q] /\ UNCHANGED <<apart, started, overlap>>
      BY <1>4, <1>c, <2>1, <2>4 DEF SetAvatar
    <3>2. Uploading(q)'
      BY <1>n, <2>1, <3>1 DEF Uploading
    <3> QED BY <2>1, <2>2, <3>1, <3>2, UploadsKept
  <2> QED BY <2>3, <2>4
<1>5. CASE DeleteObject(s)
  <2>1. /\ objects' = objects \ {r.held} /\ UNCHANGED <<avatar, files>>
        /\ r.at = "object" /\ r.op = "upload" /\ r.n <= started /\ Uploading(r)
    BY <1>5, <1>b DEF DeleteObject
  <2>2. PICK q : /\ q.op = "upload" /\ q.at = "delete" /\ q.n = r.n /\ q.held = r.held
                 /\ reqs' = [reqs EXCEPT ![s] = q] /\ UNCHANGED <<apart, started, overlap>>
    BY <1>5, <1>c, <2>1 DEF DeleteObject
  <2>3. avatar > overlap => r.held # avatar
    BY <1>n, <2>1 DEF Uploading
  <2>4. AvatarIsThere'
    BY <2>1, <2>2, <2>3 DEF Uploads, AvatarIsThere
  <2>5. Uploading(q)'
    BY <2>1, <2>2 DEF Uploading
  <2> QED BY <2>1, <2>2, <2>4, <2>5, UploadsKept
<1>6. CASE DeleteRow(s)
  <2>1. /\ files' = files \ {r.held} /\ UNCHANGED <<avatar, objects, overlap>> /\ Answer(s)
        /\ r.at = "delete" /\ r.op = "upload" /\ r.n <= started /\ Uploading(r)
    BY <1>6, <1>b DEF DeleteRow, Answer, Continue, pastVars
  <2>2. avatar > overlap => r.held # avatar
    BY <1>n, <2>1 DEF Uploading
  <2>3. AvatarIsThere'
    BY <2>1, <2>2 DEF Uploads, AvatarIsThere
  <2> QED BY <1>d, <2>1, <2>3
<1> QED BY <1>1, <1>2, <1>3, <1>4, <1>5, <1>6 DEF Proceed

(* An upload that enters during another moves the last overlap to itself.  *)
LEMMA UploadEnters ==
  ASSUME Base, Uploads, NEW s \in Slots, Enter(s)
  PROVE  Uploads'
<1> TypeOK
  BY DEF Base
<1>1. PICK q \in Request :
         /\ reqs' = [reqs EXCEPT ![s] = q] /\ reqs[s] = Idle
         /\ q.n = started + 1 /\ started' = started + 1 /\ UNCHANGED apart
         /\ (q.op # "upload" \/ Uploaders = {}) => overlap' = overlap
         /\ q.op = "upload" /\ Uploaders # {} => overlap' = started'
         /\ apart => \A t \in Slots : reqs[t].op \notin Together(q.op)
         /\ q.op = "upload" => /\ q.at = "put"
                               /\ IF files = {} THEN q.held = 0 ELSE q.held \in files
         /\ UNCHANGED <<avatar, objects, files>>
  BY EnterFields DEF fileVars
<1>2. \A t \in Slots : reqs'[t] = IF t = s THEN q ELSE reqs[t]
  BY <1>1 DEF TypeOK
<1>n. /\ avatar \in Nat /\ overlap \in Nat /\ started \in Nat
      /\ \A t \in Slots : reqs[t].n \in Nat /\ reqs[t].n <= started
      /\ \A f \in files : f \in Nat /\ f <= started
  BY UploadNumbers DEF Base, Codes, KeptApart
<1>3. overlap' >= overlap \/ overlap' = started'
  BY <1>1, <1>n
<1>4. AvatarIsThere' /\ avatar' <= started'
  BY <1>1, <1>3, <1>n DEF Uploads, AvatarIsThere
<1>5. apart' => overlap' = 0
  <2>1. apart /\ q.op = "upload" => Uploaders = {}
    BY <1>1 DEF Together, Uploaders
  <2> QED BY <1>1, <2>1 DEF Uploads
<1>6. \A v, t \in Uploaders' : v # t => reqs'[v].n <= overlap'
  <2>1. CASE q.op = "upload" /\ Uploaders # {}
    BY <1>1, <1>2, <1>n, <2>1 DEF Uploaders
  <2>2. CASE q.op # "upload" \/ Uploaders = {}
    BY <1>1, <1>2, <2>2 DEF Uploads, Uploaders
  <2> QED BY <2>1, <2>2
<1>7. Uploading(q)'
  <2>1. q.op = "upload" => q.held # q.n
    BY <1>1, <1>n
  <2> QED BY <1>1, <1>n, <2>1 DEF Uploads, Uploading
<1>8. ASSUME NEW t \in Slots, t # s
      PROVE  Uploading(reqs[t])'
  <2>1. CASE overlap' = overlap
    BY <1>1, <1>2, <1>8, <2>1 DEF Uploads, Uploading
  <2>2. CASE overlap' = started'
    <3>1. ~(avatar' > overlap') /\ ~(reqs'[t].n > overlap')
      BY <1>1, <1>2, <1>8, <1>n, <2>2 DEF Uploads
    <3> QED BY <3>1 DEF Uploading
  <2> QED BY <1>1, <2>1, <2>2
<1> QED BY <1>2, <1>4, <1>5, <1>6, <1>7, <1>8 DEF Uploads, Uploading

(* Every step preserves the invariant.                                     *)
LEMMA UploadsStep == Base /\ Uploads /\ [Next]_vars => Uploads'
<1> SUFFICES ASSUME Base, Uploads, [Next]_vars
             PROVE  Uploads'
  OBVIOUS
<1>1. ASSUME NEW s \in Slots, Fail(s)
      PROVE  Uploads'
  <2>1. Uploading(Idle)'
    BY IdleFields DEF Uploading
  <2> QED BY <1>1, <2>1, UploadsKept, IdleFields DEF Fail
<1>2. ASSUME UNCHANGED <<reqs, apart, overlap, fileVars>>, started' \in {started, started + 1}
      PROVE  Uploads'
  <2>1. avatar' <= started'
    BY <1>2, UploadNumbers DEF Base, Uploads, fileVars
  <2> QED BY <1>2, <2>1 DEF Uploads, AvatarIsThere, Uploading, Uploaders, fileVars
<1>3. CASE ResetPassword \/ \E n \in Numbers : SendMail(n)
  BY <1>2, <1>3 DEF SendMail, ResetPassword, Admitted, pastVars
<1>4. CASE Tick \/ UNCHANGED vars
  BY <1>2, <1>4 DEF Tick, vars, pastVars
<1> QED BY <1>1, <1>3, <1>4, UploadStep, UploadEnters DEF Next, Done

(* It holds throughout.                                                    *)
LEMMA UploadsHold == Spec => []Uploads
<1>1. Init => Uploads
  <2> SUFFICES ASSUME Init
               PROVE  Uploads
    OBVIOUS
  <2>1. \A s \in Slots : reqs[s].op = "none"
    BY IdleFields DEF Init
  <2>2. avatar = 0 /\ overlap = 0 /\ started = 0
    BY DEF Init
  <2> QED BY <2>1, <2>2 DEF Uploads, AvatarIsThere, Uploading, Uploaders
<1> QED BY <1>1, BaseHolds, UploadsStep, PTL DEF Spec

(* The user's avatar is no broken link, wherever an upload stops, once one *)
(* came through that overlapped no other, whatever overlapped before it,   *)
(* and until two overlap again (uploadAvatar).                             *)
THEOREM AvatarShown == Spec => []AvatarIsThere
<1>1. Uploads => AvatarIsThere
  BY DEF Uploads
<1> QED BY <1>1, UploadsHold, PTL

-----------------------------------------------------------------------------
(***************************************************************************)
(* What an avatar leaves behind.  As long as no upload stopped halfway,    *)
(* the place of the one upload in progress says exactly what is in the     *)
(* bucket and in the table: the file shown, the new one, the old one.      *)
(***************************************************************************)
Image == {avatar} \ {0}

Clean == objects = Image /\ files = Image

Halfway(r) ==
  /\ r.at = "put" => r.held = avatar /\ Clean
  /\ r.at = "row" => r.held = avatar /\ files = Image /\ objects = Image \cup {r.n}
  /\ r.at = "column" => /\ r.held = avatar
                        /\ files = Image \cup {r.n} /\ objects = Image \cup {r.n}
  /\ r.at = "object" => /\ avatar = r.n
                        /\ files = {r.n, r.held} /\ objects = {r.n, r.held}
  /\ r.at = "delete" => avatar = r.n /\ files = {r.n, r.held} /\ objects = {r.n}

Tidy ==
  apart /\ ~failed =>
    /\ (\A s \in Slots : reqs[s].op # "upload") => Clean
    /\ \A s \in Slots : reqs[s].op = "upload" => Halfway(reqs[s])

(* A step that is no step of an upload leaves the files as they are.       *)
LEMMA TidyElsewhere ==
  ASSUME Base, Tidy, NEW s \in Slots, NEW q, reqs' = [reqs EXCEPT ![s] = q],
         reqs[s].op # "upload", q.op # "upload", UNCHANGED <<apart, failed, fileVars>>
  PROVE  Tidy'
<1> SUFFICES ASSUME apart, ~failed
             PROVE  /\ (\A t \in Slots : reqs'[t].op # "upload") => Clean'
                    /\ \A t \in Slots : reqs'[t].op = "upload" => Halfway(reqs[t])'
  BY DEF Tidy
<1>1. \A t \in Slots : reqs'[t] = IF t = s THEN q ELSE reqs[t]
  BY DEF Base, TypeOK
<1>2. UNCHANGED <<avatar, objects, files>>
  BY DEF fileVars
<1>3. (\A t \in Slots : reqs'[t].op # "upload") => \A t \in Slots : reqs[t].op # "upload"
  BY <1>1
<1>4. (\A t \in Slots : reqs'[t].op # "upload") => Clean'
  BY <1>2, <1>3 DEF Tidy, Clean, Image
<1>5. ASSUME NEW t \in Slots, reqs'[t].op = "upload"
      PROVE  Halfway(reqs[t])'
  <2>1. reqs'[t] = reqs[t] /\ Halfway(reqs[t])
    BY <1>1, <1>5 DEF Tidy
  <2> QED BY <1>2, <2>1 DEF Halfway, Clean, Image
<1> QED BY <1>4, <1>5

(* A step of the upload: it is the only one, so its place says it all.     *)
LEMMA TidyUpload ==
  ASSUME Base, apart, NEW s \in Slots, NEW q, reqs' = [reqs EXCEPT ![s] = q],
         reqs[s].op = "upload" \/ \A t \in Slots : reqs[t].op # "upload",
         q.op # "upload" => Clean', q.op = "upload" => Halfway(q)'
  PROVE  Tidy'
<1>1. \A t \in Slots : reqs'[t] = IF t = s THEN q ELSE reqs[t]
  BY DEF Base, TypeOK
<1>2. \A t \in Slots : t # s => reqs'[t].op # "upload"
  BY <1>1 DEF Base, KeptApart, Alone
<1>3. ASSUME NEW t \in Slots, reqs'[t].op = "upload"
      PROVE  Halfway(reqs[t])'
  BY <1>1, <1>2, <1>3 DEF Halfway
<1>4. (\A t \in Slots : reqs'[t].op # "upload") => Clean'
  BY <1>1
<1> QED BY <1>3, <1>4 DEF Tidy

(* The steps of the requests in progress.                                  *)
LEMMA TidyProceed ==
  ASSUME Base, Uploads, Tidy, NEW s \in Slots, Proceed(s)
  PROVE  Tidy'
<1> DEFINE r == reqs[s]
<1> USE DEF At
<1>1. /\ TypeOK /\ Placed /\ UNCHANGED <<failed, apart>>
  <2>1. UNCHANGED failed
    BY DEF Proceed, IssueOtp, Issued, QueueMail, SpendCode, SetPassword, PutObject, SaveFile,
           SetAvatar, DeleteObject, DeleteRow, Answer, Goto, Continue, pastVars
  <2> QED BY <2>1, ProceedOnward DEF Base, KeptApart, Onward
<1> SUFFICES ASSUME apart, ~failed
             PROVE  Tidy'
  BY <1>1 DEF Tidy
<1>2. ASSUME r.op # "upload"
      PROVE  Tidy'
  <2>1. PICK q : reqs' = [reqs EXCEPT ![s] = q] /\ q.op # "upload"
    BY <1>1, <1>2, ProceedOnward, IdleFields DEF Onward
  <2>2. UNCHANGED fileVars
    BY <1>1, <1>2 DEF Placed, Proceed, IssueOtp, Issued, QueueMail, SpendCode, SetPassword,
                      PutObject, SaveFile, SetAvatar, DeleteObject, DeleteRow
  <2> QED BY <1>1, <1>2, <2>1, <2>2, TidyElsewhere
<1>3. ASSUME r.op = "upload"
      PROVE  Tidy'
  <2>1. /\ r.at \in {"put", "row", "column", "object", "delete"}
        /\ r \in Request /\ r.n # 0 /\ Uploading(r) /\ Halfway(r)
    <3>1. r.at \in {"put", "row", "column", "object", "delete"}
      BY <1>1, <1>3 DEF Placed
    <3>2. r \in Request /\ Uploading(r) /\ Halfway(r)
      BY <1>1, <1>3, <3>1, RequestFields DEF Uploads, Tidy, Places
    <3> QED BY <3>1, <3>2 DEF Request, Numbers
  <2>2. r.held # r.n
    <3>1. overlap = 0 /\ r.n \in Nat
      BY <1>1, UploadNumbers DEF Uploads
    <3> QED BY <1>3, <2>1, <3>1 DEF Uploading
  <2>3. ASSUME NEW place \in {"row", "column", "object", "delete"}, Goto(s, place)
        PROVE  \E q : /\ q.op = "upload" /\ q.at = place /\ q.n = r.n /\ q.held = r.held
                      /\ reqs' = [reqs EXCEPT ![s] = q]
    BY <1>1, <1>3, <2>1, <2>3, GotoFields DEF Places
  <2>4. ASSUME Answer(s), Clean'
        PROVE  Tidy'
    BY <1>3, <2>4, TidyUpload, IdleFields DEF Answer, Continue
  <2>5. CASE PutObject(s)
    <3>1. /\ objects' = objects \cup {r.n} /\ UNCHANGED <<avatar, files>>
          /\ Goto(s, "row") /\ r.at = "put"
      BY <2>5 DEF PutObject
    <3>2. PICK q : /\ q.op = "upload" /\ q.at = "row" /\ q.n = r.n /\ q.held = r.held
                   /\ reqs' = [reqs EXCEPT ![s] = q]
      BY <2>3, <3>1
    <3>3. Halfway(q)'
      BY <2>1, <3>1, <3>2 DEF Halfway, Clean, Image
    <3> QED BY <1>3, <3>2, <3>3, TidyUpload
  <2>6. CASE SaveFile(s)
    <3>1. /\ files' = files \cup {r.n} /\ UNCHANGED <<avatar, objects>>
          /\ Goto(s, "column") /\ r.at = "row"
      BY <2>6 DEF SaveFile
    <3>2. PICK q : /\ q.op = "upload" /\ q.at = "column" /\ q.n = r.n /\ q.held = r.held
                   /\ reqs' = [reqs EXCEPT ![s] = q]
      BY <2>3, <3>1
    <3>3. Halfway(q)'
      BY <2>1, <3>1, <3>2 DEF Halfway, Clean, Image
    <3> QED BY <1>3, <3>2, <3>3, TidyUpload
  <2>7. CASE SetAvatar(s)
    <3>1. /\ avatar' = r.n /\ UNCHANGED <<objects, files>> /\ r.at = "column"
          /\ IF r.held = 0 THEN Answer(s) ELSE Goto(s, "object")
      BY <2>7 DEF SetAvatar
    <3>2. r.held = avatar /\ files = Image \cup {r.n} /\ objects = Image \cup {r.n}
      BY <2>1, <3>1 DEF Halfway
    <3>3. CASE r.held = 0
      <4>1. Clean'
        BY <2>1, <3>1, <3>2, <3>3 DEF Clean, Image
      <4> QED BY <2>4, <3>1, <3>3, <4>1
    <3>4. CASE r.held # 0
      <4>1. PICK q : /\ q.op = "upload" /\ q.at = "object" /\ q.n = r.n /\ q.held = r.held
                     /\ reqs' = [reqs EXCEPT ![s] = q]
        BY <2>3, <3>1, <3>4
      <4>2. Halfway(q)'
        BY <3>1, <3>2, <3>4, <4>1 DEF Halfway, Image
      <4> QED BY <1>3, <4>1, <4>2, TidyUpload
    <3> QED BY <3>3, <3>4
  <2>8. CASE DeleteObject(s)
    <3>1. /\ objects' = objects \ {r.held} /\ UNCHANGED <<avatar, files>>
          /\ Goto(s, "delete") /\ r.at = "object"
      BY <2>8 DEF DeleteObject
    <3>2. PICK q : /\ q.op = "upload" /\ q.at = "delete" /\ q.n = r.n /\ q.held = r.held
                   /\ reqs' = [reqs EXCEPT ![s] = q]
      BY <2>3, <3>1
    <3>3. Halfway(q)'
      BY <2>1, <2>2, <3>1, <3>2 DEF Halfway
    <3> QED BY <1>3, <3>2, <3>3, TidyUpload
  <2>9. CASE DeleteRow(s)
    <3>1. /\ files' = files \ {r.held} /\ UNCHANGED <<avatar, objects>>
          /\ Answer(s) /\ r.at = "delete"
      BY <2>9 DEF DeleteRow
    <3>2. Clean'
      BY <2>1, <2>2, <3>1 DEF Halfway, Clean, Image
    <3> QED BY <2>4, <3>1, <3>2
  <2> QED BY <2>1, <2>5, <2>6, <2>7, <2>8, <2>9
          DEF Proceed, IssueOtp, Issued, QueueMail, SpendCode, SetPassword
<1> QED BY <1>2, <1>3

(* Every step preserves the invariant.                                     *)
LEMMA TidyStep == Base /\ Uploads /\ Tidy /\ [Next]_vars => Tidy'
<1> SUFFICES ASSUME Base, Uploads, Tidy, [Next]_vars
             PROVE  Tidy'
  OBVIOUS
<1>a. TypeOK
  BY DEF Base
<1>1. ASSUME NEW s \in Slots, Enter(s)
      PROVE  Tidy'
  <2>1. PICK q \in Request :
           /\ reqs' = [reqs EXCEPT ![s] = q] /\ reqs[s] = Idle /\ UNCHANGED <<failed, apart>>
           /\ apart => \A t \in Slots : reqs[t].op \notin Together(q.op)
           /\ q.op = "upload" => /\ q.at = "put"
                                 /\ IF files = {} THEN q.held = 0 ELSE q.held \in files
           /\ UNCHANGED fileVars
    BY <1>a, <1>1, EnterFields
  <2>2. CASE q.op # "upload"
    BY <2>1, <2>2, TidyElsewhere, IdleFields
  <2>3. CASE q.op = "upload"
    <3>1. SUFFICES ASSUME apart, ~failed
                   PROVE  Tidy'
      BY <2>1 DEF Tidy
    <3>2. \A t \in Slots : reqs[t].op # "upload"
      BY <2>1, <2>3, <3>1 DEF Together
    <3>3. Clean
      BY <3>1, <3>2 DEF Tidy
    <3>4. q.held = avatar
      BY <2>1, <2>3, <3>3 DEF Clean, Image
    <3>5. Halfway(q)'
      BY <2>1, <2>3, <3>3, <3>4 DEF Halfway, Clean, Image, fileVars
    <3> QED BY <2>1, <2>3, <3>1, <3>2, <3>5, TidyUpload
  <2> QED BY <2>2, <2>3
<1>2. ASSUME NEW s \in Slots, Fail(s)
      PROVE  Tidy'
  <2>1. reqs' = [reqs EXCEPT ![s] = Idle] /\ UNCHANGED <<fileVars, apart>>
        /\ failed' = (failed \/ reqs[s].op = "upload") /\ failed \in BOOLEAN
    BY <1>a, <1>2 DEF Fail, TypeOK
  <2>2. CASE reqs[s].op = "upload"
    BY <2>1, <2>2 DEF Tidy
  <2>3. CASE reqs[s].op # "upload"
    BY <2>1, <2>3, TidyElsewhere, IdleFields
  <2> QED BY <2>2, <2>3
<1>3. ASSUME UNCHANGED <<reqs, apart, failed, fileVars>>
      PROVE  Tidy'
  BY <1>3 DEF Tidy, Halfway, Clean, Image, fileVars
<1>4. CASE ResetPassword \/ \E n \in Numbers : SendMail(n)
  BY <1>3, <1>4 DEF SendMail, ResetPassword, pastVars
<1>5. CASE Tick \/ UNCHANGED vars
  BY <1>3, <1>5 DEF Tick, vars, pastVars
<1> QED BY <1>1, <1>2, <1>4, <1>5, TidyProceed DEF Next, Done

(* A user who uploads one avatar after the other, none of them stopping    *)
(* halfway, has in the bucket and in the table the file that is shown and  *)
(* no other (uploadAvatar, deleteFile).                                    *)
THEOREM OldFilesGo == Spec => []NothingLeftOver
<1>1. Init => Tidy
  BY IdleFields DEF Init, Tidy, Clean, Image, Halfway
<1>2. Tidy => NothingLeftOver
  BY DEF Tidy, NothingLeftOver, Clean, Image, Uploaders
<1> QED BY <1>1, <1>2, BaseHolds, UploadsHold, TidyStep, PTL DEF Spec
=============================================================================
