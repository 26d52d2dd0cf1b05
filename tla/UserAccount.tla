----------------------------- MODULE UserAccount -----------------------------
(***************************************************************************)
(* What one user changes of the own account: the password, with the code   *)
(* by mail that is to come before its reset (a Redis key), and the avatar, *)
(* which lives in three places: the bucket of the object store, the table  *)
(* file and the column users.avatar.  The account exists throughout:       *)
(* nothing in the code deletes a user, so no UPDATE of the row affects 0   *)
(* rows.                                                                   *)
(*                                                                         *)
(* A request in progress occupies a slot, and each of its awaited calls is *)
(* a step.  Its number n stands for what is new in it: the password typed  *)
(* in, the random code, the UUID in the key of the file.  A request that   *)
(* its first read turns away changes nothing and is no step.               *)
(***************************************************************************)
EXTENDS Integers, FiniteSets

CONSTANTS
  Slots,          \* requests that may be in progress at the same time
  OtpTTL,         \* sendEmailOTPChangePassword: lifetime of a code
  MaxRequests     \* requests handled in a behaviour

ASSUME TTLAssumption == OtpTTL \in Nat \ {0}
ASSUME BoundAssumption == MaxRequests \in Nat

VARIABLES
  password,       \* users.password: who set it, 0 at registration
  otp,            \* otp reset password <email>
  queue,          \* the codes in mail jobs
  inbox,          \* the codes that arrived
  spent,          \* history: codes whose validation was answered
  avatar,         \* users.avatar: the file its URL names, 0 for NULL
  objects,        \* the keys in the bucket
  files,          \* the rows of file with the user as author
  failed,         \* history: has an upload stopped halfway?
  overlap,        \* history: the last upload that entered during another, or 0
  reqs,
  started,
  apart           \* do clients keep requests on the same data apart?

codeVars == <<otp, queue, inbox, spent>>
fileVars == <<avatar, objects, files>>
pastVars == <<failed, overlap>>
vars     == <<password, codeVars, fileVars, pastVars, reqs, started, apart>>

Numbers == 1 .. MaxRequests
NoCode  == [n |-> 0, left |-> 0]
Idle    == [op |-> "none", at |-> "idle", n |-> 0, held |-> 0]

(* held: the code, the file or the password that the request read.         *)
Request ==
  [op   : {"otp", "validate", "change", "upload"},
   at   : {"issue", "mail", "spend", "set", "put", "row", "column", "object", "delete"},
   n    : Numbers,
   held : 0 .. MaxRequests]

TypeOK ==
  /\ password \in 0 .. MaxRequests
  /\ otp \in [n : Numbers, left : 1 .. OtpTTL] \cup {NoCode}
  /\ queue \in SUBSET Numbers
  /\ inbox \in SUBSET Numbers
  /\ spent \in SUBSET Numbers
  /\ avatar \in 0 .. MaxRequests
  /\ objects \in SUBSET Numbers
  /\ files \in SUBSET Numbers
  /\ failed \in BOOLEAN
  /\ overlap \in 0 .. MaxRequests
  /\ reqs \in [Slots -> Request \cup {Idle}]
  /\ started \in 0 .. MaxRequests
  /\ apart \in BOOLEAN

Init ==
  /\ password = 0
  /\ otp = NoCode
  /\ queue = {} /\ inbox = {} /\ spent = {}
  /\ avatar = 0
  /\ objects = {} /\ files = {}
  /\ failed = FALSE
  /\ overlap = 0
  /\ reqs = [s \in Slots |-> Idle]
  /\ started = 0
  /\ apart \in BOOLEAN

-----------------------------------------------------------------------------
At(s, place) == reqs[s].at = place
Uploaders    == {s \in Slots : reqs[s].op = "upload"}

(* Requests that touch the same key or files.  GET .../otp/:token is   *)
(* answered before its work is done, so it takes more than waiting for     *)
(* answers to keep it apart from the next request.                         *)
Together(op) ==
  CASE op \in {"otp", "validate"}  -> {"otp", "validate"}
    [] op = "upload"               -> {"upload"}
    [] op \in {"change", "reset"}  -> {}

Admitted(op) ==
  /\ started < MaxRequests
  /\ apart => \A t \in Slots : reqs[t].op \notin Together(op)
  /\ started' = started + 1

Receive(s, op, place, held) ==
  /\ reqs[s] = Idle
  /\ Admitted(op)
  /\ reqs' = [reqs EXCEPT ![s] = [op |-> op, at |-> place, n |-> started + 1, held |-> held]]
  /\ overlap' = IF op = "upload" /\ Uploaders # {} THEN started + 1 ELSE overlap
  /\ UNCHANGED <<failed, apart>>

Continue(s, request) ==
  /\ reqs' = [reqs EXCEPT ![s] = request]
  /\ UNCHANGED <<pastVars, started, apart>>

Goto(s, place) == Continue(s, [reqs[s] EXCEPT !.at = place])
Answer(s)      == Continue(s, Idle)

-----------------------------------------------------------------------------
(***************************************************************************)
(* A code by mail.  The controller does not await the service: the caller  *)
(* is told that the code was sent before it is stored.                     *)
(***************************************************************************)
GetOTPForgotPassword(s) ==
  /\ Receive(s, "otp", "issue", 0)
  /\ UNCHANGED <<password, codeVars, fileVars>>

Issued(s, lifetime) ==
  /\ At(s, "issue")
  /\ otp' = [n |-> reqs[s].n, left |-> lifetime]
  /\ Goto(s, "mail")
  /\ UNCHANGED <<password, queue, inbox, spent, fileVars>>

\* Mutant of IssueOtp: the lifetime is given in milliseconds.
IssueOtpTooLong(s) == Issued(s, 1000 * OtpTTL)
IssueOtp(s) == Issued(s, OtpTTL)

QueueMail(s) ==
  /\ At(s, "mail")
  /\ queue' = queue \cup {reqs[s].n}
  /\ Answer(s)
  /\ UNCHANGED <<password, otp, inbox, spent, fileVars>>

(* handleSendOTPRetrievePassword: a failed job is not tried again.         *)
SendMail(n) ==
  /\ n \in queue
  /\ queue' = queue \ {n}
  /\ \/ inbox' = inbox \cup {n}
     \/ UNCHANGED inbox
  /\ UNCHANGED <<password, otp, spent, fileVars, pastVars, reqs, started, apart>>

\* Mutant of ValidateOTP: the key is deleted before the codes are compared.
ValidateAnyOTP(s, code) ==
  /\ code \in inbox /\ otp # NoCode
  /\ Receive(s, "validate", "spend", code)
  /\ UNCHANGED <<password, codeVars, fileVars>>

(* validateOTPResetPassword reads the key, then deletes it, whatever it    *)
(* holds by then.                                                          *)
ValidateOTP(s, code) ==
  /\ code \in inbox
  /\ otp.n = code
  /\ Receive(s, "validate", "spend", code)
  /\ UNCHANGED <<password, codeVars, fileVars>>

\* Mutant of SpendCode: deleteCache is not called.
SpendCodeOnPaper(s) ==
  /\ At(s, "spend")
  /\ spent' = spent \cup {reqs[s].held}
  /\ Answer(s)
  /\ UNCHANGED <<password, otp, queue, inbox, fileVars>>

SpendCode(s) ==
  /\ At(s, "spend")
  /\ otp' = NoCode
  /\ spent' = spent \cup {reqs[s].held}
  /\ Answer(s)
  /\ UNCHANGED <<password, queue, inbox, fileVars>>

(* One UPDATE.  The guard takes any token signed with the secret of the    *)
(* resets for this user.  A validated code earns such a token, and so does *)
(* POST /user/identify, of everybody who names the account: no code has to *)
(* come before.                                                            *)
ResetPassword ==
  /\ Admitted("reset")
  /\ password' = started'
  /\ UNCHANGED <<codeVars, fileVars, pastVars, reqs, apart>>

(* changeUserPassword compares the old password with the column, hashes    *)
(* the new one and updates the column, whatever the column is by then.     *)
ChangePassword(s, old) ==
  /\ old = password
  /\ Receive(s, "change", "set", old)
  /\ UNCHANGED <<password, codeVars, fileVars>>

SetPassword(s) ==
  /\ At(s, "set")
  /\ password' = reqs[s].n
  /\ Answer(s)
  /\ UNCHANGED <<codeVars, fileVars>>

-----------------------------------------------------------------------------
(***************************************************************************)
(* uploadAvatar: find a file of the user (findOne without an order: any),  *)
(* put the new one into the bucket, save its row, update the user, delete  *)
(* the file that was found, then its row.                                  *)
(***************************************************************************)
UploadAvatar(s, old) ==
  /\ IF files = {} THEN old = 0 ELSE old \in files
  /\ Receive(s, "upload", "put", old)
  /\ UNCHANGED <<password, codeVars, fileVars>>

PutObject(s) ==
  /\ At(s, "put")
  /\ objects' = objects \cup {reqs[s].n}
  /\ Goto(s, "row")
  /\ UNCHANGED <<password, codeVars, avatar, files>>

\* Mutant of SaveFile: the old file is looked for after the new one is saved.
SaveFileThenFind(s) ==
  /\ At(s, "row")
  /\ files' = files \cup {reqs[s].n}
  /\ \E old \in files' : Continue(s, [reqs[s] EXCEPT !.at = "column", !.held = old])
  /\ UNCHANGED <<password, codeVars, avatar, objects>>

SaveFile(s) ==
  /\ At(s, "row")
  /\ files' = files \cup {reqs[s].n}
  /\ Goto(s, "column")
  /\ UNCHANGED <<password, codeVars, avatar, objects>>

SetAvatar(s) ==
  /\ At(s, "column")
  /\ avatar' = reqs[s].n
  /\ IF reqs[s].held = 0 THEN Answer(s) ELSE Goto(s, "object")
  /\ UNCHANGED <<password, codeVars, objects, files>>

\* Mutant of DeleteObject: the row of the deleted file is left behind.
DeleteObjectOnly(s) ==
  /\ At(s, "object")
  /\ objects' = objects \ {reqs[s].held}
  /\ Answer(s)
  /\ UNCHANGED <<password, codeVars, avatar, files>>

DeleteObject(s) ==
  /\ At(s, "object")
  /\ objects' = objects \ {reqs[s].held}
  /\ Goto(s, "delete")
  /\ UNCHANGED <<password, codeVars, avatar, files>>

DeleteRow(s) ==
  /\ At(s, "delete")
  /\ files' = files \ {reqs[s].held}
  /\ Answer(s)
  /\ UNCHANGED <<password, codeVars, avatar, objects>>

-----------------------------------------------------------------------------
(* An awaited call throws, or the process stops: nothing is undone.  The   *)
(* stop of the process is this step for every request in progress.         *)
Fail(s) ==
  /\ reqs[s] # Idle
  /\ reqs' = [reqs EXCEPT ![s] = Idle]
  /\ failed' = (failed \/ reqs[s].op = "upload")
  /\ UNCHANGED <<password, codeVars, fileVars, overlap, started, apart>>

(* The code ages.                                                          *)
Tick ==
  /\ otp # NoCode
  /\ otp' = IF otp.left > 1 THEN [otp EXCEPT !.left = @ - 1] ELSE NoCode
  /\ UNCHANGED <<password, queue, inbox, spent, fileVars, pastVars, reqs, started, apart>>

(* The end of a bounded behaviour.                                         *)
Done ==
  /\ started = MaxRequests
  /\ \A s \in Slots : reqs[s] = Idle
  /\ UNCHANGED vars

Enter(s) ==
  \/ GetOTPForgotPassword(s)
  \/ \E code \in Numbers : ValidateOTP(s, code)
  \/ \E old \in 0 .. MaxRequests : ChangePassword(s, old) \/ UploadAvatar(s, old)

Proceed(s) ==
  \/ IssueOtp(s)
  \/ QueueMail(s)
  \/ SpendCode(s)
  \/ SetPassword(s)
  \/ PutObject(s)
  \/ SaveFile(s)
  \/ SetAvatar(s)
  \/ DeleteObject(s)
  \/ DeleteRow(s)

Next ==
  \/ \E s \in Slots : Enter(s) \/ Proceed(s) \/ Fail(s)
  \/ \E n \in Numbers : SendMail(n)
  \/ ResetPassword
  \/ Tick
  \/ Done

Spec == Init /\ [][Next]_vars

-----------------------------------------------------------------------------
(***************************************************************************)
(* Properties.                                                             *)
(***************************************************************************)
(* The avatar of an upload that overlapped no other can be shown until two *)
(* uploads overlap again, wherever this upload or earlier ones stopped and *)
(* whatever overlapping ones left behind: the file that the column names   *)
(* is in the bucket and has its row (uploadAvatar, deleteFile).            *)
AvatarIsThere == avatar > overlap => avatar \in objects \cap files

(* With uploads kept apart, and none that stopped halfway, an avatar leaves*)
(* nothing of the earlier ones behind (getUserAvatar, deleteFile).         *)
NothingLeftOver ==
  apart /\ ~failed /\ Uploaders = {} =>
    objects = files /\ files = {avatar} \ {0}

(* A code that opened the form for a new password does not open it again   *)
(* for anyone who comes later, whatever codes were asked for, stored late  *)
(* or lost since (sendEmailOTPChangePassword, validateOTPResetPassword).   *)
SpentCodesAreGone == otp.n \notin spent

(* With requests on the code kept apart, a code lasts as long as the mail  *)
(* says unless it is used or replaced: validateOTPResetPassword deletes by *)
(* key and must not hit a code that it was not given.                      *)
OnlyUsedCodesGo ==
  [][ apart /\ otp.left > 1 /\ otp' = NoCode => otp.n \in spent' ]_vars
=============================================================================
