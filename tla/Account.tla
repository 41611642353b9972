-------------------------------- MODULE Account --------------------------------
(****************************************************************************)
(* One account at the API (auth/auth.service.ts): signup, the verification  *)
(* mails and their links, sign-in, and the refresh token, of which the      *)
(* server keeps one row per user.  Requests run concurrently; a request is  *)
(* at one of its awaits:                                                    *)
(*   check, insert   signup, around its look at users and its transaction   *)
(*   lock, insert    resendVerification, waiting for FOR UPDATE, holding it *)
(*   read, write     verifyEmail, around its SELECT and its transaction     *)
(*   read, issue     signin and refresh, around their reads and the upsert  *)
(*   delete          refresh, having found the row expired                  *)
(* or it has answered with ok, denied, forbidden or failed.                 *)
(*                                                                          *)
(* Time is left to the environment: a mail leaves the cooldown, a token, a  *)
(* link or a row expires, each when it likes.                               *)
(****************************************************************************)
EXTENDS Integers, FiniteSets

CONSTANTS
    Request,   \* requests that may run at one time
    MaxMails,  \* bound: verification tokens kept at one time
    MaxIssued, \* bound: refresh tokens issued
    MaxFaults  \* bound: requests that die, answers that are lost

ASSUME AccountAssumption ==
    MaxMails \in Nat \ {0} /\ MaxIssued \in Nat /\ MaxFaults \in Nat

VARIABLES
    user,   \* the row of users
    mail,   \* email_verification_tokens, each committed with its outbox event
    row,    \* refresh_tokens: the token it was made of, and whether it is valid
    issued, \* refresh tokens signed so far, numbered from 1
    dead,   \* those of them whose JWT has expired
    req,    \* the requests
    faults

serverVars == <<user, mail, row, issued, dead, req, faults>>

Mail == 1 .. MaxMails
Token == 0 .. MaxIssued
MailState == {"none", "recent", "old", "expired", "over"}
Kind == {"none", "signup", "resend", "verify", "signin", "refresh"}
Answer == {"ok", "denied", "forbidden", "failed"}
Pc == {"none", "check", "lock", "insert", "read", "write", "issue", "delete"} \cup Answer
RequestState == [kind : Kind, pc : Pc, arg : Nat, waited : BOOLEAN, saw : Token]

Free == [kind |-> "none", pc |-> "none", arg |-> 0, waited |-> FALSE, saw |-> 0]
NoRow == [token |-> 0, valid |-> FALSE]

Fault == faults < MaxFaults /\ faults' = faults + 1

\* A request starts; somebody waits for its answer, or nobody whom it changes.
Open(r, kind, pc, arg, waited) ==
    /\ req[r] = Free
    /\ req' = [req EXCEPT ![r] = [Free EXCEPT !.kind = kind, !.pc = pc,
                                              !.arg = arg, !.waited = waited]]

At(r, kind, pc) == req[r].kind = kind /\ req[r].pc = pc
Go(r, pc) == req' = [req EXCEPT ![r].pc = pc]
\* It answers a; arg is what the answer carries.
Reply(r, a, arg) ==
    req' = [req EXCEPT ![r] = IF @.waited THEN [@ EXCEPT !.pc = a, !.arg = arg] ELSE Free]
\* The app takes the answer, or gives up waiting for it.
Close(r) ==
    req' = [req EXCEPT ![r] = IF @.pc \in Answer THEN Free ELSE [@ EXCEPT !.waited = FALSE]]

ServerInit ==
    /\ user = "absent"
    /\ mail = [m \in Mail |-> "none"]
    /\ row = NoRow /\ issued = 0 /\ dead = {}
    /\ req = [r \in Request |-> Free]
    /\ faults = 0

------------------------------------------------------------------------------
(* Signup and the verification mails *)

LockIgnored == TRUE  \* mutant: without FOR UPDATE nobody waits

\* No resendVerification holds the user's row.
LockFree == \A r \in Request : ~At(r, "resend", "insert")

\* buildVerification: the next token, and the mail event committed with it.
Unused(m) == mail[m] \in {"none", "over"} /\ \A k \in 1 .. m - 1 : mail[k] # "none"
Mailed(m) == [mail EXCEPT ![m] = "recent"]

Recent == {m \in Mail : mail[m] = "recent"}
WithoutExpired == [m \in Mail |-> IF mail[m] = "expired" THEN "none" ELSE mail[m]]

SignupStart(r) ==
    /\ Open(r, "signup", "check", 0, FALSE)
    /\ user = "absent"
    /\ UNCHANGED <<user, mail, row, issued, dead, faults>>

SignupCheck(r) ==
    /\ At(r, "signup", "check")
    /\ IF user = "absent" THEN Go(r, "insert") ELSE Reply(r, "denied", 0)
    /\ UNCHANGED <<user, mail, row, issued, dead, faults>>

\* The transaction; the unique indexes refuse a second user.
SignupInsert(r) ==
    /\ At(r, "signup", "insert")
    /\ IF user = "absent"
       THEN /\ \E m \in Mail : Unused(m) /\ mail' = Mailed(m)
            /\ user' = "unverified" /\ Reply(r, "ok", 0)
       ELSE Reply(r, "denied", 0) /\ UNCHANGED <<user, mail>>
    /\ UNCHANGED <<row, issued, dead, faults>>

ResendStart(r) ==
    /\ Open(r, "resend", "lock", 0, FALSE)
    /\ user = "unverified"
    /\ UNCHANGED <<user, mail, row, issued, dead, faults>>

\* SELECT ... FOR UPDATE of the unverified user, the DELETE of expired tokens and
\* the look for a recent one; the transaction ends here when there is one.
ResendLock(r) ==
    /\ At(r, "resend", "lock") /\ LockFree
    /\ IF user = "unverified" /\ Recent = {}
       THEN Go(r, "insert") /\ UNCHANGED mail
       ELSE /\ mail' = IF user = "unverified" THEN WithoutExpired ELSE mail
            /\ Reply(r, "ok", 0)
    /\ UNCHANGED <<user, row, issued, dead, faults>>

\* The INSERTs and the commit, which also makes the DELETE visible.
ResendInsert(r) ==
    /\ At(r, "resend", "insert")
    /\ \E m \in Mail :
         Unused(m) /\ mail' = [WithoutExpired EXCEPT ![m] = "recent"]
    /\ Reply(r, "ok", 0)
    /\ UNCHANGED <<user, row, issued, dead, faults>>

\* Somebody opens the link of mail m.
VerifyStart(r, m) ==
    /\ Open(r, "verify", "read", m, FALSE)
    /\ user = "unverified" /\ mail[m] # "none"
    /\ UNCHANGED <<user, mail, row, issued, dead, faults>>

\* The SELECT takes no lock.
VerifyRead(r) ==
    /\ At(r, "verify", "read")
    /\ IF user = "unverified" /\ mail[req[r].arg] \in {"recent", "old"}
       THEN Go(r, "write") ELSE Reply(r, "ok", 0)
    /\ UNCHANGED <<user, mail, row, issued, dead, faults>>

\* The UPDATE of users waits for a resend that holds the row.  From here on
\* nothing reads how many mails this user was sent and when: they are "over".
VerifyWrite(r) ==
    /\ At(r, "verify", "write") /\ LockFree
    /\ user' = "verified" /\ Reply(r, "ok", 0)
    /\ mail' = [m \in Mail |-> "over"]
    /\ UNCHANGED <<row, issued, dead, faults>>

\* Time passes for the mails.
Cooled(m) ==
    /\ mail[m] = "recent"
    /\ mail' = [mail EXCEPT ![m] = "old"]
    /\ UNCHANGED <<user, row, issued, dead, req, faults>>

LinkExpires(m) ==
    /\ mail[m] = "old"
    /\ mail' = [mail EXCEPT ![m] = "expired"]
    /\ UNCHANGED <<user, row, issued, dead, req, faults>>

------------------------------------------------------------------------------
(* Sign-in and refresh *)

SigninRead(r) ==
    /\ At(r, "signin", "read")
    /\ CASE user = "absent"     -> Reply(r, "denied", 0)
         [] user = "unverified" -> Reply(r, "forbidden", 0)
         [] user = "verified"   -> Go(r, "issue")
    /\ UNCHANGED <<user, mail, row, issued, dead, faults>>

MatchesExactly(t, w) == w.token # 0 /\ w.token = t  \* mutant: the whole token counts

\* bcrypt.compare looks at the first 72 bytes, which are the header of the JWT
\* and the start of the user's id: they are those of every token of the user.
Matches(t, w) == w.token # 0

Expired(w) == ~w.valid

\* verifyAsync, the SELECT of the row and bcrypt.compare.
RefreshRead(r) ==
    /\ At(r, "refresh", "read")
    /\ IF req[r].arg \in dead \/ ~Matches(req[r].arg, row) THEN Reply(r, "denied", 0)
       ELSE req' = [req EXCEPT ![r].pc = IF Expired(row) THEN "delete" ELSE "issue",
                               ![r].saw = row.token]
    /\ UNCHANGED <<user, mail, row, issued, dead, faults>>

\* The DELETE is by user: it takes the row that is there by now.
RefreshDelete(r) ==
    /\ At(r, "refresh", "delete")
    /\ row' = NoRow
    /\ Reply(r, "denied", 0)
    /\ UNCHANGED <<user, mail, issued, dead, faults>>

\* issueTokens: INSERT ... ON CONFLICT (userId) DO UPDATE.
Issue(r) ==
    /\ req[r].pc = "issue" /\ issued < MaxIssued
    /\ issued' = issued + 1
    /\ row' = [token |-> issued + 1, valid |-> TRUE]
    /\ Reply(r, "ok", issued + 1)
    /\ UNCHANGED <<user, mail, dead, faults>>

RowExpires ==
    /\ row.valid
    /\ row' = [row EXCEPT !.valid = FALSE]
    /\ UNCHANGED <<user, mail, issued, dead, req, faults>>

\* How long a JWT lasts is configuration; the 30 days of the row are code.
TokenExpires(t) ==
    /\ t \in 1 .. issued /\ t \notin dead
    /\ dead' = dead \cup {t}
    /\ UNCHANGED <<user, mail, row, issued, req, faults>>

\* The request dies with its process or its database call; nothing is committed.
Abort(r) ==
    /\ req[r].pc \notin Answer \cup {"none"} /\ Fault
    /\ Reply(r, "failed", 0)
    /\ UNCHANGED <<user, mail, row, issued, dead>>

------------------------------------------------------------------------------
Verification ==
    \/ \E r \in Request :
         \/ SignupStart(r) \/ SignupCheck(r) \/ SignupInsert(r)
         \/ ResendStart(r) \/ ResendLock(r) \/ ResendInsert(r)
         \/ \E m \in Mail : VerifyStart(r, m)
         \/ VerifyRead(r) \/ VerifyWrite(r)
    \/ \E m \in Mail : Cooled(m) \/ LinkExpires(m)

Server ==
    \/ Verification
    \/ \E r \in Request :
         SigninRead(r) \/ RefreshRead(r) \/ RefreshDelete(r) \/ Issue(r) \/ Abort(r)
    \/ RowExpires

------------------------------------------------------------------------------
\* The part of the type invariant that concerns the server.
ServerOK ==
    /\ user \in {"absent", "unverified", "verified"}
    /\ mail \in [Mail -> MailState]
    /\ row \in [token : Token, valid : BOOLEAN] /\ (row.valid => row.token # 0)
    /\ issued \in Token /\ dead \subseteq 1 .. issued
    /\ req \in [Request -> RequestState]
==============================================================================
