-------------------------- MODULE AppSessionProofs --------------------------
(****************************************************************************)
(* Proofs about AppSession and the account under it, for any number of      *)
(* requests, API calls, mails, tokens and faults.                           *)
(****************************************************************************)
EXTENDS AppSession, FiniteSetTheorems, TLAPS

USE AccountAssumption, AppAssumption

------------------------------------------------------------------------------
(* What a request may become *)

Waited == {r \in Request : req[r].waited}

\* The answer the app waits for carries a token that was issued.
Args == \A r \in Waited : req[r].arg <= issued

LEMMA FreeType == Free \in RequestState
BY DEF Free, RequestState, Kind, Pc, Token

LEMMA OpenStep ==
    ASSUME ServerOK, NEW r \in Request, NEW kind \in Kind, NEW pc \in Pc,
           NEW arg \in Nat, NEW waited \in BOOLEAN, Open(r, kind, pc, arg, waited)
    PROVE  /\ req' \in [Request -> RequestState]
           /\ r \notin Waited
           /\ Waited' = Waited \cup {q \in {r} : waited}
           /\ \A q \in Waited : req'[q].arg = req[q].arg
           /\ req'[r].arg = arg
<1>1. req \in [Request -> RequestState]
  BY DEF ServerOK
<1>2. req[r] = Free /\ Free \in RequestState /\ ~Free.waited
  BY FreeType DEF Open, Free
<1>3. /\ [Free EXCEPT !.kind = kind, !.pc = pc, !.arg = arg, !.waited = waited]
             \in RequestState
      /\ [Free EXCEPT !.kind = kind, !.pc = pc, !.arg = arg, !.waited = waited].waited = waited
      /\ [Free EXCEPT !.kind = kind, !.pc = pc, !.arg = arg, !.waited = waited].arg = arg
  BY <1>2 DEF RequestState
<1> QED BY <1>1, <1>2, <1>3 DEF Open, Waited

LEMMA GoStep ==
    ASSUME ServerOK, NEW r \in Request, NEW pc \in Pc, Go(r, pc)
    PROVE  /\ req' \in [Request -> RequestState]
           /\ Waited' = Waited
           /\ \A q \in Waited : req'[q].arg = req[q].arg
BY DEF ServerOK, Go, RequestState, Waited

LEMMA ReplyStep ==
    ASSUME ServerOK, NEW r \in Request, NEW a \in Answer, NEW arg \in Nat,
           Reply(r, a, arg)
    PROVE  /\ req' \in [Request -> RequestState]
           /\ Waited' = Waited
           /\ \A q \in Waited : req'[q].arg \in {req[q].arg, arg}
<1>1. req \in [Request -> RequestState] /\ a \in Pc
  BY DEF ServerOK, Pc
<1>2. Free \in RequestState /\ ~Free.waited
  BY FreeType DEF Free
<1>3. [req[r] EXCEPT !.pc = a, !.arg = arg] \in RequestState
  BY <1>1 DEF RequestState
<1>4. /\ req' \in [Request -> RequestState]
      /\ \A q \in Request : req'[q].waited = req[q].waited
  BY <1>1, <1>2, <1>3 DEF Reply, RequestState
<1>5. \A q \in Waited : req'[q].arg \in {req[q].arg, arg}
  BY <1>1 DEF Reply, RequestState, Waited
<1> QED BY <1>4, <1>5 DEF Waited

LEMMA CloseStep ==
    ASSUME ServerOK, NEW r \in Request, Close(r)
    PROVE  /\ req' \in [Request -> RequestState]
           /\ Waited' = Waited \ {r}
           /\ \A q \in Waited' : req'[q].arg = req[q].arg
<1>1. req \in [Request -> RequestState]
  BY DEF ServerOK
<1>2. Free \in RequestState /\ ~Free.waited
  BY FreeType DEF Free
<1> QED BY <1>1, <1>2 DEF Close, RequestState, Waited

------------------------------------------------------------------------------
(* Type correctness *)

Frame == Waited' = Waited /\ Args' /\ issued <= issued'

LEMMA VerificationType ==
    ASSUME ServerOK, Args, Verification
    PROVE  ServerOK' /\ Frame
<1>1. req \in [Request -> RequestState] /\ mail \in [Mail -> MailState] /\ issued \in Nat
  BY DEF ServerOK, Token
<1>2. ASSUME req' \in [Request -> RequestState], UNCHANGED <<row, issued, dead>>,
             mail' \in [Mail -> MailState], user' \in {"absent", "unverified", "verified"}
      PROVE  ServerOK' /\ issued <= issued'
  BY <1>1, <1>2 DEF ServerOK
<1>3. ASSUME NEW r \in Request, NEW kind \in Kind, NEW pc \in Pc, NEW arg \in Nat,
             Open(r, kind, pc, arg, FALSE), UNCHANGED <<user, mail, row, issued, dead>>
      PROVE  ServerOK' /\ Frame
  <2>1. /\ req' \in [Request -> RequestState] /\ Waited' = Waited
        /\ \A q \in Waited : req'[q].arg = req[q].arg
    BY <1>3, OpenStep
  <2> QED BY <1>2, <1>3, <2>1 DEF ServerOK, Frame, Args
<1>4. ASSUME NEW r \in Request, NEW pc \in Pc, Go(r, pc),
             UNCHANGED <<user, mail, row, issued, dead>>
      PROVE  ServerOK' /\ Frame
  <2>1. /\ req' \in [Request -> RequestState] /\ Waited' = Waited
        /\ \A q \in Waited : req'[q].arg = req[q].arg
    BY <1>4, GoStep
  <2> QED BY <1>2, <1>4, <2>1 DEF ServerOK, Frame, Args
<1>5. ASSUME NEW r \in Request, NEW a \in Answer, Reply(r, a, 0),
             UNCHANGED <<row, issued, dead>>,
             mail' \in [Mail -> MailState], user' \in {"absent", "unverified", "verified"}
      PROVE  ServerOK' /\ Frame
  <2>1. /\ req' \in [Request -> RequestState] /\ Waited' = Waited
        /\ \A q \in Waited : req'[q].arg \in {req[q].arg, 0}
    BY <1>5, ReplyStep
  <2> QED BY <1>1, <1>2, <1>5, <2>1 DEF Frame, Args
<1>6. /\ WithoutExpired \in [Mail -> MailState]
      /\ \A m \in Mail : Mailed(m) \in [Mail -> MailState]
      /\ \A m \in Mail : [WithoutExpired EXCEPT ![m] = "recent"] \in [Mail -> MailState]
  BY <1>1 DEF WithoutExpired, Mailed, MailState
<1>7. {"ok", "denied"} \subseteq Answer
  BY DEF Answer
<1>8. ASSUME NEW r \in Request, SignupStart(r) PROVE ServerOK' /\ Frame
  BY <1>3, <1>8 DEF SignupStart, Kind, Pc
<1>9. ASSUME NEW r \in Request, SignupCheck(r) PROVE ServerOK' /\ Frame
  BY <1>4, <1>5, <1>7, <1>9 DEF SignupCheck, Pc, ServerOK
<1>10. ASSUME NEW r \in Request, SignupInsert(r) PROVE ServerOK' /\ Frame
  BY <1>5, <1>6, <1>7, <1>10 DEF SignupInsert, ServerOK
<1>11. ASSUME NEW r \in Request, ResendStart(r) PROVE ServerOK' /\ Frame
  BY <1>3, <1>11 DEF ResendStart, Kind, Pc
<1>12. ASSUME NEW r \in Request, ResendLock(r) PROVE ServerOK' /\ Frame
  BY <1>4, <1>5, <1>6, <1>7, <1>12 DEF ResendLock, Pc, ServerOK
<1>13. ASSUME NEW r \in Request, ResendInsert(r) PROVE ServerOK' /\ Frame
  BY <1>5, <1>6, <1>7, <1>13 DEF ResendInsert, ServerOK
<1>14. ASSUME NEW r \in Request, NEW m \in Mail, VerifyStart(r, m)
       PROVE  ServerOK' /\ Frame
  <2>1. m \in Nat
    BY DEF Mail
  <2> QED BY <1>3, <1>14, <2>1 DEF VerifyStart, Kind, Pc
<1>15. ASSUME NEW r \in Request, VerifyRead(r) PROVE ServerOK' /\ Frame
  BY <1>4, <1>5, <1>7, <1>15 DEF VerifyRead, Pc, ServerOK
<1>16. ASSUME NEW r \in Request, VerifyWrite(r) PROVE ServerOK' /\ Frame
  <2>1. mail' \in [Mail -> MailState]
    BY <1>16 DEF VerifyWrite, MailState
  <2> QED BY <1>5, <1>7, <1>16, <2>1 DEF VerifyWrite
<1>17. ASSUME NEW m \in Mail, Cooled(m) \/ LinkExpires(m) PROVE ServerOK' /\ Frame
  <2>1. mail' \in [Mail -> MailState]
    BY <1>1, <1>17 DEF Cooled, LinkExpires, MailState
  <2> QED BY <1>2, <1>17, <2>1 DEF Cooled, LinkExpires, ServerOK, Frame, Args, Waited
<1> QED BY <1>8, <1>9, <1>10, <1>11, <1>12, <1>13, <1>14, <1>15, <1>16, <1>17
        DEF Verification

LEMMA ServerType ==
    ASSUME ServerOK, Args, Server \/ TokenExpires(stored)
    PROVE  ServerOK' /\ Frame
<1>1. /\ req \in [Request -> RequestState] /\ issued \in Nat /\ issued \in Token
      /\ row \in [token : Token, valid : BOOLEAN] /\ NoRow \in [token : Token, valid : BOOLEAN]
      /\ ~NoRow.valid
  BY DEF ServerOK, Token, NoRow
<1>2. ASSUME NEW r \in Request, SigninRead(r) PROVE ServerOK' /\ Frame
  <2>1. \/ Go(r, "issue")
        \/ \E a \in Answer : Reply(r, a, 0)
    BY <1>2 DEF SigninRead, ServerOK, Answer
  <2>2. /\ req' \in [Request -> RequestState] /\ Waited' = Waited
        /\ \A q \in Waited : req'[q].arg \in {req[q].arg, 0}
    BY <2>1, GoStep, ReplyStep DEF Pc
  <2> QED BY <1>1, <1>2, <2>2 DEF SigninRead, ServerOK, Frame, Args
<1>3. ASSUME NEW r \in Request, RefreshRead(r) PROVE ServerOK' /\ Frame
  <2>1. CASE Reply(r, "denied", 0)
    <3>1. /\ req' \in [Request -> RequestState] /\ Waited' = Waited
          /\ \A q \in Waited : req'[q].arg \in {req[q].arg, 0}
      BY <2>1, ReplyStep DEF Answer
    <3> QED BY <1>1, <1>3, <3>1 DEF RefreshRead, ServerOK, Frame, Args
  <2>2. CASE \E pc \in {"delete", "issue"} :
               req' = [req EXCEPT ![r].pc = pc, ![r].saw = row.token]
    <3>1. /\ req' \in [Request -> RequestState] /\ Waited' = Waited
          /\ \A q \in Waited : req'[q].arg = req[q].arg
      <4>1. PICK pc \in {"delete", "issue"} :
                   req' = [req EXCEPT ![r].pc = pc, ![r].saw = row.token]
        BY <2>2
      <4> DEFINE q0 == [[req[r] EXCEPT !.pc = pc] EXCEPT !.saw = row.token]
      <4>2. q0 \in RequestState /\ q0.waited = req[r].waited /\ q0.arg = req[r].arg
        BY <1>1, <4>1 DEF RequestState, Pc
      <4>3. req' = [req EXCEPT ![r] = q0]
        BY <1>1, <4>1
      <4> HIDE DEF q0
      <4> QED BY <1>1, <4>2, <4>3 DEF Waited
    <3> QED BY <1>1, <1>3, <3>1 DEF RefreshRead, ServerOK, Frame, Args
  <2> QED BY <1>3, <2>1, <2>2 DEF RefreshRead
<1>4. ASSUME NEW r \in Request, RefreshDelete(r) PROVE ServerOK' /\ Frame
  <2>1. /\ req' \in [Request -> RequestState] /\ Waited' = Waited
        /\ \A q \in Waited : req'[q].arg \in {req[q].arg, 0}
    BY <1>4, ReplyStep DEF RefreshDelete, Answer
  <2> QED BY <1>1, <1>4, <2>1 DEF RefreshDelete, ServerOK, Frame, Args
<1>5. ASSUME NEW r \in Request, Issue(r) PROVE ServerOK' /\ Frame
  <2>1. issued + 1 \in Nat /\ issued' \in Token /\ issued' = issued + 1
    BY <1>1, <1>5 DEF Issue, Token
  <2>2. /\ req' \in [Request -> RequestState] /\ Waited' = Waited
        /\ \A q \in Waited : req'[q].arg \in {req[q].arg, issued + 1}
    BY <1>5, <2>1, ReplyStep DEF Issue, Answer
  <2>3. Args'
    <3>1. \A q \in Waited : req[q].arg \in Nat
      BY <1>1 DEF Waited, RequestState
    <3> QED BY <1>1, <2>1, <2>2, <3>1 DEF Args
  <2>4. row' \in [token : Token, valid : BOOLEAN] /\ row'.token # 0
    BY <1>1, <1>5, <2>1 DEF Issue
  <2>5. dead' \subseteq 1 .. issued'
    BY <1>1, <1>5, <2>1 DEF Issue, ServerOK
  <2> QED BY <1>1, <1>5, <2>1, <2>2, <2>3, <2>4, <2>5 DEF Issue, ServerOK, Frame
<1>6. ASSUME NEW r \in Request, Abort(r) PROVE ServerOK' /\ Frame
  <2>1. /\ req' \in [Request -> RequestState] /\ Waited' = Waited
        /\ \A q \in Waited : req'[q].arg \in {req[q].arg, 0}
    BY <1>6, ReplyStep DEF Abort, Answer
  <2> QED BY <1>1, <1>6, <2>1 DEF Abort, ServerOK, Frame, Args
<1>7. CASE RowExpires
  <2>1. row' \in [token : Token, valid : BOOLEAN] /\ ~row'.valid
    BY <1>1, <1>7 DEF RowExpires
  <2> QED BY <1>1, <1>7, <2>1 DEF RowExpires, ServerOK, Frame, Args, Waited
<1>8. CASE TokenExpires(stored)
  <2>1. dead' \subseteq 1 .. issued
    BY <1>8 DEF TokenExpires, ServerOK
  <2> QED BY <1>1, <1>8, <2>1 DEF TokenExpires, ServerOK, Frame, Args, Waited
<1> QED BY <1>2, <1>3, <1>4, <1>5, <1>6, <1>7, <1>8, VerificationType DEF Server

Shared ==
    /\ Waited = rf.req \cup login.req
    /\ rf.req \cap login.req = {} /\ (rf.req # {} => rf.pc = "wait")

\* What the app does with its own part of the state.
AppOK ==
    /\ stored \in 0 .. issued /\ access \in {"none", "good", "stale"}
    /\ screen \in {"splash", "home", "auth"}
    /\ call \in [Caller -> {"idle", "sent", "waiting", "dropped"}]
    /\ rf \in [pc : {"idle", "token", "wait", "done"}, req : SUBSET Request, ok : BOOLEAN]
    /\ login \in [req : SUBSET Request, mounted : BOOLEAN]
    /\ signup \in {"none", "shown", "left"} /\ tried \in BOOLEAN /\ quiet \in BOOLEAN
    /\ causes \subseteq {"expiry", "overlap", "fault"}

LEMMA TypeParts == TypeOK <=> ServerOK /\ AppOK /\ Shared
BY DEF TypeOK, AppOK, Shared, Waited

LEMMA JoinType ==
    ASSUME AppOK, Shared, NEW c \in Caller, Join(c)
    PROVE  /\ call' \in [Caller -> {"idle", "sent", "waiting", "dropped"}]
           /\ rf' \in [pc : {"idle", "token", "wait", "done"},
                       req : SUBSET Request, ok : BOOLEAN]
           /\ rf'.req = rf.req /\ (rf.req # {} => rf' = rf)
BY DEF AppOK, Shared, Join

\* Steps of the app that leave the requests and the server alone.
LEMMA LocalType ==
    ASSUME TypeOK, Args,
           \/ AccessExpires \/ SplashCheck \/ SocketRefused \/ SocketConnected
           \/ RefreshDone \/ SignupSent \/ SignupAnswered \/ PutAway \/ Logout
           \/ \E c \in Api : Send(c) \/ Refused(c)
    PROVE  TypeOK' /\ Args'
<1>1. ServerOK /\ AppOK /\ Shared
  BY TypeParts
<1>2. /\ Api \subseteq Caller /\ Splash \in Caller /\ Socket \in Caller
  BY DEF Caller
<1>3. ASSUME UNCHANGED serverVars, AppOK', rf'.req = rf.req, login'.req = login.req,
             rf.req # {} => rf'.pc = rf.pc
      PROVE  TypeOK' /\ Args'
  <2>1. ServerOK' /\ Waited' = Waited /\ Args'
    BY <1>1, <1>3 DEF ServerOK, Waited, Args, serverVars
  <2>2. Shared'
    BY <1>1, <1>3, <2>1 DEF Shared
  <2> QED BY <1>3, <2>1, <2>2 DEF TypeOK, AppOK, Shared, Waited
<1>4. UNCHANGED serverVars => UNCHANGED issued
  BY DEF serverVars
<1>5. CASE AccessExpires
  BY <1>1, <1>3, <1>4, <1>5 DEF AccessExpires, AppOK
<1>6. CASE SplashCheck
  BY <1>1, <1>2, <1>3, <1>4, <1>6, JoinType DEF SplashCheck, AppOK
<1>7. CASE SocketRefused
  BY <1>1, <1>2, <1>3, <1>4, <1>7, JoinType DEF SocketRefused, AppOK
<1>8. CASE SocketConnected
  BY <1>1, <1>3, <1>4, <1>8 DEF SocketConnected, AppOK
<1>9. CASE RefreshDone
  <2>1. rf.req = {} /\ NoRefresh \in [pc : {"idle", "token", "wait", "done"},
                                      req : SUBSET Request, ok : BOOLEAN]
    BY <1>1, <1>9 DEF RefreshDone, Resume, Shared, NoRefresh
  <2>2. call' \in [Caller -> {"idle", "sent", "waiting", "dropped"}]
    BY <1>1, <1>9 DEF RefreshDone, Resume, AppOK
  <2>3. /\ login' \in [req : SUBSET Request, mounted : BOOLEAN]
        /\ login'.req = login.req
        /\ screen' \in {"splash", "home", "auth"}
        /\ signup' \in {"none", "shown", "left"} /\ quiet' \in BOOLEAN
    BY <1>1, <1>9 DEF RefreshDone, Resume, AppOK
  <2>4. /\ rf' = NoRefresh
        /\ UNCHANGED <<serverVars, stored, access, tried, causes>>
    BY <1>9 DEF RefreshDone, Resume
  <2>5. AppOK'
    BY <1>1, <1>4, <2>1, <2>2, <2>3, <2>4 DEF AppOK
  <2> QED BY <1>3, <2>1, <2>3, <2>4, <2>5 DEF NoRefresh
<1>10. CASE Logout \/ PutAway
  <2>1. call' \in [Caller -> {"idle", "sent", "waiting", "dropped"}]
    BY <1>1, <1>2, <1>10 DEF Logout, PutAway, Disconnected, AppOK
  <2>2. /\ UNCHANGED <<serverVars, rf, login, signup, tried, causes>>
        /\ stored' \in {0, stored} /\ access' \in {"none", access}
        /\ screen' \in {"home", "auth"} /\ quiet' \in {FALSE, quiet}
    BY <1>10 DEF Logout, PutAway, Clear
  <2>3. stored' \in 0 .. issued' /\ access' \in {"none", "good", "stale"}
    <3>1. stored \in 0 .. issued /\ issued \in Nat /\ issued' = issued
      BY <1>1, <1>4, <2>2 DEF AppOK, ServerOK, Token
    <3> QED BY <1>1, <2>2, <3>1 DEF AppOK
  <2>4. AppOK'
    BY <1>1, <2>1, <2>2, <2>3 DEF AppOK
  <2> QED BY <1>3, <2>2, <2>4
<1>13. CASE SignupSent
  <2>1. login' \in [req : SUBSET Request, mounted : BOOLEAN] /\ login'.req = login.req
    BY <1>1, <1>13 DEF SignupSent, AppOK
  <2>2. AppOK'
    BY <1>1, <1>4, <1>13, <2>1 DEF SignupSent, AppOK
  <2> QED BY <1>3, <1>13, <2>1, <2>2 DEF SignupSent
<1>14. CASE SignupAnswered
  BY <1>1, <1>3, <1>4, <1>14 DEF SignupAnswered, Clear, AppOK, ServerOK, Token
<1>11. ASSUME NEW c \in Api, Send(c) PROVE TypeOK' /\ Args'
  BY <1>1, <1>2, <1>3, <1>4, <1>11 DEF Send, AppOK
<1>12. ASSUME NEW c \in Api, Refused(c) PROVE TypeOK' /\ Args'
  BY <1>1, <1>2, <1>3, <1>4, <1>12, JoinType DEF Refused, AppOK
<1> QED BY <1>5, <1>6, <1>7, <1>8, <1>9, <1>10, <1>11, <1>12, <1>13, <1>14

\* The tokens of an answer that the app was waiting for.
LEMMA SaveType ==
    ASSUME TypeOK, Args, NEW r \in Waited, NEW b \in BOOLEAN, Save(req[r].arg, b)
    PROVE  /\ stored' \in 0 .. issued /\ access' = "good"
           /\ causes' \subseteq {"expiry", "overlap", "fault"}
<1>1. req[r].arg \in Nat /\ req[r].arg <= issued /\ issued \in Nat
  BY DEF TypeOK, ServerOK, RequestState, Args, Waited, Token
<1> QED BY <1>1 DEF Save

\* The refresh and the sign-in of the app, its restart, and other devices.
LEMMA ExchangeType ==
    ASSUME TypeOK, Args, NEW r \in Request,
           \/ RefreshStart(r) \/ RefreshAnswered(r) \/ RefreshLost(r)
           \/ SigninStart(r) \/ SigninAnswered(r) \/ SigninLost(r)
           \/ OtherSignin(r) \/ OtherRefresh(r)
    PROVE  TypeOK' /\ Args'
<1>1. ServerOK /\ AppOK /\ Shared /\ issued \in Nat /\ stored \in Nat
  BY TypeParts DEF AppOK, ServerOK, Token
<1>2. ASSUME UNCHANGED <<user, mail, row, issued, dead>>,
             req' \in [Request -> RequestState], AppOK', Shared',
             \A q \in Waited' : req'[q].arg <= issued
      PROVE  TypeOK' /\ Args'
  BY <1>1, <1>2 DEF TypeOK, ServerOK, AppOK, Shared, Args, Waited
<1>3. ASSUME NEW kind \in Kind, NEW pc \in Pc, NEW arg \in 0 .. issued,
             NEW waited \in BOOLEAN, Open(r, kind, pc, arg, waited)
      PROVE  /\ req' \in [Request -> RequestState] /\ r \notin Waited
             /\ Waited' = Waited \cup {q \in {r} : waited}
             /\ \A q \in Waited' : req'[q].arg <= issued
  <2>1. arg \in Nat
    BY <1>1
  <2> QED BY <1>1, <1>3, <2>1, OpenStep DEF Args
<1>4. ASSUME Close(r)
      PROVE  /\ req' \in [Request -> RequestState] /\ Waited' = Waited \ {r}
             /\ \A q \in Waited' : req'[q].arg <= issued
  BY <1>1, <1>4, CloseStep DEF Args
<1>5. CASE RefreshStart(r)
  <2>1. rf.req = {}
    BY <1>1, <1>5 DEF RefreshStart, Shared
  <2>2. CASE stored = 0
    <3>1. AppOK' /\ rf'.req = rf.req /\ UNCHANGED login
      BY <1>1, <1>5, <2>2 DEF RefreshStart, AppOK
    <3>2. Waited' = Waited /\ UNCHANGED req
      BY <1>5, <2>2 DEF RefreshStart, Waited
    <3> QED BY <1>1, <1>2, <1>5, <2>1, <3>1, <3>2
            DEF RefreshStart, Shared, ServerOK, Args
  <2>3. CASE stored # 0
    <3>1. /\ req' \in [Request -> RequestState] /\ r \notin Waited
          /\ Waited' = Waited \cup {r}
          /\ \A q \in Waited' : req'[q].arg <= issued
      BY <1>1, <1>3, <1>5, <2>3 DEF RefreshStart, Kind, Pc, AppOK
    <3>2. AppOK' /\ rf'.req = {r} /\ rf'.pc = "wait" /\ UNCHANGED login
      <4>1. rf' = [rf EXCEPT !.pc = "wait", !.req = {r}]
        BY <1>5, <2>3 DEF RefreshStart
      <4>2. rf'.req = {r} /\ rf'.pc = "wait" /\ rf'.ok = rf.ok
        BY <1>1, <4>1 DEF AppOK
      <4>3. rf' \in [pc : {"idle", "token", "wait", "done"}, req : SUBSET Request, ok : BOOLEAN]
        BY <1>1, <4>1 DEF AppOK
      <4> QED BY <1>1, <1>5, <4>2, <4>3 DEF RefreshStart, AppOK
    <3>3. Shared'
      BY <1>1, <2>1, <3>1, <3>2 DEF Shared
    <3> QED BY <1>2, <1>5, <3>1, <3>2, <3>3 DEF RefreshStart
  <2> QED BY <2>2, <2>3
<1>6. CASE RefreshAnswered(r) \/ RefreshLost(r)
  <2>1. rf.req = {r} /\ r \in Waited /\ r \notin login.req /\ Close(r)
    BY <1>1, <1>6 DEF RefreshAnswered, RefreshLost, Shared
  <2>2. /\ stored' \in 0 .. issued /\ access' \in {"none", "good", "stale"}
        /\ causes' \subseteq {"expiry", "overlap", "fault"}
    <3>1. CASE RefreshAnswered(r) /\ req[r].pc = "ok"
      BY <2>1, <3>1, SaveType DEF RefreshAnswered
    <3>2. CASE RefreshAnswered(r) /\ req[r].pc # "ok"
      BY <1>1, <3>2 DEF RefreshAnswered, Clear, AppOK
    <3>3. CASE RefreshLost(r)
      BY <1>1, <3>3 DEF RefreshLost, Clear, AppOK
    <3> QED BY <1>6, <3>1, <3>2, <3>3
  <2>3. /\ rf' \in [pc : {"idle", "token", "wait", "done"}, req : SUBSET Request, ok : BOOLEAN]
        /\ rf'.req = {}
    <3>1. PICK ok \in BOOLEAN : rf' = [rf EXCEPT !.pc = "done", !.req = {}, !.ok = ok]
      BY <1>6 DEF RefreshAnswered, RefreshLost
    <3> QED BY <1>1, <3>1 DEF AppOK
  <2>4. UNCHANGED <<user, mail, row, issued, dead, screen, call, login, signup, tried, quiet>>
    BY <1>6 DEF RefreshAnswered, RefreshLost
  <2>5. AppOK'
    BY <1>1, <2>2, <2>3, <2>4 DEF AppOK
  <2>6. Shared'
    BY <1>1, <1>4, <2>1, <2>3, <2>4 DEF Shared
  <2> QED BY <1>2, <1>4, <2>1, <2>4, <2>5, <2>6
<1>7. CASE SigninStart(r)
  <2>1. /\ req' \in [Request -> RequestState] /\ r \notin Waited
        /\ Waited' = Waited \cup {r}
        /\ \A q \in Waited' : req'[q].arg <= issued
    <3>1. Open(r, "signin", "read", 0, TRUE)
      BY <1>7, Zenon DEF SigninStart
    <3>2. 0 \in 0 .. issued
      BY <1>1
    <3> QED BY <1>3, <3>1, <3>2 DEF Kind, Pc
  <2>2. AppOK' /\ login'.req = {r} /\ UNCHANGED rf /\ login.req = {}
    BY <1>1, <1>7 DEF SigninStart, AppOK, NoLogin
  <2>3. Shared'
    BY <1>1, <2>1, <2>2 DEF Shared
  <2> QED BY <1>2, <1>7, <2>1, <2>2, <2>3 DEF SigninStart
<1>8. CASE SigninAnswered(r) \/ SigninLost(r)
  <2>1. login.req = {r} /\ r \in Waited /\ r \notin rf.req /\ Close(r)
    BY <1>1, <1>8 DEF SigninAnswered, SigninLost, Shared
  <2>2. /\ stored' \in 0 .. issued /\ access' \in {"none", "good", "stale"}
        /\ causes' \subseteq {"expiry", "overlap", "fault"}
        /\ screen' \in {"splash", "home", "auth"}
    <3>1. CASE SigninAnswered(r) /\ req[r].pc = "ok"
      <4>1. Save(req[r].arg, rf.pc # "idle") /\ screen' \in {"splash", "home", "auth"}
        BY <1>1, <3>1 DEF SigninAnswered, AppOK
      <4> QED BY <2>1, <4>1, SaveType
    <3>2. CASE SigninAnswered(r) /\ req[r].pc = "forbidden"
      BY <1>1, <3>2 DEF SigninAnswered, Clear, AppOK
    <3>3. CASE SigninAnswered(r) /\ req[r].pc \notin {"ok", "forbidden"}
      BY <1>1, <3>3 DEF SigninAnswered, AppOK
    <3>4. CASE SigninLost(r)
      BY <1>1, <3>4 DEF SigninLost, AppOK
    <3> QED BY <1>8, <3>1, <3>2, <3>3, <3>4
  <2>3. /\ login' = NoLogin
        /\ UNCHANGED <<user, mail, row, issued, dead, call, rf, signup, tried, quiet>>
    BY <1>8 DEF SigninAnswered, SigninLost
  <2>4. AppOK' /\ login'.req = {}
    BY <1>1, <2>2, <2>3 DEF AppOK, NoLogin
  <2>5. Shared'
    BY <1>1, <1>4, <2>1, <2>3, <2>4 DEF Shared
  <2> QED BY <1>2, <1>4, <2>1, <2>3, <2>4, <2>5
<1>9. CASE OtherSignin(r) \/ OtherRefresh(r)
  <2>1. /\ req' \in [Request -> RequestState] /\ Waited' = Waited
        /\ \A q \in Waited' : req'[q].arg <= issued
    <3>1. \/ Open(r, "signin", "issue", 0, FALSE)
          \/ Open(r, "refresh", "read", issued, FALSE)
      BY <1>9 DEF OtherSignin, OtherRefresh
    <3>2. 0 \in 0 .. issued /\ issued \in 0 .. issued
      BY <1>1
    <3> QED BY <1>3, <3>1, <3>2 DEF Kind, Pc
  <2>2. UNCHANGED <<user, mail, row, issued, dead, appVars>>
    BY <1>9 DEF OtherSignin, OtherRefresh
  <2>3. AppOK' /\ Shared'
    BY <1>1, <2>1, <2>2 DEF AppOK, Shared, appVars
  <2> QED BY <1>2, <2>1, <2>2, <2>3
<1> QED BY <1>5, <1>6, <1>7, <1>8, <1>9

LEMMA RestartType == TypeOK /\ Args /\ Restart => TypeOK' /\ Args'
<1> SUFFICES ASSUME TypeOK, Args, Restart PROVE TypeOK' /\ Args'
  OBVIOUS
<1>1. ServerOK /\ AppOK /\ Shared /\ req \in [Request -> RequestState]
  BY TypeParts DEF ServerOK
<1>2. Free \in RequestState /\ ~Free.waited
  BY FreeType DEF Free
<1>3. \A r \in Request :
        /\ req'[r] \in RequestState
        /\ r \notin rf.req \cup login.req => req'[r] = req[r]
        /\ r \in rf.req \cup login.req => ~req'[r].waited
  BY <1>1, <1>2 DEF Restart, RequestState
<1>4. req' \in [Request -> RequestState] /\ Waited' = {}
  <2>1. \A r \in Request : r \notin rf.req \cup login.req => ~req[r].waited
    BY <1>1 DEF Shared, Waited
  <2>2. req' \in [Request -> RequestState]
    BY <1>3 DEF Restart
  <2> QED BY <1>3, <2>1, <2>2 DEF Waited
<1>5. AppOK'
  BY <1>1 DEF Restart, AppOK, Nobody, NoRefresh, NoLogin
<1>6. Shared'
  BY <1>4 DEF Restart, Shared, NoRefresh, NoLogin
<1>7. ServerOK'
  BY <1>1, <1>4 DEF Restart, ServerOK
<1>8. Args'
  BY <1>4 DEF Args
<1> QED BY <1>5, <1>6, <1>7, <1>8 DEF TypeOK, AppOK, Shared, Waited

LEMMA TypeStep == TypeOK /\ Args /\ [Next]_vars => TypeOK' /\ Args'
<1> SUFFICES ASSUME TypeOK, Args, [Next]_vars PROVE TypeOK' /\ Args'
  OBVIOUS
<1>1. CASE ServerStep
  <2>1. ServerOK' /\ Frame
    BY <1>1, ServerType DEF ServerStep, TypeOK
  <2>2. AppOK
    BY TypeParts
  <2>3. stored' \in 0 .. issued'
    BY <1>1, <2>1, <2>2 DEF ServerStep, AppOK, ServerOK, Frame, Token, TypeOK
  <2>4. AppOK'
    BY <1>1, <2>2, <2>3 DEF ServerStep, AppOK
  <2>5. Shared'
    BY <1>1, <2>1, TypeParts DEF ServerStep, Shared, Frame
  <2> QED BY <2>1, <2>4, <2>5 DEF TypeOK, AppOK, Shared, Waited, Frame
<1>2. CASE AppStep
  BY <1>2, LocalType, ExchangeType, RestartType DEF AppStep
<1>3. CASE UNCHANGED vars
  BY <1>3 DEF vars, serverVars, appVars, TypeOK, ServerOK, Args, Waited
<1> QED BY <1>1, <1>2, <1>3 DEF Next

LEMMA TypeInit == Init => TypeOK /\ Args
<1> SUFFICES ASSUME Init PROVE TypeOK /\ Args
  OBVIOUS
<1>1. ServerOK /\ Waited = {}
  <2>1. Free \in RequestState /\ ~Free.waited
    BY FreeType DEF Free
  <2> QED BY <2>1 DEF Init, ServerInit, ServerOK, NoRow, Token, MailState, Waited
<1>2. AppOK
  <2>1. /\ NoRefresh \in [pc : {"idle", "token", "wait", "done"},
                         req : SUBSET Request, ok : BOOLEAN]
        /\ NoLogin \in [req : SUBSET Request, mounted : BOOLEAN]
    BY DEF NoRefresh, NoLogin
  <2>2. Nobody \in [Caller -> {"idle", "sent", "waiting", "dropped"}]
    BY DEF Nobody
  <2>3. stored \in 0 .. issued
    BY DEF Init, ServerInit
  <2> QED BY <2>1, <2>2, <2>3 DEF Init, AppOK
<1>3. Shared
  BY <1>1 DEF Init, Shared, NoRefresh, NoLogin
<1> QED BY <1>1, <1>2, <1>3, TypeParts DEF Args

\* Every reachable state has its shape, and the server waits to answer exactly the
\* one refresh and the one sign-in whose answers the app will take, for any number
\* of callers that are refused at once.
THEOREM TypeCorrect == Spec => []TypeOK
BY TypeInit, TypeStep, PTL DEF Spec

------------------------------------------------------------------------------
(* The verification mails *)

\* Request r holds the user's row for a new mail.
Holds(r) == At(r, "resend", "insert")

\* One request at a time does, it has seen no recent mail, and nobody sends one
\* or verifies the user behind its back.
HolderOK ==
    \A r \in Request : Holds(r) =>
        /\ user = "unverified" /\ Recent = {}
        /\ \A q \in Request : Holds(q) => q = r

OneRecent == \A m, n \in Recent : m = n
MailInv == HolderOK /\ OneRecent /\ (user = "absent" => Recent = {})

\* What a step may do to the mails and to the holder: the transactions that
\* commit a mail, the one that verifies, the lock, and all others.
Passive ==
    /\ user' = user /\ Recent' \subseteq Recent
    /\ \A q \in Request : Holds(q)' => Holds(q)
Locks(r) ==
    /\ user' = user /\ user = "unverified" /\ Recent' = {} /\ LockFree
    /\ \A q \in Request : Holds(q)' => q = r
Mails(m) ==
    /\ user \in {"absent", "unverified"} /\ user' = "unverified"
    /\ Recent = {} /\ Recent' = {m}
    /\ \A q \in Request : ~Holds(q)'
Verifies == user' = "verified" /\ Recent' = {} /\ \A q \in Request : ~Holds(q)'

MailStep ==
    \/ Passive \/ Verifies
    \/ \E r \in Request : Locks(r)
    \/ \E m \in Mail : Mails(m)

\* A step that is not the lock of a resend makes nobody a holder.
LEMMA OpenHolds ==
    ASSUME TypeOK, NEW r \in Request, NEW kind, NEW pc, NEW arg, NEW waited \in BOOLEAN,
           Open(r, kind, pc, arg, waited), pc # "insert"
    PROVE  \A q \in Request : Holds(q)' => Holds(q)
<1>1. req \in [Request -> RequestState] /\ Free \in RequestState
  BY FreeType DEF TypeOK, ServerOK
<1>2. [Free EXCEPT !.kind = kind, !.pc = pc, !.arg = arg, !.waited = waited].pc = pc
  BY <1>1 DEF RequestState
<1> QED BY <1>1, <1>2 DEF Open, Holds, At

LEMMA OthersHold ==
    ASSUME TypeOK, NEW r \in Request,
           \/ \E pc : Go(r, pc) /\ (pc = "insert" => req[r].kind # "resend")
           \/ \E a \in Answer : \E arg : Reply(r, a, arg)
           \/ Close(r)
    PROVE  \A q \in Request : Holds(q)' => Holds(q)
<1>1. /\ req \in [Request -> RequestState] /\ "insert" \notin Answer
      /\ Free.pc = "none" /\ Free \in RequestState
  BY FreeType DEF TypeOK, ServerOK, Answer, Free
<1>3. ASSUME NEW pc, Go(r, pc), pc = "insert" => req[r].kind # "resend"
      PROVE  \A q \in Request : Holds(q)' => Holds(q)
  BY <1>1, <1>3 DEF Go, Holds, At, RequestState
<1>4. ASSUME NEW a \in Answer, NEW arg, Reply(r, a, arg)
      PROVE  \A q \in Request : Holds(q)' => Holds(q)
  <2>1. [req[r] EXCEPT !.pc = a, !.arg = arg].pc = a /\ a # "insert"
    BY <1>1 DEF RequestState
  <2>2. req'[r].pc # "insert"
    BY <1>1, <1>4, <2>1 DEF Reply
  <2> QED BY <1>1, <1>4, <2>2 DEF Reply, Holds, At
<1>5. ASSUME Close(r) PROVE \A q \in Request : Holds(q)' => Holds(q)
  BY <1>1, <1>5 DEF Close, Holds, At, RequestState
<1> QED BY <1>3, <1>4, <1>5

LEMMA RecentAfter ==
    ASSUME TypeOK, NEW m \in Mail,
           \/ mail' = [mail EXCEPT ![m] = "recent"]
           \/ mail' = [WithoutExpired EXCEPT ![m] = "recent"]
    PROVE  Recent' = Recent \cup {m}
<1>1. mail \in [Mail -> MailState]
  BY DEF TypeOK, ServerOK
<1>2. \A k \in Mail : mail'[k] = "recent" <=> k = m \/ mail[k] = "recent"
  BY <1>1 DEF WithoutExpired
<1> QED BY <1>2 DEF Recent

LEMMA VerificationMails ==
    ASSUME TypeOK, MailInv, Verification
    PROVE  MailStep
<1>1. /\ req \in [Request -> RequestState] /\ mail \in [Mail -> MailState]
      /\ "ok" \in Answer /\ "denied" \in Answer
  BY DEF TypeOK, ServerOK, Answer
<1>2. UNCHANGED mail => Recent' = Recent
  BY DEF Recent
<1>3. ASSUME NEW r \in Request, SignupStart(r) \/ ResendStart(r) PROVE Passive
  BY <1>2, <1>3, OpenHolds DEF SignupStart, ResendStart, Passive
<1>4. ASSUME NEW r \in Request, SignupCheck(r) \/ VerifyRead(r) PROVE Passive
  BY <1>1, <1>2, <1>4, OthersHold DEF SignupCheck, VerifyRead, Passive, At
<1>5. ASSUME NEW r \in Request, NEW m \in Mail, VerifyStart(r, m) PROVE Passive
  BY <1>2, <1>5, OpenHolds DEF VerifyStart, Passive
<1>6. ASSUME NEW r \in Request, SignupInsert(r) PROVE MailStep
  <2>1. \A q \in Request : Holds(q)' => Holds(q)
    BY <1>1, <1>6, OthersHold DEF SignupInsert
  <2>2. CASE user = "absent"
    <3>1. PICK m \in Mail : mail' = [mail EXCEPT ![m] = "recent"]
      BY <1>6, <2>2 DEF SignupInsert, Mailed
    <3>2. Recent = {} /\ \A q \in Request : ~Holds(q)
      BY <2>2 DEF MailInv, HolderOK
    <3>3. Mails(m)
      BY <1>6, <2>1, <2>2, <3>1, <3>2, RecentAfter DEF SignupInsert, Mails
    <3> QED BY <3>3 DEF MailStep
  <2>3. CASE user # "absent"
    BY <1>2, <1>6, <2>1, <2>3 DEF SignupInsert, Passive, MailStep
  <2> QED BY <2>2, <2>3
<1>7. ASSUME NEW r \in Request, ResendLock(r) PROVE MailStep
  <2>1. CASE user = "unverified" /\ Recent = {}
    <3>1. Go(r, "insert") /\ UNCHANGED <<user, mail>> /\ LockFree
      BY <1>7, <2>1 DEF ResendLock
    <3>2. \A q \in Request : Holds(q)' => q = r
      BY <1>1, <3>1 DEF Go, Holds, At, LockFree
    <3>3. Locks(r)
      BY <1>2, <2>1, <3>1, <3>2 DEF Locks
    <3> QED BY <3>3 DEF MailStep
  <2>2. CASE ~(user = "unverified" /\ Recent = {})
    <3>1. \A q \in Request : Holds(q)' => Holds(q)
      BY <1>1, <1>7, <2>2, OthersHold DEF ResendLock
    <3>2. user' = user /\ mail' \in {mail, WithoutExpired}
      BY <1>7, <2>2 DEF ResendLock
    <3>3. Recent' = Recent
      BY <3>2 DEF TypeOK, ServerOK, Recent, WithoutExpired
    <3> QED BY <3>1, <3>2, <3>3 DEF MailStep, Passive
  <2> QED BY <2>1, <2>2
<1>8. ASSUME NEW r \in Request, ResendInsert(r) PROVE MailStep
  <2>1. PICK m \in Mail : mail' = [WithoutExpired EXCEPT ![m] = "recent"]
    BY <1>8 DEF ResendInsert
  <2>2. user = "unverified" /\ Recent = {} /\ \A q \in Request : Holds(q) => q = r
    BY <1>8 DEF ResendInsert, MailInv, HolderOK, Holds
  <2>3. \A q \in Request : Holds(q)' => Holds(q)
    BY <1>1, <1>8, OthersHold DEF ResendInsert
  <2>4. ~Holds(r)'
    <3>1. Reply(r, "ok", 0) /\ Free.pc = "none"
      BY <1>8 DEF ResendInsert, Free
    <3>2. [req[r] EXCEPT !.pc = "ok", !.arg = 0].pc = "ok"
      BY <1>1 DEF RequestState
    <3>3. req'[r].pc \in {"none", "ok"}
      BY <1>1, <3>1, <3>2 DEF Reply
    <3> QED BY <3>3 DEF Holds, At
  <2>5. Mails(m)
    BY <1>8, <2>1, <2>2, <2>3, <2>4, RecentAfter DEF ResendInsert, Mails
  <2> QED BY <2>5 DEF MailStep
<1>9. ASSUME NEW r \in Request, VerifyWrite(r) PROVE Verifies
  <2>1. Recent' = {}
    BY <1>9 DEF VerifyWrite, Recent
  <2>2. \A q \in Request : Holds(q)' => Holds(q)
    BY <1>1, <1>9, OthersHold DEF VerifyWrite
  <2> QED BY <1>9, <2>1, <2>2 DEF VerifyWrite, Verifies, LockFree, Holds
<1>10. ASSUME NEW m \in Mail, Cooled(m) \/ LinkExpires(m) PROVE Passive
  <2>1. Recent' \subseteq Recent
    BY <1>1, <1>10 DEF Cooled, LinkExpires, Recent
  <2> QED BY <1>10, <2>1 DEF Cooled, LinkExpires, Passive, Holds, At
<1> QED BY <1>3, <1>4, <1>5, <1>6, <1>7, <1>8, <1>9, <1>10 DEF Verification, MailStep

LEMMA OtherMails ==
    ASSUME TypeOK, [Next]_vars, ~Verification
    PROVE  Passive
<1>1. req \in [Request -> RequestState] /\ user \in {"absent", "unverified", "verified"}
  BY DEF TypeOK, ServerOK
<1>2. UNCHANGED mail => Recent' = Recent
  BY DEF Recent
<1>3. UNCHANGED req => \A q \in Request : Holds(q)' => Holds(q)
  BY DEF Holds, At
<1>4. {"ok", "denied", "forbidden", "failed"} = Answer
  BY DEF Answer
<1>5. ASSUME NEW r \in Request, SigninRead(r) \/ RefreshDelete(r) \/ Issue(r) \/ Abort(r)
      PROVE  Passive
  <2>1. UNCHANGED <<user, mail>>
    BY <1>5 DEF SigninRead, RefreshDelete, Issue, Abort
  <2>2. \/ Go(r, "issue") \/ \E a \in Answer : \E arg : Reply(r, a, arg)
    BY <1>1, <1>4, <1>5 DEF SigninRead, RefreshDelete, Issue, Abort
  <2> QED BY <1>2, <2>1, <2>2, OthersHold DEF Passive
<1>6. ASSUME NEW r \in Request, RefreshRead(r) PROVE Passive
  <2>1. \A q \in Request : Holds(q)' => Holds(q)
    <3>1. CASE Reply(r, "denied", 0)
      BY <1>4, <3>1, OthersHold
    <3>2. ASSUME NEW pc \in {"delete", "issue"},
                 req' = [req EXCEPT ![r].pc = pc, ![r].saw = row.token]
          PROVE  \A q \in Request : Holds(q)' => Holds(q)
      <4>1. [[req[r] EXCEPT !.pc = pc] EXCEPT !.saw = row.token].pc = pc
        BY <1>1 DEF RequestState
      <4>2. req'[r].pc = pc
        BY <1>1, <3>2, <4>1
      <4> QED BY <1>1, <3>2, <4>2 DEF Holds, At
    <3> QED BY <1>6, <3>1, <3>2 DEF RefreshRead
  <2> QED BY <1>2, <1>6, <2>1 DEF RefreshRead, Passive
<1>7. CASE ServerStep
  BY <1>2, <1>3, <1>5, <1>6, <1>7
     DEF ServerStep, Server, RowExpires, TokenExpires, Passive
<1>8. CASE Restart
  <2>1. \A q \in Request : Holds(q)' => Holds(q)
    BY <1>1, <1>8 DEF Restart, Free, Holds, At, RequestState
  <2> QED BY <1>2, <1>8, <2>1 DEF Restart, Passive
<1>9. ASSUME NEW r \in Request, OtherSignin(r) \/ OtherRefresh(r) \/ SigninStart(r)
      PROVE  Passive
  <2>1. \/ Open(r, "signin", "issue", 0, FALSE) \/ Open(r, "signin", "read", 0, TRUE)
        \/ Open(r, "refresh", "read", issued, FALSE)
    BY <1>9, Zenon DEF OtherSignin, OtherRefresh, SigninStart
  <2>2. UNCHANGED <<user, mail>>
    BY <1>9 DEF OtherSignin, OtherRefresh, SigninStart
  <2>3. \A q \in Request : Holds(q)' => Holds(q)
    BY <2>1, OpenHolds
  <2> QED BY <1>2, <2>2, <2>3 DEF Passive
<1>10. ASSUME NEW r \in Request, RefreshStart(r) PROVE Passive
  <2>1. UNCHANGED req \/ Open(r, "refresh", "read", stored, TRUE)
    BY <1>10 DEF RefreshStart
  <2>2. \A q \in Request : Holds(q)' => Holds(q)
    BY <1>3, <2>1, OpenHolds
  <2> QED BY <1>2, <1>10, <2>2 DEF RefreshStart, Passive
<1>11. ASSUME NEW r \in Request,
              \/ RefreshAnswered(r) \/ RefreshLost(r) \/ SigninAnswered(r) \/ SigninLost(r)
       PROVE  Passive
  <2>1. Close(r) /\ UNCHANGED <<user, mail>>
    BY <1>11 DEF RefreshAnswered, RefreshLost, SigninAnswered, SigninLost
  <2> QED BY <1>2, <2>1, OthersHold DEF Passive
<1>12. CASE \/ AccessExpires \/ SplashCheck \/ SocketRefused \/ SocketConnected
            \/ RefreshDone \/ SignupSent \/ SignupAnswered \/ PutAway \/ Logout
            \/ UNCHANGED vars
            \/ \E c \in Api : Send(c) \/ Refused(c)
  <2>1. UNCHANGED <<user, mail, req>>
    BY <1>12 DEF AccessExpires, SplashCheck, SocketRefused, SocketConnected,
                 RefreshDone, Resume, SignupSent, SignupAnswered, PutAway, Logout,
                 Send, Refused, vars, serverVars
  <2> QED BY <1>2, <1>3, <2>1 DEF Passive
<1> QED BY <1>7, <1>8, <1>9, <1>10, <1>11, <1>12 DEF Next, AppStep

LEMMA MailsMove == TypeOK /\ MailInv /\ [Next]_vars => MailStep
BY VerificationMails, OtherMails DEF MailStep

LEMMA MailInvStep == TypeOK /\ MailInv /\ [Next]_vars => MailInv'
<1> SUFFICES ASSUME TypeOK, MailInv, [Next]_vars PROVE MailInv'
  OBVIOUS
<1>1. CASE Passive
  BY <1>1 DEF Passive, MailInv, HolderOK, OneRecent
<1>2. CASE Verifies
  BY <1>2 DEF Verifies, MailInv, HolderOK, OneRecent
<1>3. ASSUME NEW r \in Request, Locks(r) PROVE MailInv'
  BY <1>3 DEF Locks, MailInv, HolderOK, OneRecent
<1>4. ASSUME NEW m \in Mail, Mails(m) PROVE MailInv'
  BY <1>4 DEF Mails, MailInv, HolderOK, OneRecent
<1> QED BY <1>1, <1>2, <1>3, <1>4, MailsMove DEF MailStep

LEMMA MailInvInit == Init => MailInv
BY DEF Init, ServerInit, MailInv, HolderOK, OneRecent, Recent, Holds, At, Free

LEMMA MailsAlways == Spec => []MailInv
BY MailInvInit, MailInvStep, TypeCorrect, PTL DEF Spec

\* However many signups and resends run into each other, one mail at most is
\* younger than the cooldown.
THEOREM OneMail == Spec => []OneMailPerCooldown
<1>1. MailInv => OneMailPerCooldown
  <2> SUFFICES ASSUME MailInv PROVE Cardinality(Recent) <= 1
    BY DEF OneMailPerCooldown
  <2>1. CASE Recent = {}
    BY <2>1, FS_EmptySet
  <2>2. ASSUME NEW m \in Recent PROVE Cardinality(Recent) <= 1
    <3>1. Recent = {m}
      BY DEF MailInv, OneRecent
    <3>2. Cardinality({m}) = 1
      BY FS_Singleton
    <3> QED BY <3>1, <3>2
  <2> QED BY <2>1, <2>2
<1> QED BY <1>1, MailsAlways, PTL

\* No transaction commits a mail for a user who is verified: the one that verifies
\* waits for a resend that holds the row, and a later resend finds nobody to mail.
THEOREM VerifiedGetsNoMail == Spec => NoMailToVerified
<1>1. TypeOK /\ MailInv /\ [Next]_vars =>
          [\A m \in Mail : mail'[m] = "recent" /\ mail[m] # "recent" => user # "verified"]_vars
  <2> SUFFICES ASSUME TypeOK, MailInv, [Next]_vars, NEW m \in Mail,
                      mail'[m] = "recent", mail[m] # "recent"
               PROVE  user # "verified"
    OBVIOUS
  <2>1. m \in Recent' /\ m \notin Recent
    BY DEF Recent
  <2> QED BY <2>1, MailsMove DEF MailStep, Passive, Locks, Mails, Verifies
<1> QED BY <1>1, MailsAlways, TypeCorrect, PTL DEF Spec, NoMailToVerified

------------------------------------------------------------------------------
(* The answers the app waits for *)

\* What is waited for is a sign-in or a refresh, and succeeds with a token.
Serves(x) == x.waited => x.kind \in {"signin", "refresh"} /\ (x.pc = "ok" => x.arg # 0)
Answers == \A r \in Request : Serves(req[r])

LEMMA OpenServes ==
    ASSUME TypeOK, Answers, NEW r \in Request, NEW kind, NEW pc, NEW arg, NEW waited \in BOOLEAN,
           Open(r, kind, pc, arg, waited), pc # "ok",
           waited => kind \in {"signin", "refresh"}
    PROVE  Answers'
<1>1. req \in [Request -> RequestState] /\ Free \in RequestState
  BY FreeType DEF TypeOK, ServerOK
<1> DEFINE x == [Free EXCEPT !.kind = kind, !.pc = pc, !.arg = arg, !.waited = waited]
<1>2. x.kind = kind /\ x.pc = pc /\ x.waited = waited
  BY <1>1 DEF RequestState
<1>3. req' = [req EXCEPT ![r] = x]
  BY DEF Open
<1> HIDE DEF x
<1> QED BY <1>1, <1>2, <1>3 DEF Answers, Serves

LEMMA ReplyServes ==
    ASSUME TypeOK, Answers, NEW r \in Request, NEW a, NEW arg, Reply(r, a, arg),
           a # "ok" \/ arg # 0 \/ req[r].kind \notin {"signin", "refresh"}
    PROVE  Answers'
<1>1. req \in [Request -> RequestState] /\ ~Free.waited
  BY DEF TypeOK, ServerOK, Free
<1> DEFINE x == [req[r] EXCEPT !.pc = a, !.arg = arg]
<1>2. x.kind = req[r].kind /\ x.pc = a /\ x.waited = req[r].waited /\ x.arg = arg
  BY <1>1 DEF RequestState
<1>3. req' = [req EXCEPT ![r] = IF req[r].waited THEN x ELSE Free]
  BY DEF Reply
<1> HIDE DEF x
<1> QED BY <1>1, <1>2, <1>3 DEF Answers, Serves

LEMMA GoServes ==
    ASSUME TypeOK, Answers, NEW r \in Request, NEW pc, pc # "ok",
           \/ Go(r, pc)
           \/ req' = [req EXCEPT ![r].pc = pc, ![r].saw = row.token]
    PROVE  Answers'
<1>1. req \in [Request -> RequestState]
  BY DEF TypeOK, ServerOK
<1>2. CASE Go(r, pc)
  BY <1>1, <1>2 DEF Go, Answers, Serves, RequestState
<1>3. CASE req' = [req EXCEPT ![r].pc = pc, ![r].saw = row.token]
  <2> DEFINE x == [[req[r] EXCEPT !.pc = pc] EXCEPT !.saw = row.token]
  <2>1. x.kind = req[r].kind /\ x.pc = pc /\ x.waited = req[r].waited
    BY <1>1 DEF RequestState
  <2>2. req' = [req EXCEPT ![r] = x]
    BY <1>1, <1>3
  <2> HIDE DEF x
  <2> QED BY <1>1, <2>1, <2>2 DEF Answers, Serves
<1> QED BY <1>2, <1>3

LEMMA CloseServes ==
    ASSUME TypeOK, Answers, NEW r \in Request, Close(r)
    PROVE  Answers'
BY DEF TypeOK, ServerOK, Close, Answers, Serves, RequestState, Free

LEMMA ServerServes ==
    ASSUME TypeOK, Answers, Server
    PROVE  Answers'
<1>1. UNCHANGED req => Answers'
  BY DEF Answers, Serves
<1>2. ASSUME NEW r \in Request, SignupStart(r) \/ ResendStart(r) PROVE Answers'
  BY <1>2, OpenServes DEF SignupStart, ResendStart
<1>3. ASSUME NEW r \in Request, NEW m \in Mail, VerifyStart(r, m) PROVE Answers'
  BY <1>3, OpenServes DEF VerifyStart
<1>4. ASSUME NEW r \in Request,
             \/ SignupCheck(r) \/ SignupInsert(r) \/ ResendLock(r) \/ ResendInsert(r)
             \/ VerifyRead(r) \/ VerifyWrite(r)
      PROVE  Answers'
  <2>1. req[r].kind \notin {"signin", "refresh"}
    BY <1>4 DEF SignupCheck, SignupInsert, ResendLock, ResendInsert, VerifyRead,
                VerifyWrite, At
  <2>2. \/ \E pc \in {"insert", "write"} : Go(r, pc)
        \/ \E a \in {"ok", "denied"} : Reply(r, a, 0)
    BY <1>4 DEF SignupCheck, SignupInsert, ResendLock, ResendInsert, VerifyRead, VerifyWrite
  <2> QED BY <2>1, <2>2, GoServes, ReplyServes
<1>5. ASSUME NEW m \in Mail, Cooled(m) \/ LinkExpires(m) PROVE Answers'
  BY <1>1, <1>5 DEF Cooled, LinkExpires
<1>6. ASSUME NEW r \in Request, SigninRead(r) \/ RefreshDelete(r) \/ Abort(r) PROVE Answers'
  <2>1. Go(r, "issue") \/ \E a \in {"denied", "forbidden", "failed"} : Reply(r, a, 0)
    BY <1>6 DEF SigninRead, RefreshDelete, Abort, TypeOK, ServerOK
  <2> QED BY <2>1, GoServes, ReplyServes
<1>7. ASSUME NEW r \in Request, RefreshRead(r) PROVE Answers'
  <2>1. \/ Reply(r, "denied", 0)
        \/ \E pc \in {"delete", "issue"} : req' = [req EXCEPT ![r].pc = pc, ![r].saw = row.token]
    BY <1>7 DEF RefreshRead
  <2> QED BY <2>1, GoServes, ReplyServes
<1>8. ASSUME NEW r \in Request, Issue(r) PROVE Answers'
  <2>1. Reply(r, "ok", issued + 1) /\ issued + 1 # 0
    BY <1>8 DEF Issue, TypeOK, ServerOK, Token
  <2> QED BY <2>1, ReplyServes
<1>9. CASE RowExpires
  BY <1>1, <1>9 DEF RowExpires
<1> QED BY <1>2, <1>3, <1>4, <1>5, <1>6, <1>7, <1>8, <1>9 DEF Server, Verification

LEMMA AnswersStep == TypeOK /\ Answers /\ [Next]_vars => Answers'
<1> SUFFICES ASSUME TypeOK, Answers, [Next]_vars PROVE Answers'
  OBVIOUS
<1>1. UNCHANGED req => Answers'
  BY DEF Answers, Serves
<1>2. CASE ServerStep
  BY <1>1, <1>2, ServerServes DEF ServerStep, TokenExpires
<1>3. CASE Restart
  BY <1>3 DEF Restart, TypeOK, ServerOK, Answers, Serves, RequestState, Free
<1>4. ASSUME NEW r \in Request,
             OtherSignin(r) \/ OtherRefresh(r) \/ SigninStart(r) \/ RefreshStart(r)
      PROVE  Answers'
  <2>1. \/ Open(r, "signin", "issue", 0, FALSE) \/ Open(r, "signin", "read", 0, TRUE)
        \/ Open(r, "refresh", "read", issued, FALSE)
        \/ Open(r, "refresh", "read", stored, TRUE) \/ UNCHANGED req
    BY <1>4, Zenon DEF OtherSignin, OtherRefresh, SigninStart, RefreshStart
  <2> QED BY <1>1, <2>1, OpenServes
<1>5. ASSUME NEW r \in Request,
             \/ RefreshAnswered(r) \/ RefreshLost(r) \/ SigninAnswered(r) \/ SigninLost(r)
      PROVE  Answers'
  BY <1>5, CloseServes DEF RefreshAnswered, RefreshLost, SigninAnswered, SigninLost
<1>6. CASE \/ AccessExpires \/ SplashCheck \/ SocketRefused \/ SocketConnected
           \/ RefreshDone \/ SignupSent \/ SignupAnswered \/ PutAway \/ Logout
           \/ UNCHANGED vars
           \/ \E c \in Api : Send(c) \/ Refused(c)
  BY <1>1, <1>6 DEF AccessExpires, SplashCheck, SocketRefused, SocketConnected,
                    RefreshDone, Resume, SignupSent, SignupAnswered, PutAway, Logout,
                    Send, Refused, vars, serverVars
<1> QED BY <1>2, <1>3, <1>4, <1>5, <1>6 DEF Next, AppStep

------------------------------------------------------------------------------
(* Nobody is inside without a session *)

\* Where the screen, the sign-in, the sign-up and the refresh stand to each other:
\* one signs in from outside, and a sign-up that goes on inside was there when the
\* session was stored; the splash screen waits where it is; and a refresh that is
\* under way while the user is inside has somebody who will learn how it ends, or a
\* socket that was put away, unless it was started for an earlier session.
Outside == login.req # {} => screen = "auth"
SignsUp == signup # "none" => screen = "auth" \/ (screen = "home" /\ "overlap" \in causes)
SplashWaits == call[Splash] = "waiting" => screen = "splash"
Refreshed == /\ rf.ok => rf.pc = "done"
             /\ rf.ok /\ screen = "splash" => stored # 0
Watched ==
    screen = "home" /\ rf.pc # "idle" /\ ~rf.ok /\ "overlap" \notin causes =>
        Waiting # {} \/ call[Socket] = "dropped"
HomeInv ==
    Answers /\ Outside /\ SignsUp /\ SplashWaits /\ Refreshed /\ Watched /\ HomeHasSession
HomeNext ==
    Outside' /\ SignsUp' /\ SplashWaits' /\ Refreshed' /\ Watched' /\ HomeHasSession'

LEMMA HomeCalls ==
    ASSUME TypeOK, HomeInv,
           \/ AccessExpires \/ SocketConnected \/ SplashCheck \/ SocketRefused
           \/ \E c \in Api : Send(c) \/ Refused(c)
    PROVE  HomeNext
<1>0. /\ call \in [Caller -> {"idle", "sent", "waiting", "dropped"}]
      /\ rf \in [pc : {"idle", "token", "wait", "done"}, req : SUBSET Request, ok : BOOLEAN]
      /\ Splash \in Caller /\ Splash \notin Api /\ Splash # Socket /\ Socket \in Caller
  BY DEF TypeOK, Caller
<1> USE DEF HomeInv, HomeNext, Outside, SignsUp, SplashWaits, Refreshed, Watched,
            HomeHasSession
<1>1. CASE AccessExpires \/ SocketConnected
  BY <1>1 DEF AccessExpires, SocketConnected, Waiting, serverVars
<1>2. ASSUME NEW c \in Api, Send(c)
      PROVE  HomeNext
  <2>1. Waiting \subseteq Waiting' /\ c \in Caller /\ call'[Socket] = call[Socket]
    BY <1>0, <1>2 DEF Send, Waiting, Caller
  <2> QED BY <1>0, <1>2, <2>1 DEF Send
<1>3. ASSUME NEW c \in Caller, Join(c), UNCHANGED <<stored, screen, login, signup, causes, quiet>>,
             c = Splash => screen = "splash"
      PROVE  HomeNext
  <2>1. c \in Waiting' /\ Waiting \subseteq Waiting'
    BY <1>0, <1>3 DEF Join, Waiting
  <2>2. /\ rf'.ok = rf.ok
        /\ rf.pc # "idle" => rf' = rf
        /\ rf.pc = "idle" => rf'.pc = "token"
    BY <1>0, <1>3 DEF Join
  <2>3. call'[Splash] = "waiting" => screen' = "splash"
    BY <1>0, <1>3 DEF Join
  <2> QED BY <1>0, <1>3, <2>1, <2>2, <2>3
<1>4. CASE SplashCheck
  BY <1>0, <1>3, <1>4 DEF SplashCheck
<1>5. CASE SocketRefused
  BY <1>0, <1>3, <1>5 DEF SocketRefused
<1>6. ASSUME NEW c \in Api, Refused(c)
      PROVE  HomeNext
  BY <1>0, <1>3, <1>6 DEF Refused, Caller
<1> QED BY <1>1, <1>2, <1>4, <1>5, <1>6

LEMMA HomeRefresh ==
    ASSUME TypeOK, HomeInv,
           \/ RefreshDone
           \/ \E r \in Request : RefreshStart(r) \/ RefreshAnswered(r) \/ RefreshLost(r)
    PROVE  HomeNext
<1>0. /\ rf \in [pc : {"idle", "token", "wait", "done"}, req : SUBSET Request, ok : BOOLEAN]
      /\ login \in [req : SUBSET Request, mounted : BOOLEAN]
      /\ call \in [Caller -> {"idle", "sent", "waiting", "dropped"}] /\ Splash \in Caller
      /\ \A r \in Request : r \in rf.req => req[r].waited
      /\ screen \in {"splash", "home", "auth"}
  BY DEF TypeOK, Caller
<1> USE DEF HomeInv, Outside, SignsUp, SplashWaits, Refreshed, Watched, HomeHasSession,
            HomeNext
<1>1. ASSUME NEW r \in Request, RefreshStart(r) PROVE HomeNext
  <2>1. /\ rf.pc = "token" /\ UNCHANGED <<stored, screen, call, login, signup, causes, quiet>>
        /\ rf'.ok = rf.ok /\ rf'.pc = IF stored = 0 THEN "done" ELSE "wait"
    BY <1>0, <1>1 DEF RefreshStart
  <2> QED BY <1>0, <2>1 DEF Waiting
<1>2. ASSUME NEW r \in Request, RefreshLost(r) PROVE HomeNext
  <2>1. /\ rf.pc = "wait" /\ UNCHANGED <<screen, call, login, signup, quiet>>
        /\ causes' = causes \cup {"fault"}
        /\ ~rf'.ok /\ rf'.pc = "done"
    BY <1>0, <1>2 DEF RefreshLost
  <2>2. Waiting' = Waiting
    BY <2>1 DEF Waiting
  <2>3. screen = "home" /\ "overlap" \notin causes => Waiting # {} \/ call[Socket] = "dropped"
    BY <1>0, <2>1
  <2> QED BY <2>1, <2>2, <2>3
<1>3. ASSUME NEW r \in Request, RefreshAnswered(r) PROVE HomeNext
  <2>1. /\ rf.pc = "wait" /\ UNCHANGED <<screen, call, login, signup, quiet>>
        /\ rf'.pc = "done" /\ rf'.ok = (req[r].pc = "ok")
        /\ req[r].waited
    BY <1>0, <1>3 DEF RefreshAnswered
  <2>2. Waiting' = Waiting
    BY <2>1 DEF Waiting
  <2>3. CASE req[r].pc = "ok"
    <3>1. stored' # 0
      BY <1>3, <2>1, <2>3 DEF RefreshAnswered, Save, Answers, Serves
    <3>2. signup # "none" => "overlap" \in causes'
      BY <1>3, <2>3 DEF RefreshAnswered, Save
    <3> QED BY <2>1, <2>3, <3>1, <3>2
  <2>4. CASE req[r].pc # "ok"
    <3>1. causes' = causes /\ ~rf'.ok /\ ~rf.ok
      BY <1>0, <1>3, <2>1, <2>4 DEF RefreshAnswered
    <3> QED BY <2>1, <2>2, <3>1
  <2> QED BY <2>3, <2>4
<1>4. CASE RefreshDone
  <2>1. /\ rf.pc = "done" /\ rf' = NoRefresh /\ UNCHANGED <<stored, causes>>
        /\ rf'.pc = "idle" /\ ~rf'.ok
        /\ \A c \in Caller : call'[c] # "waiting"
    BY <1>0, <1>4 DEF RefreshDone, Resume, NoRefresh
  <2>2. CASE rf.ok
    <3>1. /\ UNCHANGED <<login, signup, quiet>>
          /\ screen' = IF Splash \in Waiting THEN "home" ELSE screen
      BY <1>4, <2>2 DEF RefreshDone, Resume
    <3>2. CASE Splash \in Waiting
      <4>1. screen = "splash" /\ stored # 0 /\ login.req = {} /\ signup = "none"
        BY <1>0, <2>2, <3>2 DEF Waiting
      <4> QED BY <1>0, <2>1, <3>1, <4>1
    <3>3. CASE Splash \notin Waiting
      BY <1>0, <2>1, <2>2, <3>1, <3>3
    <3> QED BY <3>2, <3>3
  <2>3. CASE ~rf.ok /\ Waiting # {}
    <3>1. screen' = "auth"
      BY <1>4, <2>3 DEF RefreshDone, Resume
    <3> QED BY <1>0, <2>1, <3>1
  <2>4. CASE ~rf.ok /\ Waiting = {}
    <3>1. /\ UNCHANGED <<screen, login, signup>>
          /\ quiet' = (screen = "home" /\ (quiet \/ call[Socket] = "dropped"))
      BY <1>4, <2>4 DEF RefreshDone, Resume
    <3>2. screen = "home" /\ "overlap" \notin causes => quiet'
      BY <2>1, <2>4, <3>1
    <3> QED BY <1>0, <2>1, <3>1, <3>2
  <2> QED BY <2>2, <2>3, <2>4
<1> QED BY <1>1, <1>2, <1>3, <1>4

LEMMA HomeSignin ==
    ASSUME TypeOK, HomeInv,
           \/ SignupSent \/ SignupAnswered \/ PutAway \/ Logout \/ Restart
           \/ \E r \in Request : SigninStart(r) \/ SigninAnswered(r) \/ SigninLost(r)
    PROVE  HomeNext
<1>0. /\ rf \in [pc : {"idle", "token", "wait", "done"}, req : SUBSET Request, ok : BOOLEAN]
      /\ login \in [req : SUBSET Request, mounted : BOOLEAN]
      /\ call \in [Caller -> {"idle", "sent", "waiting", "dropped"}]
      /\ Splash \in Caller /\ Socket \in Caller /\ Splash # Socket
      /\ \A r \in Request : r \in login.req => req[r].waited
      /\ screen \in {"splash", "home", "auth"}
  BY DEF TypeOK, Caller
<1> USE DEF HomeInv, Outside, SignsUp, SplashWaits, Refreshed, Watched, HomeHasSession,
            HomeNext
<1>1. ASSUME NEW r \in Request, SigninStart(r) PROVE HomeNext
  BY <1>1 DEF SigninStart, Waiting
<1>2. ASSUME NEW r \in Request, SigninLost(r) PROVE HomeNext
  <2>1. login'.req = {} /\ UNCHANGED <<stored, screen, call, rf, signup, causes, quiet>>
    BY <1>2 DEF SigninLost, NoLogin
  <2> QED BY <2>1 DEF Waiting
<1>3. ASSUME NEW r \in Request, SigninAnswered(r) PROVE HomeNext
  <2>1. /\ login'.req = {} /\ UNCHANGED <<call, rf, signup, quiet>>
        /\ login.req = {r} /\ req[r].waited /\ screen = "auth"
    BY <1>0, <1>3 DEF SigninAnswered, NoLogin
  <2>2. CASE req[r].pc = "ok"
    <3>1. Save(req[r].arg, rf.pc # "idle")
      BY <1>3, <2>2 DEF SigninAnswered
    <3>2. stored' # 0
      BY <2>1, <2>2, <3>1 DEF Save, Answers, Serves
    <3>3. rf.pc # "idle" \/ signup # "none" => "overlap" \in causes'
      BY <3>1 DEF Save
    <3>4. screen' \in {"home", "auth"}
      BY <1>3, <2>1, <2>2 DEF SigninAnswered
    <3>5. call[Splash] # "waiting"
      BY <2>1
    <3> QED BY <2>1, <3>2, <3>3, <3>4, <3>5
  <2>3. CASE req[r].pc # "ok"
    <3>1. screen' = "auth"
      BY <1>3, <2>1, <2>3 DEF SigninAnswered, Clear
    <3> QED BY <2>1, <3>1
  <2> QED BY <2>2, <2>3
<1>4. CASE Logout
  <2>1. screen' = "auth" /\ UNCHANGED <<rf, login>> /\ call'[Splash] = call[Splash]
        /\ screen = "home"
    BY <1>0, <1>4 DEF Logout, Disconnected
  <2> QED BY <2>1
<1>5. CASE Restart
  <2>1. /\ screen' = "splash" /\ login'.req = {} /\ signup' = "none"
        /\ ~rf'.ok /\ rf'.pc = "idle"
    BY <1>5 DEF Restart, NoLogin, NoRefresh
  <2> QED BY <2>1
<1>6. CASE SignupSent
  <2>1. screen = "auth" /\ UNCHANGED <<screen, call, rf>>
    BY <1>6 DEF SignupSent
  <2> QED BY <2>1
<1>7. CASE SignupAnswered
  <2>1. /\ UNCHANGED <<screen, call, rf, login, causes, quiet>> /\ signup' = "none"
        /\ screen = "auth" \/ (screen = "home" /\ "overlap" \in causes)
    BY <1>7 DEF SignupAnswered
  <2> QED BY <2>1
<1>8. CASE PutAway
  <2>1. /\ UNCHANGED <<stored, screen, rf, login, signup, causes, quiet>>
        /\ call'[Socket] = "dropped" /\ call'[Splash] = call[Splash]
    BY <1>0, <1>8 DEF PutAway, Disconnected
  <2> QED BY <2>1
<1> QED BY <1>1, <1>2, <1>3, <1>4, <1>5, <1>6, <1>7, <1>8

LEMMA HomeStep == TypeOK /\ HomeInv /\ [Next]_vars => HomeInv'
<1> SUFFICES ASSUME TypeOK, HomeInv, [Next]_vars PROVE HomeNext
  BY AnswersStep DEF HomeInv, HomeNext
<1>1. ASSUME UNCHANGED <<stored, screen, call, rf, login, signup, quiet>>, causes \subseteq causes'
      PROVE  HomeNext
  BY <1>1 DEF HomeInv, Outside, SignsUp, SplashWaits, Refreshed, Watched, HomeHasSession,
              HomeNext, Waiting
<1>2. CASE ServerStep
  <2>1. UNCHANGED <<stored, screen, call, rf, login, signup, quiet>> /\ causes \subseteq causes'
    BY <1>2 DEF ServerStep
  <2> QED BY <1>1, <2>1
<1>3. CASE UNCHANGED vars
  <2>1. UNCHANGED <<stored, screen, call, rf, login, signup, quiet>> /\ causes \subseteq causes'
    BY <1>3 DEF vars, appVars
  <2> QED BY <1>1, <2>1
<1>4. CASE AppStep
  <2>1. CASE \/ AccessExpires \/ SocketConnected \/ SplashCheck \/ SocketRefused
             \/ \E c \in Api : Send(c) \/ Refused(c)
    BY <2>1, HomeCalls
  <2>2. CASE \/ RefreshDone
             \/ \E r \in Request : RefreshStart(r) \/ RefreshAnswered(r) \/ RefreshLost(r)
    BY <2>2, HomeRefresh
  <2>3. CASE \/ SignupSent \/ SignupAnswered \/ PutAway \/ Logout \/ Restart
             \/ \E r \in Request : SigninStart(r) \/ SigninAnswered(r) \/ SigninLost(r)
    BY <2>3, HomeSignin
  <2>4. ASSUME NEW r \in Request, OtherSignin(r) \/ OtherRefresh(r) PROVE HomeNext
    BY <1>1, <2>4 DEF OtherSignin, OtherRefresh, appVars
  <2> QED BY <1>4, <2>1, <2>2, <2>3, <2>4, Zenon DEF AppStep
<1> QED BY <1>2, <1>3, <1>4 DEF Next

LEMMA HomeInit == Init => HomeInv
BY DEF Init, ServerInit, HomeInv, Answers, Serves, Outside, SignsUp, SplashWaits, Refreshed,
       Watched, HomeHasSession, Free, NoRefresh, NoLogin, Nobody, Caller

LEMMA HomeAlways == Spec => []HomeInv
BY HomeInit, HomeStep, TypeCorrect, PTL DEF Spec

\* However refreshes, sign-ins, sign-ups, logouts and restarts overlap, and whenever
\* the app is put away, whoever is inside it has a session or is about to be sent
\* out.  Two ways to be inside without one are left: a refresh or a sign-up meant for
\* an earlier session ended this one, or the refresh that ended it told nobody, the
\* app having been put away while only the socket waited.
THEOREM InsideWithSession == Spec => []HomeHasSession
<1>1. HomeInv => HomeHasSession
  BY DEF HomeInv
<1> QED BY <1>1, HomeAlways, PTL

------------------------------------------------------------------------------
(* A session ends for a reason *)

\* The stored session may rightly end.
Excused == stored # 0 => causes # {}

\* The refresh that is waited for is about the stored token, and is refused only when
\* there is a reason; a sign-in is forbidden only while the user has never had a
\* token; and the stored token, or the row, is spoilt only for a reason.
RefreshOK == \A r \in rf.req :
    /\ req[r].kind = "refresh" /\ req[r].pc # "forbidden"
    /\ req[r].pc \notin Answer => Excused \/ req[r].arg = stored
    /\ req[r].pc \in {"denied", "failed"} => Excused
SigninOK == \A r \in login.req :
    req[r].kind = "signin" /\ (req[r].pc = "forbidden" => stored = 0 /\ rf.req = {})
Spoilt == (stored \in dead \/ ~row.valid) => Excused
Deleting == \A r \in Request : At(r, "refresh", "delete") => Excused
Verified == \/ user = "verified"
            \/ issued = 0 /\ \A r \in Request : req[r].pc # "issue" /\ req[r].kind # "refresh"
EndInv == Answers /\ RefreshOK /\ SigninOK /\ Spoilt /\ Deleting /\ Verified
EndNext == RefreshOK' /\ SigninOK' /\ Spoilt' /\ Deleting' /\ Verified'

\* What the server does to the other requests, and to one.
LEMMA ReplyMove ==
    ASSUME TypeOK, NEW r \in Request, NEW a \in Answer, NEW arg, Reply(r, a, arg)
    PROVE  /\ \A q \in Request \ {r} : req'[q] = req[q]
           /\ \/ ~req[r].waited /\ req'[r] = Free
              \/ /\ req[r].waited /\ req'[r].waited /\ req'[r].kind = req[r].kind
                 /\ req'[r].pc = a /\ req'[r].arg = arg
BY DEF TypeOK, ServerOK, Reply, RequestState

LEMMA GoMove ==
    ASSUME TypeOK, NEW r \in Request, NEW pc, Go(r, pc)
    PROVE  /\ \A q \in Request \ {r} : req'[q] = req[q]
           /\ req'[r].waited = req[r].waited /\ req'[r].kind = req[r].kind
           /\ req'[r].pc = pc /\ req'[r].arg = req[r].arg
BY DEF TypeOK, ServerOK, Go, RequestState

\* Signup and the verification mails leave the sessions alone.
Foreign(x) == x.kind \notin {"signin", "refresh"} /\ x.pc # "issue"
LEMMA VerificationQuiet ==
    ASSUME TypeOK, Verification
    PROVE  /\ UNCHANGED <<row, issued, dead>>
           /\ user = "verified" => user' = "verified"
           /\ \A q \in Request : req'[q] = req[q] \/ (Foreign(req[q]) /\ Foreign(req'[q]))
<1>0. req \in [Request -> RequestState]
  BY DEF TypeOK, ServerOK
<1>1. ASSUME NEW r \in Request, NEW kind \in {"signup", "resend", "verify"},
             NEW pc \in {"check", "lock", "read"}, NEW arg, Open(r, kind, pc, arg, FALSE)
      PROVE  \A q \in Request : req'[q] = req[q] \/ (Foreign(req[q]) /\ Foreign(req'[q]))
  BY <1>0, <1>1 DEF Open, Free, Foreign
<1>2. ASSUME NEW r \in Request, Foreign(req[r]),
             \/ \E pc \in {"insert", "write"} : Go(r, pc)
             \/ \E a \in {"ok", "denied"} : Reply(r, a, 0)
      PROVE  \A q \in Request : req'[q] = req[q] \/ (Foreign(req[q]) /\ Foreign(req'[q]))
  <2>1. CASE \E pc \in {"insert", "write"} : Go(r, pc)
    BY <1>2, <2>1, GoMove DEF Foreign
  <2>2. CASE \E a \in {"ok", "denied"} : Reply(r, a, 0)
    BY <1>2, <2>2, ReplyMove DEF Foreign, Free, Answer
  <2> QED BY <1>2, <2>1, <2>2
<1>3. ASSUME NEW r \in Request, SignupStart(r) \/ ResendStart(r) PROVE
             \A q \in Request : req'[q] = req[q] \/ (Foreign(req[q]) /\ Foreign(req'[q]))
  BY <1>1, <1>3 DEF SignupStart, ResendStart
<1>4. ASSUME NEW r \in Request, NEW m \in Mail, VerifyStart(r, m) PROVE
             \A q \in Request : req'[q] = req[q] \/ (Foreign(req[q]) /\ Foreign(req'[q]))
  BY <1>1, <1>4 DEF VerifyStart
<1>5. ASSUME NEW r \in Request,
             \/ SignupCheck(r) \/ SignupInsert(r) \/ ResendLock(r) \/ ResendInsert(r)
             \/ VerifyRead(r) \/ VerifyWrite(r)
      PROVE  \A q \in Request : req'[q] = req[q] \/ (Foreign(req[q]) /\ Foreign(req'[q]))
  <2>1. Foreign(req[r])
    BY <1>5 DEF SignupCheck, SignupInsert, ResendLock, ResendInsert, VerifyRead,
                VerifyWrite, At, Foreign
  <2>2. \/ \E pc \in {"insert", "write"} : Go(r, pc)
        \/ \E a \in {"ok", "denied"} : Reply(r, a, 0)
    BY <1>5 DEF SignupCheck, SignupInsert, ResendLock, ResendInsert, VerifyRead, VerifyWrite
  <2> QED BY <1>2, <2>1, <2>2
<1>6. /\ UNCHANGED <<row, issued, dead>>
      /\ user = "verified" => user' = "verified"
  BY DEF Verification, SignupStart, SignupCheck, SignupInsert, ResendStart, ResendLock,
         ResendInsert, VerifyStart, VerifyRead, VerifyWrite, Cooled, LinkExpires
<1>7. ASSUME NEW m \in Mail, Cooled(m) \/ LinkExpires(m) PROVE UNCHANGED req
  BY <1>7 DEF Cooled, LinkExpires
<1> QED BY <1>3, <1>4, <1>5, <1>6, <1>7 DEF Verification


LEMMA ServerEnds ==
    ASSUME TypeOK, EndInv, ServerStep
    PROVE  EndNext
<1>0. /\ UNCHANGED <<stored, rf, login>> /\ causes \subseteq causes'
      /\ Excused => Excused'
      /\ \A r \in rf.req \cup login.req : r \in Request /\ req[r].waited
      /\ rf.req \subseteq Request /\ login.req \subseteq Request
      /\ stored \in 0 .. issued /\ issued \in Nat
  BY DEF ServerStep, Excused, TypeOK, ServerOK, Token
<1>1. RefreshOK /\ SigninOK /\ Spoilt /\ Deleting /\ Verified /\ Answers
  BY DEF EndInv
<1> USE DEF EndNext, RefreshOK, SigninOK, Spoilt, Deleting, Verified
<1>2. CASE Verification
  <2>1. /\ UNCHANGED <<row, issued, dead>>
        /\ user = "verified" => user' = "verified"
        /\ \A q \in Request : req'[q] = req[q] \/ (Foreign(req[q]) /\ Foreign(req'[q]))
    BY <1>2, VerificationQuiet
  <2>2. \A q \in rf.req \cup login.req : req'[q] = req[q]
    BY <1>0, <1>1, <2>1 DEF Foreign
  <2> QED BY <1>0, <1>1, <2>1, <2>2 DEF Foreign, At
<1>3. ASSUME NEW r \in Request, SigninRead(r) PROVE EndNext
  <2>1. /\ UNCHANGED <<user, row, issued, dead>> /\ req[r].kind = "signin"
        /\ \/ Go(r, "issue") /\ user = "verified"
           \/ Reply(r, "forbidden", 0) /\ user = "unverified"
           \/ Reply(r, "denied", 0)
    BY <1>3 DEF SigninRead, At, TypeOK, ServerOK
  <2>2. /\ \A q \in Request \ {r} : req'[q] = req[q]
        /\ req'[r].kind \in {"signin", "none"} /\ r \notin rf.req
        /\ r \in login.req => req'[r].kind = "signin"
        /\ req'[r].pc = "forbidden" => user = "unverified"
        /\ req'[r].pc = "issue" => user = "verified"
    BY <1>0, <1>1, <2>1, GoMove, ReplyMove DEF Free, Answer
  <2>3. user = "unverified" => stored = 0 /\ rf.req = {}
    BY <1>0, <1>1
  <2> QED BY <1>0, <1>1, <2>1, <2>2, <2>3 DEF At
<1>4. ASSUME NEW r \in Request, RefreshRead(r) PROVE EndNext
  <2>1. /\ UNCHANGED <<user, row, issued, dead>> /\ At(r, "refresh", "read")
        /\ row \in [token : Token, valid : BOOLEAN] /\ (row.valid => row.token # 0)
    BY <1>4 DEF RefreshRead, TypeOK, ServerOK
  <2>2. CASE Reply(r, "denied", 0) /\ (req[r].arg \in dead \/ ~Matches(req[r].arg, row))
    <3>1. r \in rf.req => Excused
      BY <1>1, <2>1, <2>2 DEF Matches, At, Answer
    <3>2. /\ \A q \in Request \ {r} : req'[q] = req[q]
          /\ req'[r].kind \in {"refresh", "none"} /\ req'[r].pc \in {"denied", "none"}
          /\ r \in rf.req => req'[r].kind = "refresh" /\ req'[r].pc = "denied"
          /\ r \notin login.req
      BY <1>0, <1>1, <2>1, <2>2, ReplyMove DEF Free, Answer, At
    <3> QED BY <1>0, <1>1, <2>1, <3>1, <3>2 DEF At, Answer
  <2>3. CASE req' = [req EXCEPT ![r].pc = IF Expired(row) THEN "delete" ELSE "issue",
                                ![r].saw = row.token]
    <3>1. /\ \A q \in Request \ {r} : req'[q] = req[q]
          /\ req'[r].kind = "refresh" /\ req'[r].arg = req[r].arg
          /\ req'[r].pc = IF Expired(row) THEN "delete" ELSE "issue"
      BY <2>1, <2>3 DEF TypeOK, ServerOK, RequestState, At
    <3>2. req'[r].pc = "delete" => Excused
      BY <1>1, <3>1 DEF Expired
    <3>3. user = "verified" /\ r \notin login.req
      BY <1>1, <2>1 DEF At
    <3> QED BY <1>0, <1>1, <2>1, <3>1, <3>2, <3>3 DEF At, Answer
  <2> QED BY <1>4, <2>2, <2>3 DEF RefreshRead
<1>5. ASSUME NEW r \in Request, RefreshDelete(r) PROVE EndNext
  <2>1. /\ UNCHANGED <<user, issued, dead>> /\ At(r, "refresh", "delete")
        /\ Reply(r, "denied", 0) /\ Excused
    BY <1>1, <1>5 DEF RefreshDelete
  <2>2. /\ \A q \in Request \ {r} : req'[q] = req[q]
        /\ req'[r].kind \in {"refresh", "none"} /\ req'[r].pc \in {"denied", "none"}
        /\ r \in rf.req => req'[r].kind = "refresh" /\ req'[r].pc = "denied"
        /\ r \notin login.req
    BY <1>0, <1>1, <2>1, ReplyMove DEF Free, Answer, At
  <2> QED BY <1>0, <1>1, <2>1, <2>2 DEF At, Answer
<1>6. ASSUME NEW r \in Request, Issue(r) PROVE EndNext
  <2>1. /\ UNCHANGED <<user, dead>> /\ req[r].pc = "issue" /\ Reply(r, "ok", issued + 1)
        /\ row'.valid
    BY <1>6 DEF Issue
  <2>2. /\ \A q \in Request \ {r} : req'[q] = req[q]
        /\ req'[r].pc \in {"ok", "none"}
        /\ req[r].waited => req'[r].kind = req[r].kind /\ req'[r].pc = "ok"
    BY <2>1, ReplyMove DEF Free, Answer
  <2>3. user = "verified"
    BY <1>1, <2>1
  <2> QED BY <1>0, <1>1, <2>1, <2>2, <2>3 DEF At, Answer
<1>7. ASSUME NEW r \in Request, Abort(r) PROVE EndNext
  <2>1. UNCHANGED <<user, row, issued, dead>> /\ Reply(r, "failed", 0)
    BY <1>7 DEF Abort
  <2>2. /\ \A q \in Request \ {r} : req'[q] = req[q]
        /\ req'[r].pc \in {"failed", "none"}
        /\ req'[r].kind \in {req[r].kind, "none"}
        /\ req[r].waited => req'[r].kind = req[r].kind /\ req'[r].pc = "failed"
    BY <2>1, ReplyMove DEF Free, Answer
  <2>3. r \in rf.req => Excused'
    <3>1. r \in rf.req => "fault" \in causes'
      BY <1>0, <2>2 DEF ServerStep
    <3> QED BY <3>1 DEF Excused
  <2> QED BY <1>0, <1>1, <2>1, <2>2, <2>3 DEF At, Answer
<1>8. CASE RowExpires \/ TokenExpires(stored)
  <2>1. /\ UNCHANGED <<user, issued, req>>
        /\ RowExpires \/ stored \in dead'
    BY <1>8 DEF RowExpires, TokenExpires
  <2>2. Excused'
    <3>1. stored # 0 => "expiry" \in causes'
      BY <2>1 DEF ServerStep
    <3> QED BY <1>0, <3>1 DEF Excused
  <2> QED BY <1>0, <1>1, <2>1, <2>2 DEF At
<1> QED BY <1>2, <1>3, <1>4, <1>5, <1>6, <1>7, <1>8 DEF ServerStep, Server

LEMMA OpenMove ==
    ASSUME TypeOK, NEW r \in Request, NEW kind, NEW pc, NEW arg, NEW waited,
           Open(r, kind, pc, arg, waited)
    PROVE  /\ \A q \in Request \ {r} : req'[q] = req[q]
           /\ ~req[r].waited /\ r \notin rf.req \cup login.req
           /\ req'[r].kind = kind /\ req'[r].pc = pc /\ req'[r].arg = arg
BY DEF TypeOK, ServerOK, Open, Free

LEMMA CloseMove ==
    ASSUME TypeOK, NEW r \in Request, Close(r)
    PROVE  /\ \A q \in Request \ {r} : req'[q] = req[q]
           /\ req'[r].pc \in {req[r].pc, "none"} /\ req'[r].kind \in {req[r].kind, "none"}
           /\ req[r].pc \in Answer => req'[r].pc = "none"
BY DEF TypeOK, ServerOK, Close, RequestState, Free

LEMMA RefreshEnds ==
    ASSUME TypeOK, EndInv,
           \E r \in Request : RefreshStart(r) \/ RefreshAnswered(r) \/ RefreshLost(r)
    PROVE  EndNext
<1>0. /\ rf.req \subseteq Request /\ login.req \subseteq Request
      /\ rf \in [pc : {"idle", "token", "wait", "done"}, req : SUBSET Request, ok : BOOLEAN]
      /\ stored \in 0 .. issued /\ issued \in Nat /\ rf.req \cap login.req = {}
      /\ rf.pc = "token" => rf.req = {}
  BY DEF TypeOK, ServerOK, Token
<1>1. RefreshOK /\ SigninOK /\ Spoilt /\ Deleting /\ Verified
  BY DEF EndInv
<1>r. ASSUME NEW r \in Request, Open(r, "refresh", "read", stored, TRUE)
      PROVE  /\ \A q \in Request \ {r} : req'[q] = req[q]
             /\ r \notin login.req
             /\ req'[r].kind = "refresh" /\ req'[r].pc = "read" /\ req'[r].arg = stored
  BY <1>r, OpenMove
<1> USE DEF EndNext, RefreshOK, SigninOK, Spoilt, Deleting, Verified
<1>2. ASSUME NEW r \in Request, RefreshStart(r) PROVE EndNext
  <2>1. UNCHANGED <<user, row, issued, dead, stored, login, causes>> /\ Excused' = Excused
    BY <1>2 DEF RefreshStart, Excused
  <2>2. CASE stored = 0
    <3>1. rf'.req = rf.req /\ UNCHANGED req
      BY <1>0, <1>2, <2>2 DEF RefreshStart
    <3> QED BY <1>0, <1>1, <2>1, <2>2, <3>1 DEF At, Excused
  <2>3. CASE stored # 0
    <3>1. Open(r, "refresh", "read", stored, TRUE) /\ rf'.req = {r}
      BY <1>0, <1>2, <2>3 DEF RefreshStart
    <3>2. /\ \A q \in Request \ {r} : req'[q] = req[q]
          /\ r \notin login.req
          /\ req'[r].kind = "refresh" /\ req'[r].pc = "read" /\ req'[r].arg = stored
      BY <3>1, <1>r
    <3>3. user = "verified"
      BY <1>0, <1>1, <2>3
    <3> QED BY <1>0, <1>1, <2>1, <2>3, <3>1, <3>2, <3>3 DEF At, Answer
  <2> QED BY <2>2, <2>3
<1>3. ASSUME NEW r \in Request, RefreshAnswered(r) PROVE EndNext
  <2>1. /\ UNCHANGED <<user, row, issued, dead, login>> /\ Close(r)
        /\ rf.req = {r} /\ rf'.req = {} /\ req[r].pc \in Answer
    BY <1>0, <1>3 DEF RefreshAnswered
  <2>2. /\ \A q \in Request \ {r} : req'[q] = req[q]
        /\ req'[r].pc = "none" /\ req'[r].kind \in {"refresh", "none"} /\ r \notin login.req
    BY <1>0, <1>1, <2>1, CloseMove
  <2>3. (stored' \in dead \/ ~row.valid) => Excused'
    BY <1>3, <2>1 DEF RefreshAnswered, Save, Clear, Excused
  <2>4. ASSUME NEW q \in Request, At(q, "refresh", "delete")' PROVE Excused'
    <3>1. At(q, "refresh", "delete")
      BY <2>2, <2>4 DEF At
    <3> QED BY <1>3, <3>1 DEF RefreshAnswered, Save, Clear, Excused
  <2>5. user = "verified"
    BY <1>1, <2>1
  <2> QED BY <1>0, <1>1, <2>1, <2>2, <2>3, <2>4, <2>5
<1>4. ASSUME NEW r \in Request, RefreshLost(r) PROVE EndNext
  <2>1. /\ UNCHANGED <<user, row, issued, dead, login>> /\ Close(r)
        /\ rf.req = {r} /\ rf'.req = {} /\ stored' = 0
    BY <1>0, <1>4 DEF RefreshLost, Clear
  <2>2. \A q \in Request \ {r} : req'[q] = req[q]
    BY <2>1, CloseMove
  <2>3. Excused' /\ user = "verified" /\ r \notin login.req
    BY <1>0, <1>1, <2>1 DEF Excused
  <2> QED BY <1>0, <1>1, <2>1, <2>2, <2>3
<1> QED BY <1>2, <1>3, <1>4

LEMMA SigninEnds ==
    ASSUME TypeOK, EndInv,
           \E r \in Request : \/ SigninStart(r) \/ SigninAnswered(r) \/ SigninLost(r)
                              \/ OtherSignin(r) \/ OtherRefresh(r)
    PROVE  EndNext
<1>0. /\ rf.req \subseteq Request /\ login.req \subseteq Request
      /\ login \in [req : SUBSET Request, mounted : BOOLEAN]
      /\ stored \in 0 .. issued /\ issued \in Nat /\ rf.req \cap login.req = {}
      /\ rf.req # {} => rf.pc = "wait"
  BY DEF TypeOK, ServerOK, Token
<1>1. RefreshOK /\ SigninOK /\ Spoilt /\ Deleting /\ Verified
  BY DEF EndInv
<1> USE DEF EndNext, RefreshOK, SigninOK, Spoilt, Deleting, Verified
<1>2. ASSUME NEW r \in Request, SigninStart(r) PROVE EndNext
  <2>1. /\ UNCHANGED <<user, row, issued, dead, stored, rf, causes>> /\ Excused' = Excused
        /\ Open(r, "signin", "read", 0, TRUE) /\ login'.req = {r}
    BY <1>2 DEF SigninStart, Excused
  <2>2. /\ \A q \in Request \ {r} : req'[q] = req[q]
        /\ r \notin rf.req
        /\ req'[r].kind = "signin" /\ req'[r].pc = "read"
    BY <2>1, OpenMove
  <2> QED BY <1>0, <1>1, <2>1, <2>2 DEF At
<1>3. ASSUME NEW r \in Request, SigninAnswered(r) PROVE EndNext
  <2>1. /\ UNCHANGED <<user, row, issued, dead, rf>> /\ Close(r)
        /\ login.req = {r} /\ login'.req = {} /\ req[r].pc \in Answer
    BY <1>3 DEF SigninAnswered, NoLogin
  <2>2. /\ \A q \in Request \ {r} : req'[q] = req[q]
        /\ req'[r].pc = "none" /\ req'[r].kind \in {"signin", "none"} /\ r \notin rf.req
    BY <1>0, <1>1, <2>1, CloseMove
  <2>3. CASE req[r].pc = "ok"
    <3>1. Save(req[r].arg, rf.pc # "idle")
      BY <1>3, <2>3 DEF SigninAnswered
    <3>2. (stored' \in dead \/ ~row.valid) => Excused'
      BY <3>1 DEF Save, Excused
    <3>3. rf.req # {} => Excused'
      BY <1>0, <3>1 DEF Save, Excused
    <3>4. ASSUME NEW q \in Request, At(q, "refresh", "delete")' PROVE Excused'
      <4>1. At(q, "refresh", "delete")
        BY <2>2, <3>4 DEF At
      <4> QED BY <3>1, <4>1 DEF Save, Excused
    <3> QED BY <1>0, <1>1, <2>1, <2>2, <3>2, <3>3, <3>4
  <2>4. CASE req[r].pc # "ok"
    <3>1. stored' = 0 \/ UNCHANGED <<stored, causes>>
      BY <1>3, <2>4 DEF SigninAnswered, Clear
    <3>2. Excused => Excused'
      BY <3>1 DEF Excused
    <3>3. stored' = 0 => Excused'
      BY DEF Excused
    <3> QED BY <1>0, <1>1, <2>1, <2>2, <3>1, <3>2, <3>3 DEF At
  <2> QED BY <2>3, <2>4
<1>4. ASSUME NEW r \in Request, SigninLost(r) PROVE EndNext
  <2>1. /\ UNCHANGED <<user, row, issued, dead, rf, stored, causes>> /\ Close(r)
        /\ login.req = {r} /\ login'.req = {} /\ Excused' = Excused
    BY <1>4 DEF SigninLost, NoLogin, Excused
  <2>2. /\ \A q \in Request \ {r} : req'[q] = req[q]
        /\ req'[r].pc \in {req[r].pc, "none"} /\ req'[r].kind \in {req[r].kind, "none"}
        /\ r \notin rf.req
    BY <1>0, <2>1, CloseMove
  <2> QED BY <1>0, <1>1, <2>1, <2>2 DEF At
<1>5. ASSUME NEW r \in Request, OtherSignin(r) PROVE EndNext
  <2>1. /\ UNCHANGED <<user, row, issued, dead, rf, stored, login, causes>>
        /\ Open(r, "signin", "issue", 0, FALSE) /\ user = "verified" /\ Excused' = Excused
    BY <1>5 DEF OtherSignin, appVars, Excused
  <2>2. /\ \A q \in Request \ {r} : req'[q] = req[q]
        /\ r \notin rf.req \cup login.req
        /\ req'[r].kind = "signin" /\ req'[r].pc = "issue"
    BY <2>1, OpenMove
  <2> QED BY <1>0, <1>1, <2>1, <2>2 DEF At
<1>6. ASSUME NEW r \in Request, OtherRefresh(r) PROVE EndNext
  <2>1. /\ UNCHANGED <<user, row, issued, dead, rf, stored, login, causes>>
        /\ Open(r, "refresh", "read", issued, FALSE) /\ issued # 0 /\ Excused' = Excused
    BY <1>6 DEF OtherRefresh, appVars, Excused
  <2>2. /\ \A q \in Request \ {r} : req'[q] = req[q]
        /\ r \notin rf.req \cup login.req
        /\ req'[r].kind = "refresh" /\ req'[r].pc = "read"
    BY <2>1, OpenMove
  <2> QED BY <1>0, <1>1, <2>1, <2>2 DEF At
<1> QED BY <1>2, <1>3, <1>4, <1>5, <1>6

LEMMA EndStep == TypeOK /\ EndInv /\ [Next]_vars => EndInv'
<1> SUFFICES ASSUME TypeOK, EndInv, [Next]_vars PROVE EndNext
  BY AnswersStep DEF EndInv, EndNext
<1>0. /\ rf.req \subseteq Request /\ login.req \subseteq Request
      /\ (rf.req # {} => rf.pc = "wait")
  BY DEF TypeOK
<1>1. CASE /\ UNCHANGED <<user, row, issued, dead, req, causes>>
           /\ stored' = stored \/ stored' = 0
           /\ rf'.req = rf.req /\ login'.req = login.req
  BY <1>0, <1>1 DEF EndInv, EndNext, RefreshOK, SigninOK, Spoilt, Deleting, Verified, Excused, At
<1>2. CASE UNCHANGED vars
  BY <1>1, <1>2 DEF vars, serverVars, appVars
<1>3. CASE \/ AccessExpires \/ SplashCheck \/ SocketRefused \/ SocketConnected
           \/ \E c \in Api : Send(c) \/ Refused(c)
  <2>1. UNCHANGED <<serverVars, stored, causes, login>> /\ rf'.req = rf.req
    BY <1>3 DEF AccessExpires, SplashCheck, SocketRefused, SocketConnected, Send, Refused,
                Join, TypeOK
  <2> QED BY <1>1, <2>1 DEF serverVars
<1>4. CASE RefreshDone
  <2>1. /\ UNCHANGED <<serverVars, stored, causes>> /\ rf'.req = {} /\ rf.req = {}
        /\ login'.req = login.req
    BY <1>0, <1>4 DEF RefreshDone, Resume, NoRefresh, TypeOK
  <2> QED BY <1>1, <2>1 DEF serverVars
<1>5. CASE SignupAnswered \/ PutAway \/ Logout
  BY <1>1, <1>5 DEF SignupAnswered, PutAway, Logout, Clear, serverVars
<1>7. CASE SignupSent
  <2>1. UNCHANGED <<serverVars, stored, causes, rf>> /\ login'.req = login.req
    BY <1>7 DEF SignupSent, TypeOK
  <2> QED BY <1>1, <2>1 DEF serverVars
<1>6. CASE Restart
  <2>1. /\ UNCHANGED <<user, row, issued, dead, stored, causes>> /\ Excused' = Excused
        /\ rf'.req = {} /\ login'.req = {}
        /\ \A r \in Request : \/ req'[r] = Free
                              \/ req'[r].pc = req[r].pc /\ req'[r].kind = req[r].kind
    BY <1>6 DEF Restart, NoRefresh, NoLogin, Excused, TypeOK, ServerOK, RequestState
  <2> QED BY <2>1 DEF EndInv, EndNext, RefreshOK, SigninOK, Spoilt, Deleting, Verified, At, Free
<1> QED BY <1>2, <1>3, <1>4, <1>5, <1>6, <1>7, ServerEnds, RefreshEnds, SigninEnds
        DEF Next, AppStep

\* A stored session is thrown away only by a logout, by a sign-up on the screens
\* without a session, or for a reason: it had expired, a fault struck the refresh, or
\* a refresh or a sign-up meant for an earlier session was under way.
THEOREM KeepsSession == Spec => SessionKept
<1>1. Init => EndInv
  BY DEF Init, ServerInit, EndInv, Answers, Serves, RefreshOK, SigninOK, Spoilt, Deleting,
         Verified, Excused, At, Free, NoRefresh, NoLogin
<1>2. ASSUME TypeOK, EndInv, HomeInv, Next, stored # 0, stored' = 0, ~Logout,
             ~(SignupAnswered /\ screen = "auth")
      PROVE  causes' # {}
  <2>1. /\ rf.req \subseteq Request /\ login.req \subseteq Request
        /\ \A r \in rf.req \cup login.req : req[r].waited
    BY <1>2 DEF TypeOK
  <2>2. ASSUME NEW r \in Request, RefreshAnswered(r) PROVE causes' # {}
    <3>1. req[r].pc # "ok"
      BY <1>2, <2>1, <2>2 DEF RefreshAnswered, Save, EndInv, Answers, Serves
    <3>2. req[r].pc \in {"denied", "failed"}
      BY <1>2, <2>2, <3>1 DEF RefreshAnswered, EndInv, RefreshOK, Answer
    <3>3. UNCHANGED causes /\ Excused
      BY <1>2, <2>2, <3>1, <3>2 DEF RefreshAnswered, EndInv, RefreshOK
    <3> QED BY <1>2, <3>3 DEF Excused
  <2>3. ASSUME NEW r \in Request, RefreshLost(r) PROVE causes' # {}
    BY <2>3 DEF RefreshLost
  <2>4. ASSUME NEW r \in Request, SigninAnswered(r) PROVE FALSE
    <3>1. r \in login.req
      BY <2>4 DEF SigninAnswered
    <3>2. req[r].pc # "forbidden"
      BY <1>2, <3>1 DEF EndInv, SigninOK
    <3>3. req[r].pc = "ok"
      BY <1>2, <2>4, <3>2 DEF SigninAnswered
    <3> QED BY <1>2, <2>1, <2>4, <3>1, <3>3 DEF SigninAnswered, Save, EndInv, Answers, Serves
  <2>5. CASE SignupAnswered
    BY <1>2, <2>5 DEF SignupAnswered, HomeInv, SignsUp
  <2>6. UNCHANGED stored \/ Logout \/ SignupAnswered
        \/ \E r \in Request : RefreshAnswered(r) \/ RefreshLost(r) \/ SigninAnswered(r)
    BY <1>2 DEF Next, ServerStep, AppStep, AccessExpires, SplashCheck, SocketRefused,
       SocketConnected, RefreshDone, Resume, SignupSent, PutAway, Restart, Send, Refused,
       RefreshStart, SigninStart, SigninLost, OtherSignin, OtherRefresh, appVars
  <2> QED BY <1>2, <2>2, <2>3, <2>4, <2>5, <2>6
<1>3. TypeOK /\ EndInv /\ HomeInv /\ [Next]_vars =>
          [stored # 0 /\ stored' = 0 =>
             causes' # {} \/ Logout \/ (SignupAnswered /\ screen = "auth")]_vars
  BY <1>2
<1> QED BY <1>1, <1>3, EndStep, HomeAlways, TypeCorrect, PTL DEF Spec, SessionKept
==============================================================================
