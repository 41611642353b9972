---------------------------- MODULE ChatLogProofs ----------------------------
(****************************************************************************)
(* Proofs about ChatLog, for any number of participants, messages and       *)
(* concurrent requests.  The read cursor moves forward because the cursor a *)
(* markRead compares with is still the stored one when it commits           *)
(* (CursorFresh): only one request is under the lock of the chat.           *)
(****************************************************************************)
EXTENDS ChatLog, TLAPS

CursorFresh ==
    \A q \in Call, u \in User :
        (At(q, "marking") /\ By(q, u)) => call[q].cursor = read[u]

IInv == LogTypeOK /\ CursorFresh

\* A Date never lies after the timestamp it was made from.
LEMMA DateRoundsDown ==
    ASSUME NEW a \in Nat
    PROVE  (a \div PerMs) * PerMs \in Nat /\ (a \div PerMs) * PerMs <= a
<1>1. PerMs \in Nat \ {0}
  BY ChatLogAssumption
<1>2. a = PerMs * (a \div PerMs) + (a % PerMs) /\ a % PerMs \in 0 .. PerMs - 1
  BY <1>1, Z3
<1>3. a \div PerMs \in Nat
  BY <1>1, Z3
<1> QED
  BY <1>1, <1>2, <1>3, Z3

\* getMessages?after=c returns every message that SQL orders after c, for any
\* resolution of the timestamps (chats.service.ts:260-274).
THEOREM AfterIsComplete == LogTypeOK => AfterComplete
<1> SUFFICES ASSUME LogTypeOK, NEW c \in Sent, NEW m \in Sent, Before(c, m)
             PROVE  m \in After(c)
  BY DEF AfterComplete
<1>1. /\ c \in Nat /\ m \in Nat
      /\ msg[c].at \in Nat /\ msg[m].at \in Nat
  BY ChatLogAssumption DEF Sent, LogTypeOK
<1> DEFINE t == (msg[c].at \div PerMs) * PerMs
<1>2. t \in Nat /\ t <= msg[c].at
  BY <1>1, DateRoundsDown
<1> HIDE DEF t
<1>3. msg[m].at > t \/ (msg[m].at = t /\ m > c)
  BY <1>1, <1>2 DEF Before
<1> QED
  BY <1>3 DEF After, Ms, t

LEMMA InitHolds == LogInit => IInv
<1> SUFFICES ASSUME LogInit PROVE IInv
  OBVIOUS
<1>1. Sent = {}
  BY DEF LogInit, Sent, Unsent
<1>2. LogTypeOK
  BY <1>1, ChatLogAssumption DEF LogTypeOK, LogInit, Unsent, Idle, None, MaybeMessage, GoodCall
<1>3. CursorFresh
  BY DEF CursorFresh, LogInit, Idle, At
<1> QED
  BY <1>2, <1>3 DEF IInv

CallType == [pc : {"idle", "send", "sending", "sent", "mark", "marking", "marked"},
             user : SUBSET User, m : MaybeMessage, at : Nat, cursor : MaybeMessage]
InLock(r) == r.pc \in {"sending", "marking"}

\* What a step that rewrites the record of one request owes to LogTypeOK.
LEMMA OneCallChanges ==
    ASSUME LogTypeOK, NEW q \in Call, NEW r \in CallType,
           call' = [call EXCEPT ![q] = r], GoodCall(r)', Sent \subseteq Sent',
           InLock(r) => (LockFree \/ InLock(call[q])),
           now' \in Nat, msg' \in [Message -> [from : SUBSET User, at : Nat]],
           last' \in Sent' \cup {None}, read' \in [User -> Sent' \cup {None}]
    PROVE  LogTypeOK'
<1>1. call' \in [Call -> CallType]
  BY DEF LogTypeOK, CallType
<1>2. call'[q] = r /\ \A p \in Call \ {q} : call'[p] = call[p]
  BY DEF LogTypeOK
<1>3. \A p \in Call : GoodCall(call[p])'
  BY <1>2 DEF LogTypeOK, GoodCall, None
<1>4. \A p, o \in Call : InLock(call'[p]) /\ InLock(call'[o]) => p = o
  BY <1>2 DEF LogTypeOK, InLock, LockFree
<1> QED
  BY <1>1, <1>3, <1>4 DEF LogTypeOK, CallType, InLock

LEMMA NextHolds == IInv /\ [LogNext]_logVars => IInv'
<1> SUFFICES ASSUME IInv, [LogNext]_logVars PROVE IInv'
  OBVIOUS
<1> USE DEF IInv
<1>a. None \notin Message
  BY ChatLogAssumption DEF None
<1>1. ASSUME NEW q \in Call, NEW u \in User, SendBegin(q, u) PROVE IInv'
  <2>1. Sent' = Sent
    BY <1>1 DEF SendBegin, Sent
  <2>2. call'[q] = [Idle EXCEPT !.pc = "send", !.user = {u}, !.at = now]
    BY <1>1 DEF SendBegin, LogTypeOK
  <2>3. LogTypeOK'
    BY <1>1, <2>1, <2>2 DEF SendBegin, LogTypeOK, GoodCall, Idle, None, MaybeMessage
  <2>4. CursorFresh'
    BY <1>1, <2>2 DEF SendBegin, LogTypeOK, CursorFresh, At, By, Idle
  <2> QED BY <2>3, <2>4
<1>2. ASSUME NEW q \in Call, NEW u \in User, NEW m \in Message, MarkBegin(q, u, m)
      PROVE  IInv'
  <2>1. Sent' = Sent
    BY <1>2 DEF MarkBegin, Sent
  <2>2. call'[q] = [Idle EXCEPT !.pc = "mark", !.user = {u}, !.m = m]
    BY <1>2 DEF MarkBegin, LogTypeOK
  <2>3. LogTypeOK'
    BY <1>2, <2>1, <2>2 DEF MarkBegin, LogTypeOK, GoodCall, Idle, None, MaybeMessage
  <2>4. CursorFresh'
    BY <1>2, <2>2 DEF MarkBegin, LogTypeOK, CursorFresh, At, By, Idle
  <2> QED BY <2>3, <2>4
<1>3. ASSUME NEW q \in Call, SendLock(q) PROVE IInv'
  <2>1. Sent' = Sent
    BY <1>3 DEF SendLock, Sent
  <2>3. LogTypeOK'
    BY <1>3, <2>1 DEF SendLock, LockFree, At, LogTypeOK, GoodCall
  <2>4. CursorFresh'
    BY <1>3 DEF SendLock, LogTypeOK, CursorFresh, At, By
  <2> QED BY <2>3, <2>4
<1>4. ASSUME NEW q \in Call, NEW m \in Message, SendCommit(q, m) PROVE IInv'
  <2>1. call[q].user \in SUBSET User /\ call[q].user # {} /\ call[q].at \in Nat
    BY <1>4 DEF SendCommit, LogTypeOK, GoodCall, At
  <2>2. Sent' = Sent \cup {m}
    BY <1>4, <2>1 DEF SendCommit, LogTypeOK, Sent
  <2>a. msg' \in [Message -> [from : SUBSET User, at : Nat]]
    BY <1>4, <2>1 DEF SendCommit, LogTypeOK
  <2>b. [call[q] EXCEPT !.pc = "sent", !.m = m] \in CallType
    BY <1>4 DEF SendCommit, LogTypeOK, CallType, MaybeMessage
  <2> PICK r \in CallType : r = [call[q] EXCEPT !.pc = "sent", !.m = m]
    BY <2>b
  <2>c. call' = [call EXCEPT ![q] = r] /\ ~InLock(r)
    BY <1>4 DEF SendCommit, LogTypeOK, InLock
  <2>d. GoodCall(r)'
    BY <1>4, <2>2 DEF SendCommit, LogTypeOK, GoodCall, At
  <2>e. last' \in Sent' \cup {None} /\ read' \in [User -> Sent' \cup {None}]
    BY <1>4, <2>2 DEF SendCommit, LogTypeOK
  <2>f. now' \in Nat /\ Sent \subseteq Sent'
    BY <1>4, <2>2 DEF SendCommit, LogTypeOK
  <2>3. LogTypeOK'
    BY <2>a, <2>c, <2>d, <2>e, <2>f, OneCallChanges
  <2>4. CursorFresh'
    BY <1>4 DEF SendCommit, LogTypeOK, CursorFresh, At, By
  <2> QED BY <2>3, <2>4
<1>5. ASSUME NEW q \in Call, MarkLock(q) PROVE IInv'
  <2>1. Sent' = Sent
    BY <1>5 DEF MarkLock, Sent
  <2>2. PICK u \in User : /\ By(q, u)
                          /\ call' = [call EXCEPT ![q].pc = "marking", ![q].cursor = read[u]]
    BY <1>5 DEF MarkLock
  <2>3. read[u] \in Sent \cup {None} /\ read' = read
    BY <1>5 DEF MarkLock, LogTypeOK
  <2>a. [call[q] EXCEPT !.pc = "marking", !.cursor = read[u]] \in CallType
    BY <2>3 DEF LogTypeOK, CallType, MaybeMessage, Sent
  <2> PICK r \in CallType : r = [call[q] EXCEPT !.pc = "marking", !.cursor = read[u]]
    BY <2>a
  <2>d. call' = [call EXCEPT ![q] = r]
    BY <2>2 DEF LogTypeOK
  <2>b. GoodCall(r)'
    BY <1>5, <2>1, <2>3 DEF MarkLock, LogTypeOK, GoodCall, At
  <2>c. LockFree /\ UNCHANGED <<now, msg, last, read>>
    BY <1>5 DEF MarkLock
  <2>4. LogTypeOK'
    BY <2>1, <2>b, <2>c, <2>d, OneCallChanges DEF LogTypeOK
  <2>f. call'[q].cursor = read[u] /\ call'[q].user = {u}
        /\ \A p \in Call \ {q} : call'[p] = call[p]
    BY <1>5, <2>2 DEF MarkLock, LogTypeOK, By
  <2>5. CursorFresh'
    BY <2>3, <2>f DEF CursorFresh, At, By
  <2> QED BY <2>4, <2>5
<1>6. ASSUME NEW q \in Call, MarkCommit(q) PROVE IInv'
  <2>1. Sent' = Sent
    BY <1>6 DEF MarkCommit, Sent
  <2>2. call[q].m \in Sent
    BY <1>6 DEF MarkCommit, LogTypeOK, GoodCall, At
  <2>3. \A p \in Call : call'[p].pc # "marking"
    BY <1>6 DEF MarkCommit, LogTypeOK, At, Return, Idle
  <2>4. LogTypeOK'
    <3>1. \E r \in {Idle, [call[q] EXCEPT !.pc = "marked"]} : call' = [call EXCEPT ![q] = r]
      BY <1>6 DEF MarkCommit, Return
    <3>2. Idle \in CallType /\ GoodCall(Idle)' /\ ~InLock(Idle)
      BY DEF Idle, CallType, GoodCall, InLock, None, MaybeMessage
    <3>3. call[q] \in CallType /\ GoodCall(call[q]) /\ call[q].pc = "marking"
      BY <1>6 DEF MarkCommit, At, LogTypeOK, CallType
    <3> PICK marked : marked = [call[q] EXCEPT !.pc = "marked"]
      OBVIOUS
    <3>4. marked \in CallType /\ ~InLock(marked)
      BY <3>3 DEF CallType, InLock
    <3>5. GoodCall(marked)'
      BY <2>1, <3>3 DEF GoodCall, CallType
    <3> PICK r : r \in {Idle, marked} /\ call' = [call EXCEPT ![q] = r]
      BY <3>1
    <3>6. r \in CallType /\ ~InLock(r) /\ GoodCall(r)'
      BY <3>2, <3>4, <3>5
    <3>7. read' \in [User -> Sent' \cup {None}]
      BY <1>6, <2>1, <2>2 DEF MarkCommit, LogTypeOK
    <3>8. /\ now' \in Nat /\ msg' \in [Message -> [from : SUBSET User, at : Nat]]
          /\ last' \in Sent' \cup {None}
      BY <1>6, <2>1 DEF MarkCommit, LogTypeOK
    <3> QED BY <2>1, <3>6, <3>7, <3>8, OneCallChanges
  <2>5. CursorFresh'
    BY <2>3 DEF CursorFresh, At
  <2> QED BY <2>4, <2>5
<1>7. ASSUME NEW q \in Call, Publish(q) \/ Abort(q) PROVE IInv'
  <2>1. Sent' = Sent
    BY <1>7 DEF Publish, Abort, Sent
  <2>2. LogTypeOK'
    <3>1. call' = [call EXCEPT ![q] = Idle] /\ UNCHANGED <<now, msg, last, read>>
      BY <1>7 DEF Publish, Abort, Return
    <3>2. Idle \in CallType /\ GoodCall(Idle)' /\ ~InLock(Idle)
      BY DEF Idle, CallType, GoodCall, InLock, None, MaybeMessage
    <3> QED
      BY <2>1, <3>1, <3>2, OneCallChanges DEF LogTypeOK
  <2>3. CursorFresh'
    BY <1>7 DEF Publish, Abort, Return, Idle, LogTypeOK, CursorFresh, At, By
  <2> QED BY <2>2, <2>3
<1>8. CASE Tick
  <2>1. Sent' = Sent
    BY <1>8 DEF Tick, Sent
  <2>2. LogTypeOK'
    BY <1>8, <2>1, ChatLogAssumption DEF Tick, LogTypeOK, GoodCall
  <2>3. CursorFresh'
    BY <1>8 DEF Tick, CursorFresh, At, By
  <2> QED BY <2>2, <2>3
<1>9. CASE UNCHANGED logVars
  <2>1. Sent' = Sent
    BY <1>9 DEF logVars, Sent
  <2>2. LogTypeOK'
    BY <1>9, <2>1 DEF logVars, LogTypeOK, GoodCall
  <2>3. CursorFresh'
    BY <1>9 DEF logVars, CursorFresh, At, By
  <2> QED BY <2>2, <2>3
<1> QED
  BY <1>1, <1>2, <1>3, <1>4, <1>5, <1>6, <1>7, <1>8, <1>9 DEF LogNext, Request

\* Every variable of the chat keeps its type, cursors point to messages, and one
\* request at a time is under the lock of the chat (assertParticipant).
THEOREM LogTypeCorrect == LogSpec => []LogTypeOK
<1>1. IInv => LogTypeOK
  BY DEF IInv
<1> QED
  BY InitHolds, NextHolds, <1>1, PTL DEF LogSpec

\* No interleaving of markRead requests moves a read cursor back, in the order of
\* the service (isMessageAfter).
THEOREM CursorOnlyForward == LogSpec => CursorForward
<1>1. IInv /\ [LogNext]_logVars
        => [\A u \in User : Forward(read[u], read'[u])]_logVars
  <2> SUFFICES ASSUME IInv, LogNext, NEW u \in User, read'[u] # read[u]
               PROVE  Forward(read[u], read'[u])
    BY DEF Forward
  <2>1. PICK q \in Call : MarkCommit(q)
    BY DEF LogNext, Request, SendBegin, MarkBegin, SendLock, SendCommit, MarkLock,
           Publish, Abort, Tick
  <2>2. /\ By(q, u) /\ read'[u] = call[q].m /\ Advances(q) /\ At(q, "marking")
    BY <2>1 DEF MarkCommit
  <2>3. call[q].cursor = read[u]
    BY <2>2 DEF IInv, CursorFresh
  <2>4. call[q].m # None
    BY <2>2, ChatLogAssumption DEF IInv, LogTypeOK, GoodCall, At, Sent, None
  <2> QED
    BY <2>2, <2>3, <2>4 DEF Forward, Advances
<1> QED
  BY InitHolds, NextHolds, <1>1, PTL DEF LogSpec, CursorForward
==============================================================================
