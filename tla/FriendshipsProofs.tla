-------------------------- MODULE FriendshipsProofs --------------------------
(* What Friendships keeps, for every number of users, rows, chats, requests. *)
EXTENDS Friendships, FiniteSetTheorems, TLAPS

RowType ==
    [from : SUBSET User, to : SUBSET User, status : Status \cup {"unused", "deleted"}]
Pc == {"idle", "insert", "reopen", "accept", "reject"} \cup InTransaction
CallType == [pc : Pc, user : SUBSET User, other : SUBSET User,
             rows : SUBSET RowId, chats : SUBSET ChatId]

UniqueKey == \A k, m \in RowId : (Exists(k) /\ Exists(m) /\ row[k].from = row[m].from
                                  /\ row[k].to = row[m].to) => k = m
Typed ==
    /\ row \in [RowId -> RowType]
    /\ chat \in [ChatId -> Pairs \cup {NoChat, Dropped}]
    /\ call \in [Call -> CallType]
    /\ crossed \subseteq Pairs /\ reopened \subseteq Pairs

\* What a request knows of the rows it has found or locked: rows are never used
\* again and keep their pair, and a locked row stays accepted.
CallOK(q) ==
    /\ ~At(q, "idle") => CallPair(q) \in Pairs
    /\ At(q, "reopen") => \A k \in call[q].rows :
          row[k].status # "unused" /\ (Exists(k) => PairOf(k) = CallPair(q))
    /\ call[q].pc \in InTransaction => \A k \in call[q].rows :
          row[k].status = "accepted" /\ PairOf(k) = CallPair(q)
    /\ call[q].pc \in {"locked", "create"} => call[q].rows # {}

\* A row is locked by one transaction at a time.
Apart == \A p, q \in Call :
    p # q /\ call[p].pc \in InTransaction /\ call[q].pc \in InTransaction
        => call[p].rows \cap call[q].rows = {}

Inv ==
    /\ Typed
    /\ \A q \in Call : CallOK(q)
    /\ Apart

Step(q) ==
    \/ \E u, v \in User :
         u # v /\ (\/ RequestNew(q, u, v) \/ RequestAgain(q, u, v)
                   \/ RemoveDelete(q, u, v) \/ CreateLock(q, u, v)
                   \/ AnswerAsk(q, u, v, "accept") \/ AnswerAsk(q, u, v, "reject"))
    \/ \E k \in RowId : Insert(q, k)
    \/ Reopen(q) \/ RemoveSelect(q) \/ RemoveCommit(q) \/ CreateFind(q) \/ Abort(q)
    \/ \E c \in ChatId : CreateCommit(q, c)

Answering == \E q \in Call : Accept(q) \/ Reject(q)

LEMMA NextSplits == Next <=> (\E q \in Call : Step(q)) \/ Answering
BY DEF Next, Step, Answering

LEMMA TypeParts == TypeOK <=> Typed /\ UniqueKey
BY DEF TypeOK, Typed, UniqueKey, RowType, CallType, Pc

------------------------------------------------------------------------------
(* Pairs *)

LEMMA TwoArePair ==
    ASSUME NEW u \in User, NEW v \in User, u # v
    PROVE  {u, v} \in Pairs
<1>1. IsFiniteSet({u}) /\ Cardinality({u}) = 1
  BY FS_Singleton
<1>2. Cardinality({u} \cup {v}) = 2
  BY <1>1, FS_AddElement
<1> QED BY <1>2 DEF Pairs

\* A chat that is not there, or was deleted, is nobody's.
LEMMA NotPairs == NoChat \notin Pairs /\ Dropped \notin Pairs /\ NoChat # Dropped
<1>1. Cardinality({}) = 0 /\ Cardinality({"dropped"}) = 1
  BY FS_EmptySet, FS_Singleton
<1> QED BY <1>1 DEF Pairs, NoChat, Dropped

------------------------------------------------------------------------------
(* Types, and what each request knows *)

\* The steps that write rows, chats or the history.
LEMMA Writers ==
    ASSUME NEW q \in Call, Step(q)
    PROVE  \/ \E k \in RowId : Insert(q, k)
           \/ Reopen(q) \/ RemoveCommit(q)
           \/ \E c \in ChatId : CreateCommit(q, c)
           \/ UNCHANGED <<row, chat, crossed, reopened>>
BY DEF Step, RequestNew, RequestAgain, RemoveDelete, CreateLock, AnswerAsk, RemoveSelect,
       CreateFind, Abort

\* What a step does to the request it belongs to; the others stay as they are.
LEMMA Own ==
    ASSUME Typed, NEW q \in Call, Step(q)
    PROVE  /\ call' \in [Call -> CallType]
           /\ \A p \in Call \ {q} : call'[p] = call[p]
<1>1. call[q] \in CallType /\ call \in [Call -> CallType] /\ Idle \in CallType
  BY DEF Typed, CallType, Idle, Pc
<1>2. CASE \E u, v \in User : RequestNew(q, u, v)
  BY <1>1, <1>2 DEF RequestNew, Asking, CallType, Pc
<1>3. CASE \E u, v \in User : RequestAgain(q, u, v)
  BY <1>1, <1>3 DEF RequestAgain, Asking, CallType, Pc, RowsOf
<1>4. CASE \E u, v \in User : RemoveDelete(q, u, v)
  BY <1>1, <1>4 DEF RemoveDelete, Asking, CallType, Pc, InTransaction, AcceptedOf, RowsOf
<1>5. CASE \E u, v \in User : CreateLock(q, u, v)
  BY <1>1, <1>5 DEF CreateLock, Asking, CallType, Pc, InTransaction, AcceptedOf, RowsOf
<1>6. CASE RemoveSelect(q)
  <2>1. ChatsOf(CallPair(q)) \in SUBSET ChatId /\ "deleted" \in Pc
    BY DEF ChatsOf, Pc, InTransaction
  <2>2. [call[q] EXCEPT !.pc = "deleted", !.chats = ChatsOf(CallPair(q))] \in CallType
    BY <1>1, <2>1 DEF CallType
  <2> QED BY <1>1, <1>6, <2>2 DEF RemoveSelect
<1>7. CASE CreateFind(q)
  <2>1. [call[q] EXCEPT !.pc = "create"] \in CallType
    BY <1>1 DEF CallType, Pc, InTransaction
  <2> QED BY <1>1, <1>7, <2>1 DEF CreateFind, Goto, Return
<1>8. CASE \/ \E k \in RowId : Insert(q, k)
           \/ Reopen(q) \/ RemoveCommit(q) \/ Abort(q)
           \/ \E c \in ChatId : CreateCommit(q, c)
  <2>1. Return(q)
    BY <1>8 DEF Insert, Reopen, RemoveCommit, Abort, CreateCommit
  <2> QED BY <1>1, <2>1 DEF Return
<1>9. CASE \E u, v \in User : AnswerAsk(q, u, v, "accept") \/ AnswerAsk(q, u, v, "reject")
  BY <1>1, <1>9 DEF AnswerAsk, Asking, CallType, Pc, RowsOf
<1> QED BY <1>2, <1>3, <1>4, <1>5, <1>6, <1>7, <1>8, <1>9 DEF Step

LEMMA TypedStep ==
    ASSUME Inv, NEW q \in Call, Step(q)
    PROVE  Typed'
<1>1. Typed /\ call[q] \in CallType /\ CallOK(q)
  BY DEF Inv, Typed
<1>2. call' \in [Call -> CallType]
  BY <1>1, Own
<1>3. CASE \E k \in RowId : Insert(q, k)
  <2>1. PICK k \in RowId : Insert(q, k)
    BY <1>3
  <2>2. [from |-> call[q].user, to |-> call[q].other, status |-> "pending"] \in RowType
    BY <1>1 DEF CallType, RowType, Status
  <2>3. CallPair(q) \in Pairs
    BY <1>1, <2>1 DEF CallOK, Insert, At
  <2> QED BY <1>1, <1>2, <2>1, <2>2, <2>3 DEF Insert, Typed
<1>4. CASE Reopen(q)
  <2>1. PICK k \in call[q].rows :
          /\ row' = row \/ row' = [row EXCEPT ![k] =
                [from |-> call[q].user, to |-> call[q].other, status |-> "pending"]]
          /\ reopened' = reopened \/ reopened' = reopened \cup {CallPair(q)}
    BY <1>4 DEF Reopen
  <2>2. [from |-> call[q].user, to |-> call[q].other, status |-> "pending"] \in RowType
    BY <1>1 DEF CallType, RowType, Status
  <2>3. CallPair(q) \in Pairs
    BY <1>1, <1>4 DEF CallOK, Reopen, At
  <2> QED BY <1>1, <1>2, <1>4, <2>1, <2>2, <2>3 DEF Reopen, Typed, CallType
<1>5. CASE RemoveCommit(q)
  <2>1. Deleted \in RowType
    BY DEF Deleted, Nobody, RowType
  <2> QED BY <1>1, <1>2, <1>5, <2>1 DEF RemoveCommit, Typed
<1>6. CASE \E c \in ChatId : CreateCommit(q, c)
  <2>1. CallPair(q) \in Pairs
    BY <1>1, <1>6 DEF CallOK, CreateCommit, At
  <2> QED BY <1>1, <1>2, <1>6, <2>1 DEF CreateCommit, Typed
<1>7. CASE UNCHANGED <<row, chat, crossed, reopened>>
  BY <1>1, <1>2, <1>7 DEF Typed
<1> QED BY <1>3, <1>4, <1>5, <1>6, <1>7, Writers

\* An id is used once, and the pair of a row never changes.
LEMMA RowKept ==
    ASSUME Inv, NEW q \in Call, Step(q), NEW k \in RowId, row[k].status # "unused"
    PROVE  /\ row'[k].status # "unused"
           /\ Exists(k)' => Exists(k) /\ PairOf(k)' = PairOf(k)
<1>1. Typed /\ CallOK(q) /\ row[k] \in RowType /\ row'[k] \in RowType
  BY TypedStep DEF Inv, Typed
<1>2. CASE row'[k] = row[k]
  BY <1>2 DEF Exists, PairOf
<1>3. CASE \E m \in RowId : Insert(q, m)
  BY <1>1, <1>2, <1>3 DEF Insert, Nobody, Typed
<1>4. CASE Reopen(q)
  <2>1. PICK m \in call[q].rows : row' =
          IF Exists(m) /\ ~\E n \in RowId \ {m} :
                Exists(n) /\ row[n].from = call[q].user /\ row[n].to = call[q].other
          THEN [row EXCEPT ![m] =
                  [from |-> call[q].user, to |-> call[q].other, status |-> "pending"]]
          ELSE row
    BY <1>4 DEF Reopen
  <2>2. CASE row' = row
    BY <2>2, <1>2
  <2>3. CASE Exists(m) /\ row' = [row EXCEPT ![m] =
                  [from |-> call[q].user, to |-> call[q].other, status |-> "pending"]]
    <3>1. PairOf(m) = CallPair(q)
      BY <1>1, <1>4, <2>1, <2>3 DEF CallOK, Reopen, At
    <3> QED BY <1>1, <1>2, <2>3, <3>1 DEF Typed, Exists, PairOf, CallPair
  <2> QED BY <2>1, <2>2, <2>3
<1>5. CASE RemoveCommit(q)
  BY <1>2, <1>5 DEF RemoveCommit, Deleted, Nobody, Exists, Status
<1>6. CASE \E c \in ChatId : CreateCommit(q, c)
  BY <1>2, <1>6 DEF CreateCommit
<1>7. CASE UNCHANGED <<row, chat, crossed, reopened>>
  BY <1>2, <1>7
<1> QED BY <1>3, <1>4, <1>5, <1>6, <1>7, Writers

\* An accepted row is overwritten only by a late re-request, while it is not
\* locked, and deleted only by the transaction that has it locked.
LEMMA AcceptedKept ==
    ASSUME Inv, NEW q \in Call, Step(q), NEW k \in RowId, row[k].status = "accepted"
    PROVE  \/ row'[k] = row[k]
           \/ /\ At(q, "reopen") /\ ~Locked(k)
              /\ row'[k].status = "pending" /\ PairOf(k) \in reopened'
           \/ At(q, "deleted") /\ k \in call[q].rows /\ row'[k].status = "deleted"
<1>1. Typed /\ CallOK(q)
  BY DEF Inv
<1>2. CASE \E m \in RowId : Insert(q, m)
  BY <1>1, <1>2 DEF Insert, Nobody, Typed
<1>3. CASE Reopen(q)
  <2>1. PICK m \in call[q].rows :
          /\ ~Locked(m)
          /\ LET new == [from |-> call[q].user, to |-> call[q].other, status |-> "pending"]
                 ok == Exists(m) /\ ~\E n \in RowId \ {m} :
                         Exists(n) /\ row[n].from = new.from /\ row[n].to = new.to
             IN  /\ row' = IF ok THEN [row EXCEPT ![m] = new] ELSE row
                 /\ reopened' = IF ok /\ row[m].status # "rejected"
                                THEN reopened \cup {CallPair(q)} ELSE reopened
    BY <1>3 DEF Reopen
  <2>2. CASE row'[k] # row[k]
    <3>1. m = k /\ row'[k].status = "pending" /\ reopened' = reopened \cup {CallPair(q)}
      BY <1>1, <2>1, <2>2 DEF Typed
    <3>2. PairOf(k) = CallPair(q)
      BY <1>1, <1>3, <2>1, <3>1 DEF CallOK, Reopen, At, Exists, Status
    <3> QED BY <1>3, <2>1, <3>1, <3>2 DEF Reopen
  <2> QED BY <2>2
<1>4. CASE RemoveCommit(q)
  BY <1>4 DEF RemoveCommit, Deleted, Nobody
<1>5. CASE \E c \in ChatId : CreateCommit(q, c)
  BY <1>5 DEF CreateCommit
<1>6. CASE UNCHANGED <<row, chat, crossed, reopened>>
  BY <1>6
<1> QED BY <1>2, <1>3, <1>4, <1>5, <1>6, Writers

\* What the other requests know stays true.
LEMMA OthersKnow ==
    ASSUME Inv, NEW q \in Call, Step(q), NEW p \in Call \ {q}
    PROVE  CallOK(p)'
<1>1. Typed /\ CallOK(p) /\ call'[p] = call[p] /\ call[p] \in CallType /\ Apart
  BY Own DEF Inv, Typed
<1>2. ASSUME At(p, "reopen"), NEW k \in call[p].rows
      PROVE  row'[k].status # "unused" /\ (Exists(k)' => PairOf(k)' = CallPair(p))
  BY <1>1, <1>2, RowKept DEF CallOK, CallType
<1>3. ASSUME call[p].pc \in InTransaction, NEW k \in call[p].rows
      PROVE  row'[k] = row[k]
  <2>1. k \in RowId /\ row[k].status = "accepted" /\ Locked(k)
    BY <1>1, <1>3 DEF CallOK, CallType, Locked
  <2>2. ~(At(q, "deleted") /\ k \in call[q].rows)
    BY <1>1, <1>3 DEF Apart, At, InTransaction
  <2> QED BY <2>1, <2>2, AcceptedKept
<1> QED BY <1>1, <1>2, <1>3 DEF CallOK, At, CallPair, PairOf

\* Locks are taken on rows that nobody has locked.
LEMMA ApartStep ==
    ASSUME Inv, NEW q \in Call, Step(q)
    PROVE  Apart'
<1>1. Typed /\ Apart /\ \A p \in Call \ {q} : call'[p] = call[p]
  BY Own DEF Inv
<1>2. CASE \E u, v \in User : RemoveDelete(q, u, v)
  <2>1. PICK u, v \in User :
          /\ \A k \in AcceptedOf({u, v}) : ~Locked(k)
          /\ call' = [call EXCEPT ![q] = [pc |-> "deleting", user |-> {u}, other |-> {v},
                                         rows |-> AcceptedOf({u, v}), chats |-> {}]]
    BY <1>2 DEF RemoveDelete, Asking
  <2>2. call'[q].rows = AcceptedOf({u, v})
    BY <1>1, <2>1 DEF Typed
  <2>3. ASSUME NEW p \in Call \ {q}, call[p].pc \in InTransaction
        PROVE  call[p].rows \cap AcceptedOf({u, v}) = {}
    BY <2>1, <2>3 DEF Locked
  <2>4. \A p \in Call \ {q} : call'[p].pc \in InTransaction
            => call'[p].rows \cap call'[q].rows = {}
    BY <1>1, <2>2, <2>3
  <2>5. \A p, r \in Call \ {q} :
            p # r /\ call'[p].pc \in InTransaction /\ call'[r].pc \in InTransaction
            => call'[p].rows \cap call'[r].rows = {}
    BY <1>1 DEF Apart
  <2> QED BY <2>4, <2>5 DEF Apart
<1>3. CASE \E u, v \in User : CreateLock(q, u, v)
  BY <1>1, <1>3 DEF CreateLock, Asking, Apart, Locked, Typed
<1>4. CASE \/ call'[q].rows = call[q].rows /\ call[q].pc \in InTransaction
           \/ call'[q].pc \notin InTransaction
  BY <1>1, <1>4 DEF Apart
<1>5. CASE \/ \E u, v \in User : \/ RequestNew(q, u, v) \/ RequestAgain(q, u, v)
                               \/ AnswerAsk(q, u, v, "accept")
                               \/ AnswerAsk(q, u, v, "reject")
           \/ \E k \in RowId : Insert(q, k)
           \/ Reopen(q) \/ RemoveCommit(q) \/ Abort(q)
           \/ \E c \in ChatId : CreateCommit(q, c)
  <2>1. \/ Return(q)
        \/ \E u, v \in User, K \in SUBSET RowId,
              pc \in {"insert", "reopen", "accept", "reject"} : Asking(q, u, v, pc, K, {})
    BY <1>5 DEF RequestNew, RequestAgain, AnswerAsk, RowsOf, Insert, Reopen, RemoveCommit,
                Abort, CreateCommit
  <2>2. call'[q].pc \in {"insert", "reopen", "accept", "reject", "idle"}
    BY <1>1, <2>1 DEF Asking, Return, Idle, Typed
  <2> QED BY <1>4, <2>2 DEF InTransaction
<1>6. CASE RemoveSelect(q) \/ CreateFind(q)
  <2>1. \/ call'[q].rows = call[q].rows /\ call[q].pc \in InTransaction
        \/ call'[q].pc = "idle"
    BY <1>1, <1>6 DEF RemoveSelect, CreateFind, Goto, Return, Idle, At, InTransaction, Typed,
                      CallType
  <2> QED BY <1>4, <2>1 DEF InTransaction
<1> QED BY <1>2, <1>3, <1>5, <1>6 DEF Step

\* A request knows what it has just read or locked.
LEMMA OwnKnows ==
    ASSUME Inv, NEW q \in Call, Step(q)
    PROVE  CallOK(q)'
<1>1. Typed /\ CallOK(q) /\ call[q] \in CallType /\ call \in [Call -> CallType]
  BY DEF Inv, Typed
<1>2. ASSUME Return(q) PROVE CallOK(q)'
  BY <1>1, <1>2 DEF Return, Idle, CallOK, At, InTransaction
<1>3. CASE \E u, v \in User :
             u # v /\ (\/ RequestNew(q, u, v) \/ RequestAgain(q, u, v)
                       \/ RemoveDelete(q, u, v) \/ CreateLock(q, u, v)
                       \/ AnswerAsk(q, u, v, "accept") \/ AnswerAsk(q, u, v, "reject"))
  <2>1. PICK u, v \in User :
             u # v /\ (\/ RequestNew(q, u, v) \/ RequestAgain(q, u, v)
                       \/ RemoveDelete(q, u, v) \/ CreateLock(q, u, v)
                       \/ AnswerAsk(q, u, v, "accept") \/ AnswerAsk(q, u, v, "reject"))
    BY <1>3
  <2>2. {u, v} \in Pairs /\ UNCHANGED row
    BY <2>1, TwoArePair DEF RequestNew, RequestAgain, RemoveDelete, CreateLock, AnswerAsk
  <2>3. /\ call'[q].user = {u} /\ call'[q].other = {v}
        /\ \/ call'[q].pc \in {"insert", "accept", "reject"}
           \/ call'[q].pc = "reopen" /\ call'[q].rows \subseteq RowsOf({u, v})
           \/ call'[q].pc = "deleting" /\ call'[q].rows = AcceptedOf({u, v})
           \/ /\ call'[q].pc = "locked" /\ call'[q].rows # {}
              /\ call'[q].rows \subseteq AcceptedOf({u, v})
    BY <1>1, <2>1 DEF RequestNew, RequestAgain, RemoveDelete, CreateLock, AnswerAsk, Asking
  <2>4. CallPair(q)' = {u, v}
    BY <2>3 DEF CallPair
  <2> QED
    BY <2>2, <2>3, <2>4 DEF CallOK, At, InTransaction, RowsOf, AcceptedOf, PairOf, Exists, Status
<1>4. CASE RemoveSelect(q) \/ CreateFind(q)
  <2>1. /\ UNCHANGED row
        /\ \/ Return(q)
           \/ /\ call[q].pc \in InTransaction /\ call'[q].pc \in InTransaction
              /\ call'[q].rows = call[q].rows /\ CallPair(q)' = CallPair(q)
              /\ call'[q].pc = "create" => call[q].pc = "locked"
              /\ call'[q].pc # "locked"
    BY <1>1, <1>4 DEF RemoveSelect, CreateFind, Goto, At, InTransaction, CallPair, CallType
  <2> QED BY <1>1, <1>2, <2>1 DEF CallOK, At, InTransaction, PairOf
<1>5. CASE \/ \E k \in RowId : Insert(q, k)
           \/ Reopen(q) \/ RemoveCommit(q) \/ Abort(q)
           \/ \E c \in ChatId : CreateCommit(q, c)
  <2>1. Return(q)
    BY <1>5 DEF Insert, Reopen, RemoveCommit, Abort, CreateCommit
  <2> QED BY <1>2, <2>1
<1> QED BY <1>3, <1>4, <1>5 DEF Step

\* An answer ends its request and changes at most the status of one pending row.
LEMMA Answers ==
    ASSUME Typed, Answering
    PROVE  /\ UNCHANGED <<chat, crossed, reopened>>
           /\ call' \in [Call -> CallType]
           /\ \A q \in Call : call'[q] = call[q] \/ call'[q] = Idle
           /\ row' \in [RowId -> RowType]
           /\ \A k \in RowId :
                /\ Exists(k)' <=> Exists(k)
                /\ row'[k].from = row[k].from /\ row'[k].to = row[k].to
                /\ PairOf(k)' = PairOf(k)
                /\ row[k].status # "unused" <=> row'[k].status # "unused"
                /\ row[k].status = "accepted" => row'[k] = row[k]
                /\ row'[k] # row[k] => row[k].status = "pending"
                /\ row'[k] # row[k] /\ row'[k].status = "accepted" => Consents(k)
<1>0. /\ row \in [RowId -> RowType] /\ call \in [Call -> CallType] /\ Idle \in CallType
      /\ \A q \in Call : call[q].rows \subseteq RowId
  BY DEF Typed, Idle, CallType, Pc
<1>1. PICK q \in Call, pc \in {"accept", "reject"}, s \in {"accepted", "rejected"} :
          Answer(q, pc, s) /\ (s = "accepted" => pc = "accept")
  BY DEF Answering, Accept, Reject
<1>2. PICK k \in call[q].rows :
          row' = IF row[k].status = "pending" /\ row[k].to = call[q].user
                 THEN [row EXCEPT ![k].status = s] ELSE row
  BY <1>1 DEF Answer
<1>3. /\ call' \in [Call -> CallType] /\ call'[q] = Idle
      /\ \A p \in Call : call'[p] = call[p] \/ call'[p] = Idle
      /\ UNCHANGED <<chat, crossed, reopened>> /\ call[q].pc = pc
  BY <1>0, <1>1 DEF Answer, Return, At
<1>4. CASE row' = row
  BY <1>0, <1>3, <1>4 DEF Exists, PairOf
<1>5. CASE row' # row
  <2>1. /\ k \in RowId /\ row[k].status = "pending" /\ row[k].to = call[q].user
        /\ row' = [row EXCEPT ![k] = [@ EXCEPT !.status = s]]
    BY <1>0, <1>2, <1>5
  <2>2. [row[k] EXCEPT !.status = s] \in RowType
    BY <1>0, <2>1 DEF RowType, Status
  <2>3. row' \in [RowId -> RowType]
    BY <1>0, <2>1, <2>2
  <2>4. \A m \in RowId : row'[m] = IF m = k THEN [row[k] EXCEPT !.status = s] ELSE row[m]
    BY <1>0, <2>1
  <2>5. \A m \in RowId : row'[m].from = row[m].from /\ row'[m].to = row[m].to
    BY <1>0, <2>4 DEF RowType
  <2>6. row'[k].status = s
    BY <1>0, <2>1, <2>4 DEF RowType
  <2>7. s = "accepted" => Consents(k)
    BY <1>1, <1>2, <1>3, <2>1 DEF Consents, At
  <2> QED BY <1>3, <2>1, <2>3, <2>4, <2>5, <2>6, <2>7 DEF Exists, PairOf, Status
<1> QED BY <1>4, <1>5

LEMMA InvStep == Inv /\ [Next]_vars => Inv'
<1> SUFFICES ASSUME Inv, [Next]_vars PROVE Inv'
  OBVIOUS
<1>1. CASE \E q \in Call : Step(q)
  BY <1>1, TypedStep, OthersKnow, OwnKnows, ApartStep DEF Inv
<1>2. CASE Answering
  <2>0. \A q \in Call : call'[q] = call[q] \/ call'[q].pc = "idle"
    BY <1>2, Answers DEF Inv, Idle
  <2>1. Typed' /\ Apart'
    BY <1>2, <2>0, Answers DEF Inv, Typed, Apart, InTransaction
  <2>2. ASSUME NEW q \in Call PROVE CallOK(q)'
    <3>1. CallOK(q) /\ call[q].rows \subseteq RowId
      BY DEF Inv, Typed, CallType
    <3>2. CASE call'[q] = call[q]
      BY <1>2, <3>1, <3>2, Answers DEF Inv, CallOK, At, CallPair
    <3>3. CASE call'[q].pc = "idle"
      BY <3>3 DEF CallOK, At, InTransaction
    <3> QED BY <2>0, <3>2, <3>3
  <2> QED BY <2>1, <2>2 DEF Inv
<1>3. CASE UNCHANGED vars
  BY <1>3 DEF Inv, Typed, CallOK, Apart, At, CallPair, Exists, PairOf, vars
<1> QED BY <1>1, <1>2, <1>3, NextSplits

LEMMA InvInit == Init => Inv
<1> SUFFICES ASSUME Init PROVE Inv
  OBVIOUS
<1>1. Nobody \in RowType /\ Idle \in CallType
  BY DEF Nobody, Idle, RowType, CallType, Pc
<1>2. Typed
  BY <1>1 DEF Init, Typed
<1> QED BY <1>2 DEF Init, Inv, CallOK, Apart, At, Idle, InTransaction

LEMMA Known == Spec => []Inv
BY InvInit, InvStep, PTL DEF Spec

------------------------------------------------------------------------------
(* The table *)

LEMMA UniqueStep == Inv /\ UniqueKey /\ [Next]_vars => UniqueKey'
<1> SUFFICES ASSUME Inv, UniqueKey, [Next]_vars PROVE UniqueKey'
  OBVIOUS
<1>0. Typed
  BY DEF Inv
<1>1. CASE Answering
  BY <1>0, <1>1, Answers DEF UniqueKey
<1>2. CASE UNCHANGED vars
  BY <1>2 DEF UniqueKey, Exists, vars
<1>3. ASSUME NEW q \in Call, Step(q) PROVE UniqueKey'
  <2>1. ASSUME NEW k \in RowId,
               ~\E m \in RowId \ {k} : Exists(m) /\ row[m].from = call[q].user
                                       /\ row[m].to = call[q].other,
               row' = [row EXCEPT ![k] = [from |-> call[q].user, to |-> call[q].other,
                                          status |-> "pending"]]
        PROVE  UniqueKey'
    BY <1>0, <2>1 DEF UniqueKey, Typed, Exists
  <2>2. CASE UNCHANGED row
    BY <2>2 DEF UniqueKey, Exists
  <2>3. CASE \E k \in RowId : Insert(q, k)
    BY <2>1, <2>2, <2>3 DEF Insert, Taken
  <2>4. CASE Reopen(q)
    <3>1. call[q].rows \subseteq RowId
      BY <1>0 DEF Typed, CallType
    <3> QED BY <2>1, <2>2, <2>4, <3>1 DEF Reopen
  <2>5. CASE RemoveCommit(q)
    BY <1>0, <2>5 DEF RemoveCommit, Deleted, Nobody, UniqueKey, Exists, Status
  <2>6. CASE \E c \in ChatId : CreateCommit(q, c)
    BY <2>2, <2>6 DEF CreateCommit
  <2> QED BY <1>3, <2>2, <2>3, <2>4, <2>5, <2>6, Writers
<1> QED BY <1>1, <1>2, <1>3, NextSplits

\* Every variable keeps its type, and the unique key of the table holds.
THEOREM TypeCorrect == Spec => []TypeOK
<1>1. Init => UniqueKey
  BY DEF Init, UniqueKey, Exists, Nobody, Status
<1>2. Inv /\ UniqueKey => TypeOK
  BY TypeParts DEF Inv
<1> QED BY <1>1, <1>2, Known, UniqueStep, PTL DEF Spec

\* A friendship begins only by the consent of whoever is the receiver when the
\* answer is carried out, and ends only by removeFriend or by a late reopening: no
\* other statement writes an accepted row, since the lock of removeFriend keeps
\* everybody else out, and none but the receiver's acceptRequest makes one.
THEOREM OnlyConsentBefriends == Spec => FriendshipMoves
<1>1. ASSUME Inv, [Next]_vars, NEW k \in RowId
      PROVE  Moves(k)
  <2>0. Typed /\ row[k] \in RowType
    BY <1>1 DEF Inv, Typed
  <2>1. CASE row'[k] = row[k]
    BY <2>1 DEF Moves
  <2>2. CASE Answering
    BY <1>1, <2>0, <2>2, Answers DEF Moves, Inv
  <2>3. ASSUME NEW q \in Call, Step(q)
        PROVE  Moves(k)
    <3>1. CASE row[k].status = "accepted"
      BY <1>1, <2>3, <3>1, AcceptedKept DEF Moves
    <3>2. CASE row[k].status # "accepted"
      <4>1. row'[k] = row[k] \/ row'[k].status # "accepted"
        <5>1. CASE (\E m \in RowId : Insert(q, m)) \/ Reopen(q)
          BY <2>0, <5>1 DEF Insert, Reopen, Typed
        <5>2. CASE RemoveCommit(q)
          BY <5>2 DEF RemoveCommit, Deleted, Nobody
        <5>3. CASE UNCHANGED row
          BY <5>3
        <5> QED BY <2>3, <5>1, <5>2, <5>3, Writers DEF CreateCommit
      <4> QED BY <3>2, <4>1 DEF Moves
    <3> QED BY <3>1, <3>2
  <2> QED BY <1>1, <2>1, <2>2, <2>3, NextSplits DEF vars
<1>2. Inv /\ [Next]_vars => [\A k \in RowId : Moves(k)]_vars
  BY <1>1
<1> QED BY <1>2, Known, PTL DEF Spec, FriendshipMoves

------------------------------------------------------------------------------
(* The chat of a pair *)

\* Whoever deletes a friendship has read, under its lock, every chat of the pair
\* that no other accepted row keeps: each chat has a row that no removeFriend is
\* about to delete without that chat.
Keeps(k, c) == \A q \in Call : At(q, "deleted") /\ k \in call[q].rows => c \in call[q].chats
Keeper(k, c) == row[k].status = "accepted" /\ PairOf(k) = chat[c] /\ Keeps(k, c)
Guarded ==
    \A c \in ChatId : chat[c] \in Pairs \ reopened => \E k \in RowId : Keeper(k, c)

LEMMA GuardedStep == Inv /\ Guarded /\ [Next]_vars => Guarded'
<1> SUFFICES ASSUME Inv, Guarded, [Next]_vars, NEW c \in ChatId,
                    chat'[c] \in Pairs \ reopened'
             PROVE  \E k \in RowId : Keeper(k, c)'
  BY DEF Guarded
<1>0. Typed
  BY DEF Inv
<1>1. ASSUME UNCHANGED <<chat, reopened>>,
             \A q \in Call : call'[q] = call[q] \/ call'[q].pc = "idle",
             \A k \in RowId : row[k].status = "accepted" => row'[k] = row[k]
      PROVE  \E k \in RowId : Keeper(k, c)'
  <2>1. PICK k \in RowId : Keeper(k, c)
    BY <1>1 DEF Guarded
  <2> QED BY <1>1, <2>1 DEF Keeper, PairOf, Keeps, At
<1>2. ASSUME NEW q \in Call, Step(q)
      PROVE  \E k \in RowId : Keeper(k, c)'
  <2>0. /\ call[q] \in CallType /\ CallOK(q)
        /\ \A p \in Call \ {q} : call'[p] = call[p]
    BY <1>0, <1>2, Own DEF Inv, Typed
  <2>1. CASE chat'[c] = chat[c]
    <3>1. reopened \subseteq reopened'
      BY <1>2, Writers DEF Insert, Reopen, RemoveCommit, CreateCommit
    <3>2. PICK k \in RowId : Keeper(k, c)
      BY <2>1, <3>1 DEF Guarded
    <3>3. row[k].status = "accepted" /\ PairOf(k) = chat[c]
      BY <3>2 DEF Keeper
    <3>4. row'[k] = row[k]
      <4>1. CASE At(q, "deleted") /\ k \in call[q].rows /\ row'[k] # row[k]
        <5>1. c \in call[q].chats
          BY <3>2, <4>1 DEF Keeper, Keeps
        <5>2. RemoveCommit(q)
          BY <1>2, <4>1, Writers DEF Insert, Reopen, CreateCommit, At
        <5>3. chat'[c] = Dropped
          BY <5>1, <5>2 DEF RemoveCommit
        <5> QED BY <5>3, NotPairs
      <4> QED BY <1>2, <2>1, <3>3, <4>1, AcceptedKept
    <3>5. At(q, "deleted")' /\ k \in call'[q].rows => c \in call'[q].chats
      <4>1. SUFFICES ASSUME At(q, "deleted")', k \in call'[q].rows
                     PROVE  c \in call'[q].chats
        OBVIOUS
      <4>2. RemoveSelect(q)
        <5>1. ~Return(q)
          BY <1>0, <4>1 DEF Return, Idle, At, Typed
        <5>2. \A u, v \in User, K \in SUBSET RowId,
                 pc \in {"insert", "reopen", "accept", "reject", "deleting", "locked"} :
                 ~Asking(q, u, v, pc, K, {})
          BY <1>0, <4>1 DEF Asking, At, Typed
        <5>3. ~Goto(q, "create")
          BY <1>0, <4>1 DEF Goto, At, Typed, CallType
        <5> QED BY <1>2, <5>1, <5>2, <5>3 DEF Step, RequestNew, RequestAgain, RemoveDelete,
                   CreateLock, AnswerAsk, Insert, Reopen, RemoveCommit, CreateFind, Abort, CreateCommit,
                   AcceptedOf, RowsOf
      <4>3. call'[q].rows = call[q].rows /\ call'[q].chats = ChatsOf(CallPair(q))
        BY <1>0, <2>0, <4>2 DEF RemoveSelect, Typed, CallType
      <4>4. PairOf(k) = CallPair(q)
        BY <2>0, <4>1, <4>2, <4>3 DEF CallOK, RemoveSelect, At, InTransaction
      <4> QED BY <3>3, <4>3, <4>4 DEF ChatsOf
    <3>6. Keeps(k, c)'
      BY <2>0, <3>2, <3>5 DEF Keeper, Keeps, At
    <3> QED BY <2>1, <3>3, <3>4, <3>6 DEF Keeper, PairOf
  <2>2. CASE chat'[c] # chat[c]
    <3>1. CreateCommit(q, c)
      BY <1>0, <1>2, <2>2, Writers, NotPairs
         DEF Insert, Reopen, RemoveCommit, CreateCommit, Typed
    <3>2. PICK k \in call[q].rows : row[k].status = "accepted" /\ PairOf(k) = CallPair(q)
      BY <2>0, <3>1 DEF CallOK, CreateCommit, At, InTransaction
    <3>3. /\ chat'[c] = CallPair(q) /\ UNCHANGED row /\ k \in RowId
          /\ call'[q].pc = "idle"
      BY <1>0, <2>0, <3>1 DEF CreateCommit, Return, Idle, Typed, CallType
    <3>4. \A p \in Call \ {q} : At(p, "deleted") => k \notin call[p].rows
      BY <3>1, <3>2 DEF Inv, Apart, CreateCommit, At, InTransaction
    <3> QED BY <2>0, <3>2, <3>3, <3>4
            DEF Keeper, Keeps, At, PairOf
  <2> QED BY <2>1, <2>2
<1>3. CASE \E q \in Call : Step(q)
  BY <1>2, <1>3
<1>4. CASE Answering
  <2>1. \A q \in Call : call'[q] = call[q] \/ call'[q].pc = "idle"
    BY <1>0, <1>4, Answers DEF Idle
  <2> QED BY <1>0, <1>1, <1>4, <2>1, Answers
<1>5. CASE UNCHANGED vars
  BY <1>1, <1>5 DEF vars
<1> QED BY <1>3, <1>4, <1>5, NextSplits

\* A pair has a direct chat only while the two are friends, however many requests
\* open the chat and remove the friend at once, unless an accepted row was
\* overwritten by a late re-request.
THEOREM ChatNeedsFriends == Spec => []ChatOnlyOfFriends
<1>1. Init => Guarded
  BY NotPairs DEF Init, Guarded
<1>2. Guarded => ChatOnlyOfFriends
  BY DEF Guarded, Keeper, ChatOnlyOfFriends, ChatsOf, AcceptedOf, RowsOf, Exists, Status
<1> QED BY <1>1, <1>2, Known, GuardedStep, PTL DEF Spec

\* Of a pair whose requests never crossed there is one row at a time.  Whoever has
\* it locked and found no chat is the only one who may create one.
OneRow(p) == \A k, m \in RowId :
    Exists(k) /\ Exists(m) /\ PairOf(k) = p /\ PairOf(m) = p => k = m
OneChat(p) ==
    /\ \A c, d \in ChatId : chat[c] = p /\ chat[d] = p => c = d
    /\ \A q \in Call : At(q, "create") /\ CallPair(q) = p => \A c \in ChatId : chat[c] # p
Single == \A p \in Pairs \ crossed : OneRow(p) /\ OneChat(p)

LEMMA OneRowStep ==
    ASSUME Inv, NEW q \in Call, Step(q), NEW p \in Pairs \ crossed', OneRow(p)
    PROVE  OneRow(p)'
<1>0. Typed /\ call[q] \in CallType
  BY DEF Inv, Typed
<1>1. ASSUME \A k \in RowId : Exists(k)' => Exists(k) /\ PairOf(k)' = PairOf(k)
      PROVE  OneRow(p)'
  BY <1>1 DEF OneRow
<1>2. CASE \E k \in RowId : Insert(q, k)
  <2>1. PICK k \in RowId : Insert(q, k)
    BY <1>2
  <2>2. CASE UNCHANGED row
    BY <1>1, <2>2 DEF Exists, PairOf
  <2>3. CASE /\ row' = [row EXCEPT ![k] = [from |-> call[q].user, to |-> call[q].other,
                                           status |-> "pending"]]
             /\ crossed' = IF RowsOf(CallPair(q)) = {} THEN crossed
                           ELSE crossed \cup {CallPair(q)}
    <3>1. /\ PairOf(k)' = CallPair(q)
          /\ \A m \in RowId \ {k} : /\ PairOf(m)' = PairOf(m)
                                    /\ Exists(m)' <=> Exists(m)
      BY <1>0, <2>3 DEF Typed, PairOf, CallPair, Exists
    <3>2. CallPair(q) = p => \A m \in RowId : Exists(m) => PairOf(m) # p
      BY <2>3 DEF RowsOf
    <3> QED BY <3>1, <3>2 DEF OneRow
  <2> QED BY <2>1, <2>2, <2>3 DEF Insert
<1>3. CASE ~\E k \in RowId : Insert(q, k)
  <2>1. ASSUME NEW k \in RowId, row[k].status = "unused" PROVE row'[k] = row[k]
    <3>1. CASE Reopen(q)
      BY <1>0, <2>1, <3>1 DEF Reopen, Typed, Exists, Status
    <3>2. CASE RemoveCommit(q)
      <4>1. k \notin call[q].rows
        BY <2>1, <3>2 DEF Inv, CallOK, RemoveCommit, At, InTransaction
      <4> QED BY <3>2, <4>1 DEF RemoveCommit
    <3> QED BY <1>3, <3>1, <3>2, Writers DEF CreateCommit
  <2>2. \A k \in RowId : Exists(k)' => Exists(k) /\ PairOf(k)' = PairOf(k)
    BY <2>1, RowKept DEF Exists, PairOf
  <2> QED BY <1>1, <2>2
<1> QED BY <1>2, <1>3

LEMMA OneChatStep ==
    ASSUME Inv, NEW q \in Call, Step(q), NEW p \in Pairs, OneRow(p), OneChat(p)
    PROVE  OneChat(p)'
<1>0. /\ Typed /\ Apart /\ CallOK(q) /\ call[q] \in CallType
      /\ \A r \in Call \ {q} : call'[r] = call[r]
  BY Own DEF Inv, Typed
<1>1. CASE \E c \in ChatId : CreateCommit(q, c)
  <2>1. PICK c \in ChatId : CreateCommit(q, c)
    BY <1>1
  <2>2. /\ chat' = [chat EXCEPT ![c] = CallPair(q)] /\ call'[q].pc = "idle"
        /\ At(q, "create")
    BY <1>0, <2>1 DEF CreateCommit, Return, Idle, Typed
  <2>3. CASE CallPair(q) # p
    BY <1>0, <2>2, <2>3 DEF OneChat, At, CallPair, Typed
  <2>4. CASE CallPair(q) = p
    <3>1. \A d \in ChatId : chat[d] # p
      BY <2>2, <2>4 DEF OneChat
    <3>2. ASSUME NEW r \in Call \ {q}, At(r, "create"), CallPair(r) = p
          PROVE  FALSE
      <4>1. CallOK(r) /\ call[r] \in CallType
        BY <1>0 DEF Inv, Typed
      <4>2. PICK k \in call[q].rows : Exists(k) /\ PairOf(k) = p
        BY <1>0, <2>2, <2>4 DEF CallOK, At, InTransaction, Exists, Status
      <4>3. PICK m \in call[r].rows : Exists(m) /\ PairOf(m) = p
        BY <3>2, <4>1 DEF CallOK, At, InTransaction, Exists, Status
      <4>4. k = m
        BY <1>0, <4>1, <4>2, <4>3 DEF OneRow, CallType
      <4> QED BY <1>0, <2>2, <3>2, <4>4 DEF Apart, At, InTransaction
    <3> QED BY <1>0, <2>2, <3>1, <3>2 DEF OneChat, At, CallPair, Typed
  <2> QED BY <2>3, <2>4
<1>2. CASE ~\E c \in ChatId : CreateCommit(q, c)
  <2>1. \A c \in ChatId : chat'[c] = p => chat[c] = p
    BY <1>2, Writers, NotPairs DEF Insert, Reopen, RemoveCommit
  <2>2. ASSUME At(q, "create")', CallPair(q)' = p, NEW c \in ChatId
        PROVE  chat[c] # p
    <3>1. ~Return(q)
      BY <1>0, <2>2 DEF Return, Idle, At, Typed
    <3>2. \A u, v \in User, K \in SUBSET RowId,
             pc \in {"insert", "reopen", "accept", "reject", "deleting", "locked"} : ~Asking(q, u, v, pc, K, {})
      BY <1>0, <2>2 DEF Asking, At, Typed
    <3>3. ~RemoveSelect(q)
      BY <1>0, <2>2 DEF RemoveSelect, At, Typed, CallType
    <3>4. CreateFind(q)
      BY <1>2, <3>1, <3>2, <3>3 DEF Step, RequestNew, RequestAgain, RemoveDelete, CreateLock,
         AnswerAsk, Insert, Reopen, RemoveCommit, Abort, AcceptedOf, RowsOf
    <3>5. ChatsOf(CallPair(q)) = {} /\ CallPair(q)' = CallPair(q)
      BY <1>0, <3>1, <3>4 DEF CreateFind, Goto, CallPair, Typed, CallType
    <3> QED BY <2>2, <3>5 DEF ChatsOf
  <2>3. \A r \in Call \ {q} : At(r, "create")' /\ CallPair(r)' = p
            => At(r, "create") /\ CallPair(r) = p
    BY <1>0 DEF At, CallPair
  <2> QED BY <2>1, <2>2, <2>3 DEF OneChat
<1> QED BY <1>1, <1>2

LEMMA SingleStep == Inv /\ Single /\ [Next]_vars => Single'
<1> SUFFICES ASSUME Inv, Single, [Next]_vars, NEW p \in Pairs \ crossed'
             PROVE  OneRow(p)' /\ OneChat(p)'
  BY DEF Single
<1>1. CASE \E q \in Call : Step(q)
  <2>1. PICK q \in Call : Step(q)
    BY <1>1
  <2>2. crossed \subseteq crossed'
    BY <2>1, Writers DEF Insert, Reopen, RemoveCommit, CreateCommit
  <2>3. OneRow(p) /\ OneChat(p)
    BY <2>2 DEF Single
  <2> QED BY <2>1, <2>3, OneRowStep, OneChatStep
<1>2. CASE Answering
  <2>1. OneRow(p) /\ OneChat(p) /\ Typed
    BY <1>2, Answers DEF Single, Inv
  <2>2. \A q \in Call : call'[q] = call[q] \/ call'[q].pc = "idle"
    BY <1>2, <2>1, Answers DEF Idle
  <2> QED BY <1>2, <2>1, <2>2, Answers DEF OneRow, OneChat, At, CallPair
<1>3. CASE UNCHANGED vars
  BY <1>3 DEF Single, OneRow, OneChat, At, CallPair, Exists, PairOf, vars
<1> QED BY <1>1, <1>2, <1>3, NextSplits

LEMMA AtMostOne ==
    ASSUME NEW S, \A x, y \in S : x = y
    PROVE  Cardinality(S) <= 1
<1>1. CASE S = {}
  BY <1>1, FS_EmptySet
<1>2. CASE S # {}
  <2>1. PICK x \in S : S = {x}
    BY <1>2
  <2> QED BY <2>1, FS_Singleton
<1> QED BY <1>1, <1>2

\* Two users never have two direct chats, however many requests open the chat at
\* once, unless their first requests crossed and left two rows to lock.
THEOREM SingleChat == Spec => []OneChatPerPair
<1>1. Init => Single
  BY NotPairs DEF Init, Single, OneRow, OneChat, At, Idle, Exists, Nobody, Status
<1>2. Single => OneChatPerPair
  BY AtMostOne DEF Single, OneChat, OneChatPerPair, ChatsOf
<1> QED BY <1>1, <1>2, Known, SingleStep, PTL DEF Spec

==============================================================================
