----------------------------- MODULE Friendships -----------------------------
(****************************************************************************)
(* Friend requests and the direct chat of two users: sendRequest,           *)
(* acceptRequest, rejectRequest and removeFriend of friends.service.ts, and *)
(* getOrCreateDirectChat of chats.service.ts, called concurrently.          *)
(* Statements outside a transaction are steps of their own; a transaction   *)
(* is a step per statement that locks or whose answer it uses later, at     *)
(* READ COMMITTED: others see its writes when it commits, and its row locks *)
(* hold until then.  Requests die at any step (a lost process or database   *)
(* connection), which rolls their transaction back.                         *)
(****************************************************************************)
EXTENDS Integers, FiniteSets

CONSTANTS
    User,
    RowId,   \* bound: rows ever inserted into friendships (ids are never reused)
    ChatId,  \* bound: chats ever created
    Call     \* bound: requests under way at one time

VARIABLES
    row,      \* friendships, by id
    chat,     \* the pair of users of each direct chat
    call,     \* the requests under way
    crossed,  \* history: pairs that had two rows at a time
    reopened  \* history: pairs one of whose rows a late re-request overwrote

vars == <<row, chat, call, crossed, reopened>>

Pairs == {p \in SUBSET User : Cardinality(p) = 2}
Status == {"pending", "accepted", "rejected"}
Nobody == [from |-> {}, to |-> {}, status |-> "unused"]
Deleted == [Nobody EXCEPT !.status = "deleted"]
Friendship(u, v, s) == [from |-> {u}, to |-> {v}, status |-> s]

Exists(k) == row[k].status \in Status
PairOf(k) == row[k].from \cup row[k].to
RowsOf(p) == {k \in RowId : Exists(k) /\ PairOf(k) = p}
AcceptedOf(p) == {k \in RowsOf(p) : row[k].status = "accepted"}

NoChat == {}
Dropped == {"dropped"}  \* a chat that was deleted
ChatsOf(p) == {c \in ChatId : chat[c] = p}

\* A request: who calls, about whom, the step it is at, the rows it has locked
\* or looked up, and the chats it has read.
Idle == [pc |-> "idle", user |-> {}, other |-> {}, rows |-> {}, chats |-> {}]
At(q, pc) == call[q].pc = pc
Asking(q, u, v, pc, K, C) ==
    call' = [call EXCEPT ![q] = [pc |-> pc, user |-> {u}, other |-> {v},
                                 rows |-> K, chats |-> C]]
Goto(q, pc) == call' = [call EXCEPT ![q].pc = pc]
Return(q) == call' = [call EXCEPT ![q] = Idle]
CallPair(q) == call[q].user \cup call[q].other

\* Rows locked by an open transaction.
InTransaction == {"locked", "create", "deleting", "deleted"}
Locked(k) == \E q \in Call : call[q].pc \in InTransaction /\ k \in call[q].rows

\* unique (requesterId, receiverId): the two directions of a pair differ.
Taken(from, to) == \E k \in RowId : Exists(k) /\ row[k].from = from /\ row[k].to = to

Init ==
    /\ row = [k \in RowId |-> Nobody]
    /\ chat = [c \in ChatId |-> NoChat]
    /\ call = [q \in Call |-> Idle]
    /\ crossed = {}
    /\ reopened = {}

------------------------------------------------------------------------------
(* sendRequest *)

\* The SELECT over both directions, LIMIT 1 without an order: any row of the
\* pair may be the one found.
RequestNew(q, u, v) ==
    /\ At(q, "idle") /\ RowsOf({u, v}) = {}
    /\ Asking(q, u, v, "insert", {}, {})
    /\ UNCHANGED <<row, chat, crossed, reopened>>

RequestAgain(q, u, v) ==
    /\ At(q, "idle")
    /\ \E k \in RowsOf({u, v}) :
          row[k].status = "rejected" /\ Asking(q, u, v, "reopen", {k}, {})
    /\ UNCHANGED <<row, chat, crossed, reopened>>

\* The INSERT; a second row of the same direction is a unique violation.
InsertTwice(q, k) ==  \* mutant: the unique index is missing
    /\ At(q, "insert") /\ row[k] = Nobody /\ Return(q)
    /\ row' = [row EXCEPT ![k] = [from |-> call[q].user, to |-> call[q].other,
                                  status |-> "pending"]]
    /\ UNCHANGED <<chat, crossed, reopened>>

Insert(q, k) ==
    /\ At(q, "insert") /\ row[k] = Nobody /\ Return(q)
    /\ IF Taken(call[q].user, call[q].other)
       THEN UNCHANGED <<row, crossed>>
       ELSE /\ row' = [row EXCEPT ![k] = [from |-> call[q].user, to |-> call[q].other,
                                          status |-> "pending"]]
            /\ crossed' = IF RowsOf(CallPair(q)) = {} THEN crossed
                          ELSE crossed \cup {CallPair(q)}
    /\ UNCHANGED <<chat, reopened>>

\* The UPDATE of the rejected row, by id alone: it turns the row round and makes
\* it pending whatever it has become; a row deleted meanwhile, or a direction
\* taken meanwhile, is an error.
Reopen(q) ==
    /\ At(q, "reopen")
    /\ \E k \in call[q].rows :
         /\ ~Locked(k)
         /\ LET new == [from |-> call[q].user, to |-> call[q].other, status |-> "pending"]
                ok == Exists(k) /\ ~\E m \in RowId \ {k} :
                         Exists(m) /\ row[m].from = new.from /\ row[m].to = new.to
            IN  /\ row' = IF ok THEN [row EXCEPT ![k] = new] ELSE row
                /\ reopened' = IF ok /\ row[k].status # "rejected"
                               THEN reopened \cup {CallPair(q)} ELSE reopened
    /\ Return(q)
    /\ UNCHANGED <<chat, crossed>>

------------------------------------------------------------------------------
(* acceptRequest, rejectRequest *)

\* Either of the two may ask for an answer to a request it knows the id of; by
\* the time of the UPDATE the request may be turned round, answered or gone.
AnswerAsk(q, u, v, pc) ==
    /\ At(q, "idle")
    /\ \E k \in RowsOf({u, v}) : Asking(q, u, v, pc, {k}, {})
    /\ UNCHANGED <<row, chat, crossed, reopened>>

AnswerAnyone(q, pc, s) ==  \* mutant: the requester may answer the request too
    /\ At(q, pc) /\ Return(q)
    /\ \E k \in call[q].rows :
          row' = IF row[k].status = "pending" THEN [row EXCEPT ![k].status = s] ELSE row
    /\ UNCHANGED <<chat, crossed, reopened>>

\* One guarded UPDATE: only of a pending request, and only by its receiver.
Answer(q, pc, s) ==
    /\ At(q, pc) /\ Return(q)
    /\ \E k \in call[q].rows :
          row' = IF row[k].status = "pending" /\ row[k].to = call[q].user
                 THEN [row EXCEPT ![k].status = s] ELSE row
    /\ UNCHANGED <<chat, crossed, reopened>>

Accept(q) == Answer(q, "accept", "accepted")
Reject(q) == Answer(q, "reject", "rejected")

------------------------------------------------------------------------------
(* removeFriend, one transaction *)

\* The DELETE waits for the locks of other transactions, then locks the rows;
\* without an accepted row the call ends in NotFound.
RemoveDelete(q, u, v) ==
    /\ At(q, "idle") /\ AcceptedOf({u, v}) # {}
    /\ \A k \in AcceptedOf({u, v}) : ~Locked(k)
    /\ Asking(q, u, v, "deleting", AcceptedOf({u, v}), {})
    /\ UNCHANGED <<row, chat, crossed, reopened>>

\* The SELECT of the exact direct chats of the pair.
RemoveSelect(q) ==
    /\ At(q, "deleting")
    /\ call' = [call EXCEPT ![q].pc = "deleted", ![q].chats = ChatsOf(CallPair(q))]
    /\ UNCHANGED <<row, chat, crossed, reopened>>

RemoveKeepingChats(q) ==  \* mutant: the chats are left
    /\ At(q, "deleted")
    /\ row' = [k \in RowId |-> IF k \in call[q].rows THEN Deleted ELSE row[k]]
    /\ Return(q)
    /\ UNCHANGED <<chat, crossed, reopened>>

\* The DELETE of the chats, and the commit.
RemoveCommit(q) ==
    /\ At(q, "deleted")
    /\ row' = [k \in RowId |-> IF k \in call[q].rows THEN Deleted ELSE row[k]]
    /\ chat' = [c \in ChatId |-> IF c \in call[q].chats THEN Dropped ELSE chat[c]]
    /\ Return(q)
    /\ UNCHANGED <<crossed, reopened>>

------------------------------------------------------------------------------
(* getOrCreateDirectChat, one transaction *)

CreateUnlocked(q, u, v) ==  \* mutant: SELECT without FOR UPDATE
    /\ At(q, "idle") /\ AcceptedOf({u, v}) # {}
    /\ Asking(q, u, v, "locked", {}, {})
    /\ UNCHANGED <<row, chat, crossed, reopened>>

\* SELECT ... FOR UPDATE LIMIT 1: one accepted row of the pair, any of them.
CreateLock(q, u, v) ==
    /\ At(q, "idle")
    /\ \E k \in AcceptedOf({u, v}) :
          ~Locked(k) /\ Asking(q, u, v, "locked", {k}, {})
    /\ UNCHANGED <<row, chat, crossed, reopened>>

\* findDirectChatId: an existing chat is returned and the transaction ends.
CreateFind(q) ==
    /\ At(q, "locked")
    /\ IF ChatsOf(CallPair(q)) = {} THEN Goto(q, "create") ELSE Return(q)
    /\ UNCHANGED <<row, chat, crossed, reopened>>

\* INSERT of the chat and its two participants, and the commit.
CreateCommit(q, c) ==
    /\ At(q, "create") /\ chat[c] = NoChat
    /\ chat' = [chat EXCEPT ![c] = CallPair(q)]
    /\ Return(q)
    /\ UNCHANGED <<row, crossed, reopened>>

------------------------------------------------------------------------------
\* The request dies; its transaction, if any, is rolled back.
Abort(q) ==
    /\ ~At(q, "idle") /\ Return(q)
    /\ UNCHANGED <<row, chat, crossed, reopened>>

Next ==
    \/ \E q \in Call, u, v \in User :
         /\ u # v  \* "You cannot add yourself", assertNotSelf
         /\ \/ RequestNew(q, u, v) \/ RequestAgain(q, u, v)
            \/ RemoveDelete(q, u, v) \/ CreateLock(q, u, v)
            \/ AnswerAsk(q, u, v, "accept") \/ AnswerAsk(q, u, v, "reject")
    \/ \E q \in Call, k \in RowId : Insert(q, k)
    \/ \E q \in Call : \/ Reopen(q) \/ RemoveSelect(q) \/ RemoveCommit(q)
                       \/ CreateFind(q) \/ Abort(q) \/ Accept(q) \/ Reject(q)
    \/ \E q \in Call, c \in ChatId : CreateCommit(q, c)

Spec == Init /\ [][Next]_vars

------------------------------------------------------------------------------
(* Properties *)

\* Every variable has its type, and the unique key of the table holds.
TypeOK ==
    /\ row \in [RowId ->
         [from : SUBSET User, to : SUBSET User, status : Status \cup {"unused", "deleted"}]]
    /\ \A k, m \in RowId : (Exists(k) /\ Exists(m) /\ row[k].from = row[m].from
                            /\ row[k].to = row[m].to) => k = m
    /\ chat \in [ChatId -> Pairs \cup {NoChat, Dropped}]
    /\ call \in [Call -> [pc : {"idle", "insert", "reopen", "accept", "reject"}
                                \cup InTransaction,
                          user : SUBSET User, other : SUBSET User,
                          rows : SUBSET RowId, chats : SUBSET ChatId]]
    /\ crossed \subseteq Pairs /\ reopened \subseteq Pairs

\* Two users never have two direct chats, however many requests open the chat at
\* once: creators queue on the lock of the friendship.  Only a pair whose
\* requests crossed has two rows to lock.
OneChatPerPair ==
    \A p \in Pairs : p \notin crossed => Cardinality(ChatsOf(p)) <= 1

\* A pair has a direct chat only while the two are friends: no interleaving of
\* opening the chat and removing the friend leaves the chat behind, with one row
\* or two.  Only the late reopening of an accepted row does.
ChatOnlyOfFriends ==
    \A p \in Pairs : (ChatsOf(p) # {} /\ p \notin reopened) => AcceptedOf(p) # {}

\* A friendship begins only by the receiver's consent: a row becomes accepted only
\* out of pending, and in a step of an acceptRequest for this row that the user
\* made whom the row names as its receiver at that very moment, whatever crossed
\* requests, answers and re-requests did to the row since the call came in.  It
\* ends only by removeFriend or by a late reopening.
Consents(k) ==
    \E q \in Call : /\ At(q, "accept") /\ call[q].user = row[k].to
                    /\ k \in call[q].rows /\ call'[q] = Idle
Moves(k) ==
    /\ (row'[k].status = "accepted" /\ row[k].status # "accepted") =>
            /\ row[k].status = "pending" /\ Consents(k)
            /\ row'[k].from = row[k].from /\ row'[k].to = row[k].to
    /\ (row[k].status = "accepted" /\ row'[k].status # "accepted") =>
            \/ row'[k].status = "deleted"
            \/ row'[k].status = "pending" /\ PairOf(k) \in reopened'
FriendshipMoves == [][\A k \in RowId : Moves(k)]_vars

\* sendRequest refuses when the two have a request or are friends, in either
\* direction: 'Friend request already exists' (friends.service.ts:90).  But it
\* looks first and writes later: two requests that cross both find nothing and
\* both insert, and a re-request that read a rejected row overwrites it although
\* it has been accepted since, so that friends are friends no more.
Asked(k) == row'[k].status = "pending" /\ row'[k] # row[k]
RefusesExisting ==
    [][\A k \in RowId : Asked(k) =>
           \A m \in RowsOf(row'[k].from \cup row'[k].to) : row[m].status = "rejected"]_vars
==============================================================================
