------------------------------- MODULE ChatLog -------------------------------
(****************************************************************************)
(* The messages of one direct chat in the API (chats.service.ts):           *)
(* sendMessage and markRead as transactions of concurrent requests,         *)
(* getMessages and the unread count as queries over what is committed.      *)
(*                                                                          *)
(* createdAt is now() of PostgreSQL, the start of the transaction, and has  *)
(* PerMs steps to a millisecond; a Date of JavaScript has the millisecond   *)
(* alone.  Ids are random UUIDs, so any unused id may be the next.  A       *)
(* transaction first locks the chat row (assertParticipant); what it does   *)
(* under the lock is a step per read whose answer it uses later, and a step *)
(* for the writes and the commit.                                           *)
(****************************************************************************)
EXTENDS Integers, FiniteSets

CONSTANTS
    User,     \* the participants
    Message,  \* message ids, in the order of UUID comparison
    Call,     \* bound: requests under way at one time
    PerMs,    \* steps of a database timestamp in one millisecond
    MaxTime   \* bound: the last instant

ASSUME ChatLogAssumption ==
    /\ Message \subseteq Nat \ {0}
    /\ PerMs \in Nat \ {0}
    /\ MaxTime \in Nat

VARIABLES
    now,   \* the clock of the database
    msg,   \* messages, by id
    last,  \* chats.lastMessageId
    read,  \* chat_participants.lastReadMessageId, by user
    call   \* the requests under way

logVars == <<now, msg, last, read, call>>

None == 0
MaybeMessage == Message \cup {None}
Sent == {m \in Message : msg[m].from # {}}
Unsent == [from |-> {}, at |-> 0]

\* A request: the await it is at, its user and message, the start of its
\* transaction and the cursor it has read.
Idle == [pc |-> "idle", user |-> {}, m |-> None, at |-> 0, cursor |-> None]
At(q, pc) == call[q].pc = pc
Return(q) == call' = [call EXCEPT ![q] = Idle]
By(q, u) == call[q].user = {u}

LogInit ==
    /\ now = 0
    /\ msg = [m \in Message |-> Unsent]
    /\ last = None
    /\ read = [u \in User |-> None]
    /\ call = [q \in Call |-> Idle]

------------------------------------------------------------------------------
(* The orders of messages and the queries *)

\* "createdAt", then id, as SQL compares them.
Before(m, k) ==
    msg[m].at < msg[k].at \/ (msg[m].at = msg[k].at /\ m < k)

\* The createdAt that reaches JavaScript: whole milliseconds.
Ms(m) == msg[m].at \div PerMs

\* isMessageAfter
IsMessageAfter(m, k) == Ms(m) > Ms(k) \/ (Ms(m) = Ms(k) /\ m > k)

AfterStrict(c) == {m \in Sent : msg[m].at > Ms(c) * PerMs}  \* mutant: no tie-break

\* getMessages?after=c: the Date of c is compared with timestamps.
After(c) ==
    {m \in Sent : \/ msg[m].at > Ms(c) * PerMs
                  \/ msg[m].at = Ms(c) * PerMs /\ m > c}
Fetched(c) == IF c = None THEN Sent ELSE After(c)

\* unreadCountSql
Unread(u) ==
    {m \in Sent : msg[m].from # {u} /\ (read[u] = None \/ Before(read[u], m))}

------------------------------------------------------------------------------
(* sendMessage *)

SendBegin(q, u) ==
    /\ At(q, "idle")
    /\ call' = [call EXCEPT ![q] = [Idle EXCEPT !.pc = "send", !.user = {u}, !.at = now]]
    /\ UNCHANGED <<now, msg, last, read>>

\* FOR UPDATE on the chat, and on the participant of the caller.
LockFree == \A q \in Call : call[q].pc \notin {"sending", "marking"}

SendLock(q) ==
    /\ At(q, "send") /\ LockFree
    /\ call' = [call EXCEPT ![q].pc = "sending"]
    /\ UNCHANGED <<now, msg, last, read>>

\* INSERT of the message, UPDATE of the chat, COMMIT.
SendCommit(q, m) ==
    /\ At(q, "sending") /\ m \notin Sent
    /\ msg' = [msg EXCEPT ![m] = [from |-> call[q].user, at |-> call[q].at]]
    /\ last' = m
    /\ call' = [call EXCEPT ![q].pc = "sent", ![q].m = m]
    /\ UNCHANGED <<now, read>>

------------------------------------------------------------------------------
(* markRead *)

MarkBegin(q, u, m) ==
    /\ At(q, "idle") /\ m \in Sent
    /\ call' = [call EXCEPT ![q] = [Idle EXCEPT !.pc = "mark", !.user = {u}, !.m = m]]
    /\ UNCHANGED <<now, msg, last, read>>

MarkUnlocked(q) ==  \* mutant: the transaction does not lock
    /\ At(q, "mark")
    /\ \E u \in User :
          By(q, u) /\ call' = [call EXCEPT ![q].pc = "marking", ![q].cursor = read[u]]
    /\ UNCHANGED <<now, msg, last, read>>

\* The locks, then the SELECTs of the cursor and of the two messages.
MarkLock(q) ==
    /\ At(q, "mark") /\ LockFree
    /\ \E u \in User :
          By(q, u) /\ call' = [call EXCEPT ![q].pc = "marking", ![q].cursor = read[u]]
    /\ UNCHANGED <<now, msg, last, read>>

Advances(q) ==
    call[q].cursor = None \/ IsMessageAfter(call[q].m, call[q].cursor)

MarkCommit(q) ==
    /\ At(q, "marking")
    /\ IF Advances(q)
       THEN /\ read' = [u \in User |-> IF By(q, u) THEN call[q].m ELSE read[u]]
            /\ call' = [call EXCEPT ![q].pc = "marked"]
       ELSE UNCHANGED read /\ Return(q)
    /\ UNCHANGED <<now, msg, last>>

------------------------------------------------------------------------------
\* After the commit, message.created or message.read goes to the room of each
\* participant and the request is answered.
Publish(q) ==
    /\ call[q].pc \in {"sent", "marked"} /\ Return(q)
    /\ UNCHANGED <<now, msg, last, read>>

\* The request dies: an open transaction is rolled back, a committed message is
\* not published.
Abort(q) ==
    /\ ~At(q, "idle") /\ Return(q)
    /\ UNCHANGED <<now, msg, last, read>>

Tick ==
    /\ now < MaxTime /\ now' = now + 1
    /\ UNCHANGED <<msg, last, read, call>>

Request(q) ==
    \/ SendLock(q) \/ MarkLock(q) \/ MarkCommit(q)
    \/ \E m \in Message : SendCommit(q, m)

LogNext ==
    \/ \E q \in Call, u \in User : SendBegin(q, u)
    \/ \E q \in Call, u \in User, m \in Message : MarkBegin(q, u, m)
    \/ \E q \in Call : Request(q) \/ Publish(q) \/ Abort(q)
    \/ Tick

LogSpec == LogInit /\ [][LogNext]_logVars

------------------------------------------------------------------------------
(* Properties *)

\* Every variable has its type, cursors point to messages that exist, and only
\* one request at a time is under the lock of the chat.
GoodCall(r) ==
    /\ r.pc # "idle" => \E u \in User : r.user = {u}
    /\ r.pc \in {"send", "sending"} => r.m = None
    /\ r.pc \in {"sent", "mark", "marking", "marked"} => r.m \in Sent
    /\ r.cursor \in Sent \cup {None}
LogTypeOK ==
    /\ now \in Nat
    /\ msg \in [Message -> [from : SUBSET User, at : Nat]]
    /\ last \in Sent \cup {None}
    /\ read \in [User -> Sent \cup {None}]
    /\ call \in [Call -> [pc : {"idle", "send", "sending", "sent", "mark", "marking", "marked"},
                          user : SUBSET User, m : MaybeMessage, at : Nat,
                          cursor : MaybeMessage]]
    /\ \A q \in Call : GoodCall(call[q])
    /\ \A q, p \in Call : call[q].pc \in {"sending", "marking"}
                          /\ call[p].pc \in {"sending", "marking"} => q = p

\* The read cursor of a user only moves forward, in the order of the service,
\* however many markRead requests of his devices overlap or overtake each other.
Forward(c, d) == c # d => (d # None /\ (c = None \/ IsMessageAfter(d, c)))
CursorForward == [][\A u \in User : Forward(read[u], read'[u])]_logVars

\* A message that counts as read never counts as unread again: markRead 'does not
\* rewind an existing read cursor' (chats.service.spec.ts:411).  The service orders
\* two messages of one millisecond by their ids, the SQL of the unread count by
\* the microsecond.
ReadStaysRead ==
    [][\A u \in User : Unread(u)' \cap Sent \subseteq Unread(u)]_logVars

\* A client that holds c and asks for what comes after it gets every message
\* that SQL orders after c, although the bound it asks with has lost its
\* microseconds.
AfterComplete == \A c, m \in Sent : Before(c, m) => m \in After(c)
==============================================================================
