------------------------------ MODULE ChatScreen ------------------------------
(****************************************************************************)
(* The open chat on one device (chat_screen.dart) against the API of        *)
(* ChatLog: the initial load, the socket that pushes message.created, the   *)
(* catch-up fetch after every connection, sending, and marking as read.     *)
(* The other participant sends through the API alone.                       *)
(*                                                                          *)
(* The event loop of the app runs one callback at a time; HTTP answers and  *)
(* pushes arrive in any order.                                              *)
(****************************************************************************)
EXTENDS ChatLog

CONSTANTS
    me,        \* the participant whose screen it is
    MaxFaults  \* bound: lost connections, failed and unanswered requests

ASSUME ChatScreenAssumption == me \in User /\ MaxFaults \in Nat

VARIABLES
    screen,   \* _ChatScreenState
    socket,   \* the connection of ChatRealtimeService and what is on its way
    dropped,  \* history: messages a fault kept from the open screen
    missed,   \* history: messages published while the open screen was offline
    blind,    \* history: a fault since the last fetch began
    faults

screenVars == <<screen, socket, dropped, missed, blind, faults>>
allVars == <<logVars, screenVars>>

Closed == [open |-> FALSE, view |-> {}, fetch |-> "no", first |-> FALSE,
           after |-> None, answer |-> {}, again |-> FALSE, error |-> FALSE,
           sending |-> FALSE, reply |-> None]

\* _messages is sorted by createdAt, in milliseconds, then id.
LastOf(V) ==
    IF V = {} THEN None ELSE CHOOSE m \in V : \A k \in V \ {m} : IsMessageAfter(m, k)

Pushing == {call[q].m : q \in {p \in Call : At(p, "sent")}}

\* What the fetch under way brings.
Fetching == CASE screen.fetch = "asked" -> Fetched(screen.after)
              [] screen.fetch = "answered" -> screen.answer
              [] OTHER -> {}

\* What will still reach the open screen, unless a fault strikes or the socket is
\* offline when it is published.
OnItsWay ==
    socket.pushed \cup Pushing \cup Fetching
    \cup (IF screen.reply = None THEN {} ELSE {screen.reply})

Fault(lost) ==
    /\ faults < MaxFaults /\ faults' = faults + 1
    /\ dropped' = IF screen.open THEN dropped \cup lost ELSE dropped
    /\ missed' = missed
NoFault == UNCHANGED <<dropped, missed, faults>>

ScreenInit ==
    /\ LogInit
    /\ screen = Closed
    /\ socket = [online |-> FALSE, pushed |-> {}]
    /\ dropped = {} /\ missed = {} /\ blind = FALSE /\ faults = 0

------------------------------------------------------------------------------
(* _fetchMessages, _appendMessages, _markLatestMessageRead *)

\* The request of a fetch; from is what the catch-up asks for messages after.
Asking(s, from) ==
    [s EXCEPT !.fetch = "asked", !.first = FALSE, !.after = from, !.answer = {}]

\* With initial: true, all messages are asked for, and the error goes away.
AskingFirst(s) == [Asking(s, None) EXCEPT !.first = TRUE, !.error = FALSE]

\* While a fetch is under way, another one is only remembered.
FetchMessages(s, from) ==
    IF s.fetch # "no" THEN [s EXCEPT !.again = TRUE] ELSE Asking(s, from)

\* markRead is not awaited and its failure is ignored: the request may start
\* in any free slot, or be lost.
MarkLatest(V) ==
    \/ UNCHANGED logVars
    \/ V # {} /\ \E q \in Call : MarkBegin(q, me, LastOf(V))

\* initState
Open ==
    /\ ~screen.open
    /\ screen' = AskingFirst([Closed EXCEPT !.open = TRUE])
    /\ blind' = FALSE
    /\ UNCHANGED <<logVars, socket>> /\ NoFault

\* The API runs the query of the fetch.
Answer ==
    /\ screen.fetch = "asked"
    /\ screen' = [screen EXCEPT !.fetch = "answered", !.answer = Fetched(screen.after)]
    /\ UNCHANGED <<logVars, socket, blind>> /\ NoFault

\* The finally block: a fetch asked for meanwhile begins now.
Finally(s) ==
    IF s.again
    THEN Asking([s EXCEPT !.again = FALSE], LastOf(s.view))
    ELSE [s EXCEPT !.fetch = "no", !.first = FALSE, !.after = None, !.answer = {}]

FetchReplaces ==  \* mutant: the answer replaces the list
    /\ screen.fetch = "answered"
    /\ screen' = Finally([screen EXCEPT !.view = screen.answer, !.error = FALSE])
    /\ blind' = (blind /\ ~screen.again)
    /\ UNCHANGED <<logVars, socket>> /\ NoFault

FetchDoneOnce ==  \* mutant: the fetch asked for meanwhile is forgotten
    /\ screen.fetch = "answered"
    /\ screen' = Finally([screen EXCEPT !.view = @ \cup screen.answer,
                                        !.again = FALSE, !.error = FALSE])
    /\ UNCHANGED <<logVars, socket, blind>> /\ NoFault

FetchDone ==
    /\ screen.fetch = "answered"
    /\ LET view == screen.view \cup screen.answer
       IN  /\ screen' = Finally([screen EXCEPT !.view = view, !.error = FALSE])
           /\ IF screen.answer = {} THEN UNCHANGED logVars ELSE MarkLatest(view)
    /\ blind' = (blind /\ ~screen.again)
    /\ UNCHANGED socket /\ NoFault

\* The request fails; only a first load shows an error, and its Retry button.
FetchFail ==
    /\ screen.fetch # "no"
    /\ Fault(Fetching)
    /\ screen' = Finally([screen EXCEPT !.error = @ \/ screen.first])
    /\ blind' = ~screen.again
    /\ UNCHANGED <<logVars, socket>>

Retry ==
    /\ screen.error
    /\ screen' = IF screen.fetch = "no" THEN AskingFirst(screen)
                 ELSE [screen EXCEPT !.again = TRUE]
    /\ blind' = (blind /\ screen.fetch # "no")
    /\ UNCHANGED <<logVars, socket>> /\ NoFault

------------------------------------------------------------------------------
(* The socket *)

Connect ==
    /\ ~socket.online
    /\ socket' = [socket EXCEPT !.online = TRUE]
    /\ screen' = IF screen.open THEN FetchMessages(screen, LastOf(screen.view))
                 ELSE screen
    /\ blind' = (blind /\ screen.fetch # "no")
    /\ UNCHANGED logVars /\ NoFault

Disconnect ==
    /\ socket.online
    /\ Fault(socket.pushed)
    /\ socket' = [online |-> FALSE, pushed |-> {}]
    /\ UNCHANGED <<logVars, screen, blind>>

\* _onRealtimeMessage
Receive(m) ==
    /\ m \in socket.pushed
    /\ socket' = [socket EXCEPT !.pushed = @ \ {m}]
    /\ screen' = [screen EXCEPT !.view = IF screen.open THEN @ \cup {m} ELSE @]
    /\ IF screen.open /\ m \notin screen.view
       THEN MarkLatest(screen.view \cup {m}) ELSE UNCHANGED logVars
    /\ UNCHANGED blind /\ NoFault

\* The API publishes: a device without a connection gets nothing.
PublishTo(q) ==
    /\ Publish(q)
    /\ LET new == At(q, "sent")
       IN  /\ socket' = [socket EXCEPT !.pushed =
                            IF new /\ socket.online THEN @ \cup {call[q].m} ELSE @]
           /\ screen' = [screen EXCEPT !.reply =
                            IF new /\ By(q, me) THEN call[q].m ELSE @]
           /\ missed' = IF new /\ ~socket.online /\ ~By(q, me) /\ screen.open
                        THEN missed \cup {call[q].m} ELSE missed
    /\ UNCHANGED <<dropped, blind, faults>>

------------------------------------------------------------------------------
(* Sending *)

SendAgain(q) ==  \* mutant: does not wait for the answer to the last one
    /\ screen.open
    /\ SendBegin(q, me)
    /\ screen' = [screen EXCEPT !.sending = TRUE]
    /\ UNCHANGED <<socket, blind>> /\ NoFault

\* _send: one message at a time.
Send(q) ==
    /\ screen.open /\ ~screen.sending
    /\ SendBegin(q, me)
    /\ screen' = [screen EXCEPT !.sending = TRUE]
    /\ UNCHANGED <<socket, blind>> /\ NoFault

SendDone ==
    /\ screen.reply # None
    /\ screen' = [screen EXCEPT !.view = @ \cup {screen.reply},
                                !.sending = FALSE, !.reply = None]
    /\ UNCHANGED <<logVars, socket, blind>> /\ NoFault

\* A request of the device or of the peer dies on the server, or its answer is
\* lost on the way back.
Die(q) ==
    /\ Abort(q)
    /\ Fault(IF At(q, "sent") THEN {call[q].m} ELSE {})
    /\ screen' = [screen EXCEPT !.sending =
                     @ /\ ~(By(q, me) /\ call[q].pc \in {"send", "sending", "sent"})]
    /\ blind' = (blind \/ At(q, "sent"))
    /\ UNCHANGED socket

ReplyLost ==
    /\ screen.reply # None
    /\ Fault({screen.reply})
    /\ screen' = [screen EXCEPT !.sending = FALSE, !.reply = None]
    /\ blind' = TRUE
    /\ UNCHANGED <<logVars, socket>>

Server ==
    \/ \E q \in Call, u \in User \ {me} : SendBegin(q, u)
    \/ \E q \in Call : Request(q)
    \/ Tick

ScreenNext ==
    \/ Server /\ UNCHANGED screenVars
    \/ Open \/ Answer \/ FetchDone \/ FetchFail \/ Retry
    \/ Connect \/ Disconnect \/ \E m \in Message : Receive(m)
    \/ SendDone \/ ReplyLost
    \/ \E q \in Call : PublishTo(q) \/ Send(q) \/ Die(q)

ScreenSpec == ScreenInit /\ [][ScreenNext]_allVars

------------------------------------------------------------------------------
(* Properties *)

\* Every variable has its type; the screen holds only messages that exist.
ScreenTypeOK ==
    /\ screen.view \subseteq Sent /\ screen.answer \subseteq Sent
    /\ screen.fetch \in {"no", "asked", "answered"}
    /\ screen.after \in Sent \cup {None} /\ screen.reply \in Sent \cup {None}
    /\ screen.reply # None => screen.sending
    /\ ~screen.open => screen = Closed
    /\ socket.pushed \subseteq Sent
    /\ ~socket.online => socket.pushed = {}
    /\ dropped \subseteq Sent /\ missed \subseteq Sent

\* However the first load, the pushes, the answers to its own sends and the catch-up
\* overtake one another, a committed message that is neither on the screen nor on its
\* way to it was lost by a fault, or was published while the socket was offline: only
\* for those does the screen depend on what the catch-up asks for.
EveryMessageShown ==
    screen.open => Sent \subseteq screen.view \cup OnItsWay \cup dropped \cup missed

Quiet ==
    /\ screen.open /\ socket.online
    /\ screen.fetch = "no" /\ ~screen.sending
    /\ OnItsWay = {}

\* After the catch-up no message is missing that comes after the newest one on
\* the screen, also when the connection came back during another fetch.
NothingNewerMissing ==
    (Quiet /\ ~blind) => Fetched(LastOf(screen.view)) \subseteq screen.view

\* The screen 'catches up realtime messages' (chat_screen_test.dart:110): once it
\* is connected and its fetches have succeeded, every message is shown.  It asks
\* for what comes after its newest message, also when an older one is missing.
CaughtUp == (Quiet /\ ~blind) => Sent \subseteq screen.view
==============================================================================
