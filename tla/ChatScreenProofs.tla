--------------------------- MODULE ChatScreenProofs ---------------------------
(****************************************************************************)
(* Proofs about ChatScreen, for any number of messages, of participants and *)
(* of requests under way, any resolution of the timestamps and any number   *)
(* of faults.  The screen is one client of the API: what ChatLogProofs      *)
(* shows of the log holds here because a step of the screen is a step of    *)
(* the log or leaves it alone (LogOfStep).                                  *)
(****************************************************************************)
EXTENDS ChatScreen, ChatLogProofs

------------------------------------------------------------------------------
(* The screen is a client of the log *)

LEMMA LogOfStep == [ScreenNext]_allVars => [LogNext]_logVars
<1> SUFFICES ASSUME [ScreenNext]_allVars PROVE [LogNext]_logVars
  OBVIOUS
<1>0. me \in User
  BY ChatScreenAssumption
<1>1. ASSUME NEW V, MarkLatest(V) PROVE [LogNext]_logVars
  <2>1. ASSUME NEW q \in Call, NEW m, MarkBegin(q, me, m) PROVE LogNext
    <3>1. m \in Message
      BY <2>1 DEF MarkBegin, Sent
    <3> QED BY <1>0, <2>1, <3>1 DEF LogNext
  <2> QED BY <1>1, <2>1 DEF MarkLatest
<1>2. CASE Server
  BY <1>2 DEF Server, LogNext
<1>3. CASE Open \/ Answer \/ FetchFail \/ Retry \/ Connect \/ Disconnect \/ SendDone \/ ReplyLost
  BY <1>3 DEF Open, Answer, FetchFail, Retry, Connect, Disconnect, SendDone, ReplyLost
<1>4. CASE FetchDone
  BY <1>1, <1>4 DEF FetchDone
<1>5. ASSUME NEW m \in Message, Receive(m) PROVE [LogNext]_logVars
  BY <1>1, <1>5 DEF Receive
<1>6. ASSUME NEW q \in Call, PublishTo(q) \/ Send(q) \/ Die(q) PROVE LogNext
  BY <1>0, <1>6 DEF PublishTo, Send, Die, LogNext
<1>7. CASE UNCHANGED allVars
  BY <1>7 DEF allVars
<1> QED BY <1>2, <1>3, <1>4, <1>5, <1>6, <1>7 DEF ScreenNext

\* Whatever one device does, with its fetches, its marks and its lost connections,
\* is a behaviour of the log that ChatLog describes.
THEOREM ScreenImplementsLog == ScreenSpec => LogSpec
<1>1. ScreenInit => LogInit
  BY DEF ScreenInit
<1> QED BY <1>1, LogOfStep, PTL DEF ScreenSpec, LogSpec

------------------------------------------------------------------------------
(* The newest message *)

IsTop(m, V) == m \in V /\ \A k \in V \ {m} : IsMessageAfter(m, k)

\* The set of messages is finite in every state; what the proofs use of it is that
\* each of its parts has a newest message.
Tops == \A V \in SUBSET Sent : V # {} => \E m \in V : IsTop(m, V)

LEMMA SentTypes ==
    ASSUME LogTypeOK, NEW m \in Sent
    PROVE  m \in Nat /\ m # None /\ m \in Message /\ msg[m].at \in Nat /\ Ms(m) \in Nat
<1>1. m \in Message /\ m \in Nat /\ m # None /\ msg[m].at \in Nat
  BY ChatLogAssumption DEF Sent, LogTypeOK, None
<1>2. Ms(m) \in Nat
  <2>1. PerMs \in Nat \ {0} /\ msg[m].at \in Nat
    BY <1>1, ChatLogAssumption
  <2> QED BY <2>1, Z3 DEF Ms
<1> QED BY <1>1, <1>2

LEMMA AfterTotal ==
    ASSUME LogTypeOK, NEW m \in Sent, NEW k \in Sent
    PROVE  /\ m = k \/ IsMessageAfter(m, k) \/ IsMessageAfter(k, m)
           /\ ~(IsMessageAfter(m, k) /\ IsMessageAfter(k, m))
  BY SentTypes DEF IsMessageAfter

LEMMA AfterTransitive ==
    ASSUME LogTypeOK, NEW m \in Sent, NEW k \in Sent, NEW n \in Sent,
           IsMessageAfter(m, k), IsMessageAfter(k, n)
    PROVE  IsMessageAfter(m, n)
  BY SentTypes DEF IsMessageAfter

\* LastOf is the newest message of a list that has one.
LEMMA LastIs ==
    ASSUME LogTypeOK, Tops, NEW V \in SUBSET Sent
    PROVE  /\ V = {} => LastOf(V) = None
           /\ V # {} => IsTop(LastOf(V), V)
           /\ LastOf(V) \in V \cup {None}
<1>1. CASE V = {}
  BY <1>1 DEF LastOf
<1>2. CASE V # {}
  <2>1. \E m \in V : \A k \in V \ {m} : IsMessageAfter(m, k)
    BY <1>2 DEF Tops, IsTop
  <2>2. LastOf(V) = CHOOSE m \in V : \A k \in V \ {m} : IsMessageAfter(m, k)
    BY <1>2 DEF LastOf
  <2>3. IsTop(LastOf(V), V)
    BY <2>1, <2>2, Zenon DEF IsTop
  <2> QED BY <1>2, <2>3 DEF IsTop
<1> QED BY <1>1, <1>2

\* What comes after a newer message comes after an older one.
LEMMA FetchedShrinks ==
    ASSUME LogTypeOK, Tops, NEW W \in SUBSET Sent, NEW a \in W \cup {None}
    PROVE  Fetched(LastOf(W)) \subseteq Fetched(a)
<1>1. CASE a = None
  BY <1>1 DEF Fetched, After
<1>2. CASE a # None
  <2> DEFINE w == LastOf(W)
  <2>1. a \in W /\ W # {}
    BY <1>2
  <2>2. IsTop(w, W)
    BY <2>1, LastIs
  <2>3. w \in Sent /\ a \in Sent /\ w # None
    BY <2>1, <2>2, SentTypes DEF IsTop
  <2>4. w = a \/ IsMessageAfter(w, a)
    BY <2>1, <2>2 DEF IsTop
  <2> HIDE DEF w
  <2>5. Ms(w) \in Nat /\ Ms(a) \in Nat /\ w \in Nat /\ a \in Nat /\ PerMs \in Nat
    BY <2>3, SentTypes, ChatLogAssumption
  <2>6. Ms(w) > Ms(a) => Ms(w) * PerMs > Ms(a) * PerMs
    <3>1. PerMs > 0
      BY <2>5, ChatLogAssumption
    <3> QED BY <2>5, <3>1, Z3
  <2>7. Ms(w) * PerMs \in Nat /\ Ms(a) * PerMs \in Nat
    BY <2>5, Z3
  <2>8. Ms(w) > Ms(a) \/ (Ms(w) = Ms(a) /\ w >= a)
    BY <2>4, <2>5 DEF IsMessageAfter
  <2>9. ASSUME NEW m \in After(w) PROVE m \in After(a)
    <3>1. m \in Sent /\ m \in Nat /\ msg[m].at \in Nat
      BY <2>9, SentTypes DEF After
    <3> DEFINE x == Ms(w) * PerMs
               y == Ms(a) * PerMs
               t == msg[m].at
    <3>2. t > x \/ (t = x /\ m > w)
      BY <2>9 DEF After
    <3>3. x > y \/ (x = y /\ w >= a)
      BY <2>5, <2>6, <2>8
    <3>4. t \in Nat /\ x \in Nat /\ y \in Nat
      BY <2>7, <3>1
    <3> HIDE DEF x, y, t
    <3>5. t > y \/ (t = y /\ m > a)
      BY <2>5, <3>1, <3>2, <3>3, <3>4
    <3> QED BY <3>1, <3>5 DEF After, x, y, t
  <2> QED BY <1>2, <2>3, <2>9 DEF Fetched, w
<1> QED BY <1>1, <1>2

Shrinks == \A W \in SUBSET Sent : \A a \in W \cup {None} : Fetched(LastOf(W)) \subseteq Fetched(a)

LEMMA ShrinksHere == LogTypeOK /\ Tops => Shrinks
  BY FetchedShrinks DEF Shrinks

LEMMA ShrinksThere == LogTypeOK' /\ Tops' => Shrinks'
  BY ShrinksHere, PTL

\* A step of the log adds messages and changes none.
LEMMA SentGrows ==
    ASSUME LogTypeOK, [LogNext]_logVars
    PROVE  /\ Sent \subseteq Sent'
           /\ \A m \in Sent : msg'[m] = msg[m]
           /\ \E m : Sent' \subseteq Sent \cup {m}
<1>0. ASSUME msg' = msg PROVE Sent' = Sent
  BY <1>0 DEF Sent
<1>1. ASSUME NEW q \in Call, NEW m \in Message, SendCommit(q, m)
      PROVE  Sent \subseteq Sent' /\ Sent' \subseteq Sent \cup {m} /\ \A k \in Sent : msg'[k] = msg[k]
  BY <1>1 DEF SendCommit, Sent, LogTypeOK
<1>2. CASE msg' # msg
  <2>1. \E q \in Call, m \in Message : SendCommit(q, m)
    BY <1>2 DEF LogNext, logVars, SendBegin, MarkBegin, Request, SendLock, MarkLock, MarkCommit,
                Publish, Abort, Tick
  <2> QED BY <1>1, <2>1
<1>3. CASE msg' = msg
  BY <1>0, <1>3
<1> QED BY <1>2, <1>3

LEMMA TopsStep == LogTypeOK /\ LogTypeOK' /\ Tops /\ [LogNext]_logVars => Tops'
<1> SUFFICES ASSUME LogTypeOK, LogTypeOK', Tops, [LogNext]_logVars,
                    NEW V \in SUBSET Sent', V # {}
             PROVE  \E m \in V : IsTop(m, V)'
  BY DEF Tops
<1>1. PICK n : Sent' \subseteq Sent \cup {n}
  BY SentGrows
<1>2. \A m, k \in Sent : IsMessageAfter(m, k)' <=> IsMessageAfter(m, k)
  BY SentGrows DEF IsMessageAfter, Ms
<1>3. Sent \subseteq Sent'
  BY SentGrows
<1> DEFINE W == V \ {n}
<1>4. W \in SUBSET Sent
  BY <1>1
<1>5. CASE W = {}
  BY <1>5 DEF IsTop
<1>6. CASE W # {} /\ n \notin V
  <2>1. W = V
    BY <1>6
  <2>2. PICK m \in W : IsTop(m, W)
    BY <1>4, <1>6 DEF Tops
  <2>3. IsTop(m, V)'
    BY <1>2, <1>4, <2>1, <2>2 DEF IsTop
  <2> QED BY <2>1, <2>3
<1>7. CASE W # {} /\ n \in V
  <2>1. CASE n \in Sent
    <3>1. V \in SUBSET Sent
      BY <1>1, <2>1
    <3>2. PICK m \in V : IsTop(m, V)
      BY <3>1 DEF Tops
    <3>3. IsTop(m, V)'
      BY <1>2, <3>1, <3>2 DEF IsTop
    <3> QED BY <3>3
  <2>2. CASE n \notin Sent
    <3>1. PICK m \in W : IsTop(m, W)
      BY <1>4, <1>7 DEF Tops
    <3>2. \A k \in W : k = m \/ IsMessageAfter(m, k)'
      BY <1>2, <1>4, <3>1 DEF IsTop
    <3>3. m \in Sent' /\ n \in Sent' /\ \A k \in W : k \in Sent'
      BY <1>3, <1>4, <1>7, <3>1
    <3>4. m # n /\ (IsMessageAfter(m, n)' \/ IsMessageAfter(n, m)')
      <4>1. m # n
        OBVIOUS
      <4>2. \A x \in Sent' : x \in Nat /\ Ms(x)' \in Nat
        <5> TAKE x \in Sent'
        <5>1. x \in Nat /\ msg'[x].at \in Nat
          BY ChatLogAssumption DEF Sent, LogTypeOK
        <5>2. PerMs \in Nat \ {0}
          BY ChatLogAssumption
        <5> QED BY <5>1, <5>2, Z3 DEF Ms
      <4> QED BY <3>3, <4>1, <4>2 DEF IsMessageAfter
    <3>5. CASE IsMessageAfter(m, n)'
      <4>1. IsTop(m, V)'
        BY <3>1, <3>2, <3>5 DEF IsTop
      <4> QED BY <4>1
    <3>6. CASE IsMessageAfter(n, m)'
      <4>1. ASSUME NEW k \in W PROVE IsMessageAfter(n, k)'
        <5>1. k = m \/ IsMessageAfter(m, k)'
          BY <3>2
        <5>2. \A x \in Sent' : x \in Nat /\ Ms(x)' \in Nat
          <6> TAKE x \in Sent'
          <6>1. x \in Nat /\ msg'[x].at \in Nat
            BY ChatLogAssumption DEF Sent, LogTypeOK
          <6>2. PerMs \in Nat \ {0}
            BY ChatLogAssumption
          <6> QED BY <6>1, <6>2, Z3 DEF Ms
        <5>3. k \in Sent' /\ m \in Sent' /\ n \in Sent'
          BY <3>3
        <5> QED BY <3>6, <5>1, <5>2, <5>3 DEF IsMessageAfter
      <4>2. IsTop(n, V)'
        BY <1>7, <4>1 DEF IsTop
      <4> QED BY <1>7, <4>2
    <3> QED BY <3>4, <3>5, <3>6
  <2> QED BY <2>1, <2>2
<1> QED BY <1>5, <1>6, <1>7

\* What LastOf and Fetched make of messages stays the same while none is added.
LEMMA SameQueries ==
    ASSUME LogTypeOK, Tops, msg' = msg
    PROVE  /\ Sent' = Sent
           /\ \A c : Fetched(c)' = Fetched(c)
           /\ \A V \in SUBSET Sent : LastOf(V)' = LastOf(V)
  BY DEF Sent, Fetched, After, Ms, LastOf, IsMessageAfter

\* A message that is added may be new to what was asked for, and only it is.
LEMMA MoreFetched ==
    ASSUME LogTypeOK, [LogNext]_logVars, NEW c \in Sent \cup {None}
    PROVE  /\ Fetched(c) \subseteq Fetched(c)'
           /\ \A m \in Sent : m \in Fetched(c)' => m \in Fetched(c)
<1>1. \A m \in Sent : msg'[m] = msg[m] /\ m \in Sent'
  BY SentGrows
<1>2. CASE c = None
  BY <1>1, <1>2 DEF Fetched
<1>3. CASE c # None
  <2>1. c \in Sent /\ Ms(c)' = Ms(c)
    BY <1>1, <1>3 DEF Ms
  <2> QED BY <1>1, <1>3, <2>1 DEF Fetched, After
<1> QED BY <1>2, <1>3

------------------------------------------------------------------------------
(* The inductive invariant *)

Screen == [open : BOOLEAN, view : SUBSET Message, fetch : {"no", "asked", "answered"},
           first : BOOLEAN, after : MaybeMessage, answer : SUBSET Message,
           again : BOOLEAN, error : BOOLEAN, sending : BOOLEAN, reply : MaybeMessage]
Shape == /\ screen \in Screen /\ blind \in BOOLEAN
         /\ socket \in [online : BOOLEAN, pushed : SUBSET Message]

\* The device waits for the answer to one send at a time.
Sending(q) == By(q, me) /\ call[q].pc \in {"send", "sending", "sent"}
OneSend ==
    \A p \in Call : Sending(p) =>
        screen.sending /\ screen.reply = None /\ \A q \in Call : Sending(q) => q = p

\* A catch-up asks for what comes after a message of the list, and a fetch is
\* remembered only while another is under way.
Asked == /\ screen.fetch = "no" => ~screen.again
         /\ screen.after \in screen.view \cup {None}

\* What is newer than the newest message of the list is in it or on its way, unless
\* the connection is down, a fetch is still to come, or a fault hid something.
Fresh == Fetched(LastOf(screen.view)) \subseteq screen.view \cup OnItsWay
CaughtUpOn ==
    (screen.open /\ socket.online /\ ~blind /\ ~screen.again) => Fresh

Base == IInv /\ Tops /\ Shape /\ ScreenTypeOK /\ OneSend /\ Asked
ScreenInv == Base /\ EveryMessageShown /\ CaughtUpOn

\* What a step of the open screen owes to the two properties: no message on the
\* screen or on its way to it gets lost but one that dropped or missed remembers, and
\* then the screen knows that it has to fetch, or is blind.
Excused == blind \/ ~socket.online \/ screen.again \/ Fresh
Reach == screen.view \cup OnItsWay
KeepsReach ==
    /\ screen.open
    /\ \A m \in Sent' : m \notin Sent => m \in Reach'
    /\ \A m \in Sent \cap Reach : m \in Reach' \/ (m \in (dropped \cup missed)' /\ Excused')
    /\ dropped \subseteq dropped' /\ missed \subseteq missed' /\ screen.view \subseteq screen'.view
    /\ Excused' \/ (socket.online /\ ~blind /\ ~screen.again)

ReachIs ==
    \A m : m \in Reach <=>
        \/ m \in screen.view \/ m \in socket.pushed \/ m \in Pushing
        \/ screen.reply # None /\ m = screen.reply
        \/ screen.fetch = "asked" /\ m \in Fetched(screen.after)
        \/ screen.fetch = "answered" /\ m \in screen.answer

LEMMA ReachHere == ReachIs
<1> DEFINE sure == socket.pushed \cup Pushing
                      \cup (IF screen.reply = None THEN {} ELSE {screen.reply})
<1>1. /\ screen.fetch = "asked" => OnItsWay = sure \cup Fetched(screen.after)
      /\ screen.fetch = "answered" => OnItsWay = sure \cup screen.answer
      /\ screen.fetch \notin {"asked", "answered"} => OnItsWay = sure
  BY DEF OnItsWay, Fetching
<1> QED BY <1>1 DEF Reach, ReachIs

LEMMA ReachThere == ReachIs'
  BY ReachHere, PTL

LEMMA KeepsBoth ==
    ASSUME ScreenInv, Base', [LogNext]_logVars, KeepsReach
    PROVE  ScreenInv'
<1>0. /\ LogTypeOK /\ LogTypeOK' /\ Tops /\ Tops'
      /\ screen.view \subseteq Sent /\ screen'.view \subseteq Sent'
  BY DEF ScreenInv, Base, IInv, ScreenTypeOK
<1>1. EveryMessageShown'
  BY DEF KeepsReach, ScreenInv, EveryMessageShown, Reach
<1>2. CaughtUpOn'
  <2> SUFFICES ASSUME ~Excused', NEW m \in Fetched(LastOf(screen.view))' PROVE m \in Reach'
    BY DEF CaughtUpOn, Excused, Fresh, Reach
  <2>1. m \in Sent'
    BY DEF Fetched, After
  <2>2. CASE m \notin Sent
    BY <2>1, <2>2 DEF KeepsReach
  <2>3. CASE m \in Sent
    <3>0. PICK l : l = LastOf(screen.view)
      OBVIOUS
    <3>1. l \in screen.view \cup {None}
      BY <1>0, <3>0, LastIs
    <3>2. l \in screen'.view \cup {None}
      BY <3>1 DEF KeepsReach
    <3>3. m \in Fetched(l)'
      <4>1. Fetched(LastOf(screen.view))' \subseteq Fetched(l)'
        BY <1>0, <3>2, ShrinksThere DEF Shrinks
      <4> QED BY <4>1
    <3>4. l \in Sent \cup {None}
      BY <1>0, <3>1
    <3>5. m \in Fetched(l)
      BY <1>0, <2>3, <3>3, <3>4, MoreFetched
    <3>6. CaughtUpOn /\ screen.open /\ socket.online /\ ~blind /\ ~screen.again
      BY DEF KeepsReach, ScreenInv
    <3>7. m \in Reach
      BY <3>0, <3>5, <3>6 DEF CaughtUpOn, Fresh, Reach
    <3> QED BY <2>3, <3>7 DEF KeepsReach
  <2> QED BY <2>2, <2>3
<1> QED BY <1>1, <1>2 DEF ScreenInv

------------------------------------------------------------------------------
(* What the steps make of the screen *)

\* The fields that a fetch does not touch.
SameList(s, t) ==
    /\ t.open = s.open /\ t.view = s.view /\ t.sending = s.sending /\ t.reply = s.reply

LEMMA AskingIs ==
    ASSUME NEW s \in Screen, NEW c \in MaybeMessage
    PROVE  LET t == Asking(s, c) IN
           /\ t \in Screen /\ SameList(s, t)
           /\ t.fetch = "asked" /\ t.after = c /\ t.again = s.again
<1> DEFINE t == Asking(s, c)
<1>1. t = [s EXCEPT !.fetch = "asked", !.first = FALSE, !.after = c, !.answer = {}]
  BY DEF Asking
<1>2. t \in Screen
  BY <1>1 DEF Screen
<1>3. SameList(s, t) /\ t.fetch = "asked" /\ t.after = c /\ t.again = s.again
  BY <1>1 DEF Screen, SameList
<1> QED BY <1>2, <1>3

LEMMA AskingFirstIs ==
    ASSUME NEW s \in Screen
    PROVE  LET t == AskingFirst(s) IN
           /\ t \in Screen /\ SameList(s, t)
           /\ t.fetch = "asked" /\ t.after = None /\ t.again = s.again
<1> DEFINE a == Asking(s, None)
           t == AskingFirst(s)
<1>1. a \in Screen /\ SameList(s, a) /\ a.fetch = "asked" /\ a.after = None /\ a.again = s.again
  BY AskingIs DEF MaybeMessage
<1>2. t = [a EXCEPT !.first = TRUE, !.error = FALSE]
  BY DEF AskingFirst
<1> HIDE DEF a
<1>3. t \in Screen
  BY <1>1, <1>2 DEF Screen
<1>4. SameList(s, t) /\ t.fetch = "asked" /\ t.after = None /\ t.again = s.again
  BY <1>1, <1>2 DEF Screen, SameList
<1> QED BY <1>3, <1>4

LEMMA FinallyIs ==
    ASSUME NEW s \in Screen, LastOf(s.view) \in MaybeMessage
    PROVE  LET t == Finally(s) IN
           /\ t \in Screen /\ SameList(s, t) /\ ~t.again
           /\ s.again => t.fetch = "asked" /\ t.after = LastOf(s.view)
           /\ ~s.again => t.fetch = "no" /\ t.after = None
<1> DEFINE t == Finally(s)
<1>1. CASE s.again
  <2> DEFINE r == [s EXCEPT !.again = FALSE]
  <2>1. r \in Screen /\ SameList(s, r) /\ ~r.again
    BY DEF Screen, SameList
  <2>2. t = Asking(r, LastOf(s.view))
    BY <1>1 DEF Finally
  <2> HIDE DEF r
  <2>3. t \in Screen /\ SameList(r, t) /\ t.again = r.again
        /\ t.fetch = "asked" /\ t.after = LastOf(s.view)
    BY <2>1, <2>2, AskingIs
  <2> QED BY <1>1, <2>1, <2>3 DEF SameList
<1>2. CASE ~s.again
  <2>1. t = [s EXCEPT !.fetch = "no", !.first = FALSE, !.after = None, !.answer = {}]
    BY <1>2 DEF Finally
  <2>2. t \in Screen
    BY <2>1 DEF Screen, MaybeMessage
  <2>3. SameList(s, t) /\ ~t.again /\ t.fetch = "no" /\ t.after = None
    BY <1>2, <2>1 DEF Screen, SameList
  <2> QED BY <1>2, <2>2, <2>3
<1> QED BY <1>1, <1>2

\* A step that adds no message, publishes none and starts no send.
QuietLog == /\ msg' = msg /\ Pushing' = Pushing
            /\ \A q \in Call : Sending(q)' => Sending(q)

LEMMA QuietMark ==
    ASSUME LogTypeOK, NEW V, UNCHANGED logVars \/ MarkLatest(V)
    PROVE  QuietLog
<1>1. CASE UNCHANGED logVars
  BY <1>1 DEF logVars, QuietLog, Pushing, Sending, At, By
<1>2. ASSUME NEW q \in Call, NEW m, MarkBegin(q, me, m) PROVE QuietLog
  <2>1. /\ msg' = msg /\ call[q].pc = "idle" /\ call'[q].pc = "mark"
        /\ \A p \in Call : p # q => call'[p] = call[p]
    BY <1>2 DEF MarkBegin, At, LogTypeOK, Idle
  <2>2. Pushing' = Pushing
    BY <2>1 DEF Pushing, At
  <2> QED BY <2>1, <2>2 DEF QuietLog, Sending, By
<1> QED BY <1>1, <1>2 DEF MarkLatest

ScreenBase == Shape /\ ScreenTypeOK /\ OneSend /\ Asked

\* The facts every step starts from.
Known ==
    /\ LogTypeOK /\ Tops /\ screen \in Screen /\ blind \in BOOLEAN
    /\ socket \in [online : BOOLEAN, pushed : SUBSET Message]
    /\ screen.view \in SUBSET Sent /\ Sent \subseteq Message
    /\ LastOf(screen.view) \in screen.view \cup {None}
    /\ LastOf(screen.view) \in MaybeMessage

LEMMA KnownHere == ScreenInv => Known
<1> SUFFICES ASSUME ScreenInv PROVE Known
  OBVIOUS
<1>1. LogTypeOK /\ Tops /\ Shape /\ screen.view \subseteq Sent
  BY DEF ScreenInv, Base, IInv, ScreenTypeOK
<1>2. Sent \subseteq Message
  BY DEF Sent
<1> QED BY <1>1, <1>2, LastIs DEF Known, Shape, MaybeMessage

LEMMA QuietSends ==
    ASSUME ScreenInv, QuietLog, screen'.sending = screen.sending, screen'.reply = screen.reply
    PROVE  OneSend'
  BY DEF ScreenInv, Base, OneSend, QuietLog

\* A fetch that has just been asked for, after the newest message or for all, will
\* bring whatever is newer than the newest.
LEMMA FreshAsk ==
    ASSUME Known, QuietLog, screen'.view \subseteq Sent, screen'.fetch = "asked",
           screen'.after \in {None, LastOf(screen'.view)}
    PROVE  Fresh'
<1>0. PICK V \in SUBSET Sent : V = screen'.view
  OBVIOUS
<1>1. PICK c : c = screen'.after
  OBVIOUS
<1>2. LastOf(V)' = LastOf(V)
  BY <1>0, SameQueries DEF Known, QuietLog
<1>3. Fetched(c)' \subseteq Reach'
  BY <1>1, ReachThere DEF ReachIs
<1>4. CASE c = None
  BY <1>0, <1>3, <1>4 DEF Fetched, After, Fresh, Reach
<1>5. CASE c = LastOf(V)
  <2>1. PICK d : d = LastOf(V)'
    OBVIOUS
  <2>2. d = c /\ Fetched(d)' = Fetched(LastOf(screen.view))'
    BY <1>0, <1>2, <1>5, <2>1
  <2> QED BY <1>3, <2>2 DEF Fresh, Reach
<1> QED BY <1>0, <1>1, <1>4, <1>5

LEMMA AnswerKeeps ==
    ASSUME ScreenInv, Answer
    PROVE  ScreenBase' /\ KeepsReach
<1>0. Known /\ ScreenTypeOK /\ OneSend /\ Asked
  BY KnownHere DEF ScreenInv, Base
<1>1. QuietLog
  BY <1>0, QuietMark DEF Answer, Known
<1>2. Sent' = Sent /\ Fetched(screen.after) \subseteq Sent
  BY <1>0, <1>1, SameQueries DEF Known, QuietLog, Fetched, After
<1>3. /\ screen' \in Screen /\ SameList(screen, screen') /\ screen'.fetch = "answered"
      /\ screen'.answer = Fetched(screen.after) /\ screen'.after = screen.after
      /\ screen'.again = screen.again /\ screen.open
  <2>1. screen.fetch = "asked" /\ screen.open
    BY <1>0 DEF Answer, ScreenTypeOK, Closed
  <2>2. PICK F \in SUBSET Message : F = Fetched(screen.after)
    BY <1>0, <1>2 DEF Known
  <2>3. screen' = [screen EXCEPT !.fetch = "answered", !.answer = F]
    BY <2>2 DEF Answer
  <2>4. screen' \in Screen
    BY <1>0, <2>3 DEF Known, Screen
  <2>5. /\ SameList(screen, screen') /\ screen'.fetch = "answered" /\ screen'.answer = F
        /\ screen'.after = screen.after /\ screen'.again = screen.again
    BY <1>0, <2>3 DEF Known, Screen, SameList
  <2> QED BY <2>1, <2>2, <2>4, <2>5
<1>4. socket' = socket /\ blind' = blind /\ dropped' = dropped /\ missed' = missed /\ screen.fetch = "asked"
  BY DEF Answer, NoFault
<1>5. OneSend'
  BY <1>1, <1>3, QuietSends DEF SameList
<1>6. ScreenBase'
  BY <1>0, <1>2, <1>3, <1>4, <1>5 DEF ScreenBase, Shape, Known, ScreenTypeOK, Asked, SameList
<1>7. \A m : m \in Reach => m \in Reach'
  <2>1. \A m : m \in Reach' <=>
          \/ m \in screen.view \/ m \in socket.pushed \/ m \in Pushing
          \/ screen.reply # None /\ m = screen.reply
          \/ m \in Fetched(screen.after)
    BY <1>1, <1>3, <1>4, ReachThere DEF ReachIs, SameList, QuietLog
  <2> QED BY <1>4, <2>1, ReachHere DEF ReachIs
<1>8. Excused' \/ (socket.online /\ ~blind /\ ~screen.again)
  BY <1>3, <1>4 DEF Excused
<1> QED BY <1>2, <1>3, <1>4, <1>6, <1>7, <1>8 DEF KeepsReach, SameList

LEMMA FetchDoneKeeps ==
    ASSUME ScreenInv, FetchDone
    PROVE  ScreenBase' /\ KeepsReach
<1>0. Known /\ ScreenTypeOK /\ OneSend /\ Asked
  BY KnownHere DEF ScreenInv, Base
<1> DEFINE V == screen.view \cup screen.answer
           s == [screen EXCEPT !.view = V, !.error = FALSE]
<1>1. QuietLog
  BY <1>0, QuietMark DEF FetchDone, Known
<1>2. Sent' = Sent /\ V \in SUBSET Sent
  BY <1>0, <1>1, SameQueries DEF Known, QuietLog, ScreenTypeOK
<1>3. /\ s \in Screen /\ s.view = V /\ s.open = screen.open /\ s.sending = screen.sending
      /\ s.reply = screen.reply /\ s.again = screen.again
  BY <1>0, <1>2 DEF Known, Screen
<1>4. LastOf(V) \in V \cup {None} /\ LastOf(V) \in MaybeMessage
  BY <1>0, <1>2, LastIs DEF Known, MaybeMessage
<1>5. /\ screen' = Finally(s) /\ socket' = socket /\ blind' = (blind /\ ~screen.again)
      /\ dropped' = dropped /\ missed' = missed /\ screen.fetch = "answered" /\ screen.open
  BY <1>0 DEF FetchDone, NoFault, ScreenTypeOK, Closed
<1> HIDE DEF s
<1>6. /\ screen' \in Screen /\ screen'.view = V /\ screen'.open /\ ~screen'.again
      /\ screen'.sending = screen.sending /\ screen'.reply = screen.reply
      /\ screen.again => screen'.fetch = "asked" /\ screen'.after = LastOf(V)
      /\ ~screen.again => screen'.fetch = "no" /\ screen'.after = None
  <2> HIDE DEF V
  <2>1. LastOf(s.view) = LastOf(V)
    BY <1>3
  <2>2. LET t == Finally(s) IN
        /\ t \in Screen /\ SameList(s, t) /\ ~t.again
        /\ s.again => t.fetch = "asked" /\ t.after = LastOf(s.view)
        /\ ~s.again => t.fetch = "no" /\ t.after = None
    BY <1>3, <1>4, <2>1, FinallyIs
  <2> QED BY <1>3, <1>5, <2>1, <2>2 DEF SameList
<1>a. screen'.answer = {}
  BY <1>3, <1>5 DEF Finally, Asking, Screen
<1> HIDE DEF V
<1>7. OneSend'
  BY <1>1, <1>6, QuietSends
<1>8. ScreenBase'
  BY <1>0, <1>2, <1>4, <1>5, <1>6, <1>7, <1>a DEF ScreenBase, Shape, Known, ScreenTypeOK, Asked
<1>9. \A m : m \in Reach => m \in Reach'
  <2>1. \A m : m \in V => m \in Reach'
    BY <1>6, ReachThere DEF ReachIs
  <2>2. \A m : m \in socket.pushed \/ m \in Pushing \/ (screen.reply # None /\ m = screen.reply)
               => m \in Reach'
    BY <1>1, <1>5, <1>6, ReachThere DEF ReachIs, QuietLog
  <2> QED BY <1>5, <2>1, <2>2, ReachHere DEF ReachIs, V
<1>10. Excused' \/ (socket.online /\ ~blind /\ ~screen.again)
  <2>1. CASE screen.again
    <3>1. Fresh'
      BY <1>0, <1>1, <1>2, <1>6, <2>1, FreshAsk
    <3> QED BY <3>1 DEF Excused
  <2>2. CASE ~screen.again
    BY <1>5, <2>2 DEF Excused
  <2> QED BY <2>1, <2>2
<1> QED BY <1>2, <1>5, <1>6, <1>8, <1>9, <1>10 DEF KeepsReach, V

LEMMA FetchFailKeeps ==
    ASSUME ScreenInv, FetchFail
    PROVE  ScreenBase' /\ KeepsReach
<1>0. Known /\ ScreenTypeOK /\ OneSend /\ Asked
  BY KnownHere DEF ScreenInv, Base
<1> DEFINE s == [screen EXCEPT !.error = @ \/ screen.first]
<1>1. QuietLog
  BY <1>0, QuietMark DEF FetchFail, Known
<1>2. Sent' = Sent
  BY <1>0, <1>1, SameQueries DEF Known, QuietLog
<1>3. /\ s \in Screen /\ SameList(screen, s) /\ s.again = screen.again
  <2>1. (screen.error \/ screen.first) \in BOOLEAN
    OBVIOUS
  <2> QED BY <1>0, <2>1 DEF Known, Screen, SameList
<1>4. /\ screen' = Finally(s) /\ socket' = socket /\ blind' = ~screen.again
      /\ dropped' = dropped \cup Fetching /\ missed' = missed /\ screen.open
      /\ Fetching \subseteq Sent
  BY <1>0 DEF FetchFail, Fault, ScreenTypeOK, Closed, Fetching, Fetched, After
<1> HIDE DEF s
<1>5. /\ screen' \in Screen /\ SameList(screen, screen') /\ ~screen'.again
      /\ screen.again => screen'.fetch = "asked" /\ screen'.after = LastOf(screen.view)
      /\ ~screen.again => screen'.fetch = "no" /\ screen'.after = None
  <2>1. LastOf(s.view) = LastOf(screen.view)
    BY <1>3 DEF SameList
  <2>2. LET t == Finally(s) IN
        /\ t \in Screen /\ SameList(s, t) /\ ~t.again
        /\ s.again => t.fetch = "asked" /\ t.after = LastOf(s.view)
        /\ ~s.again => t.fetch = "no" /\ t.after = None
    BY <1>0, <1>3, <2>1, FinallyIs DEF Known
  <2> QED BY <1>3, <1>4, <2>1, <2>2 DEF SameList
<1>a. screen'.answer = {}
  BY <1>3, <1>4 DEF Finally, Asking, Screen
<1>6. OneSend'
  BY <1>1, <1>5, QuietSends DEF SameList
<1>7. ScreenBase'
  <2>1. blind' \in BOOLEAN
    BY <1>4
  <2>2. screen'.after \in screen.view \cup {None}
    BY <1>0, <1>5 DEF Known
  <2> QED BY <1>0, <1>2, <1>4, <1>5, <1>6, <1>a, <2>1, <2>2
          DEF ScreenBase, Shape, Known, ScreenTypeOK, Asked, SameList
<1>8. Excused'
  <2>1. CASE screen.again
    <3>1. Fresh'
      BY <1>0, <1>1, <1>5, <2>1, FreshAsk DEF SameList, Known
    <3> QED BY <3>1 DEF Excused
  <2>2. CASE ~screen.again
    BY <1>4, <2>2 DEF Excused
  <2> QED BY <2>1, <2>2
<1>9. \A m \in Reach : m \in Reach' \/ m \in dropped'
  <2>1. \A m \in Reach : m \in screen.view \cup socket.pushed \cup Pushing \cup Fetching
                           \/ (screen.reply # None /\ m = screen.reply)
    BY ReachHere DEF ReachIs, Fetching
  <2> QED BY <1>1, <1>4, <1>5, <2>1, ReachThere DEF ReachIs, SameList, QuietLog
<1> QED BY <1>2, <1>4, <1>5, <1>7, <1>8, <1>9 DEF KeepsReach, SameList

\* A step that only asks for a fetch, or remembers one.
LEMMA AskKeeps ==
    ASSUME ScreenInv, QuietLog, screen.open,
           screen' \in Screen, SameList(screen, screen'), screen'.answer \subseteq Sent,
           \/ screen.fetch = "no" /\ screen'.fetch = "asked" /\ screen'.after \in {None, LastOf(screen.view)}
           \/ /\ screen'.fetch = screen.fetch /\ screen'.after = screen.after
              /\ screen'.answer = screen.answer /\ screen'.again /\ screen.fetch # "no",
           socket' \in [online : BOOLEAN, pushed : SUBSET Message], socket'.pushed = socket.pushed,
           socket' = socket \/ socket'.online, blind' \in BOOLEAN, dropped' = dropped /\ missed' = missed
    PROVE  ScreenBase' /\ KeepsReach
<1>0. Known /\ ScreenTypeOK /\ OneSend /\ Asked
  BY KnownHere DEF ScreenInv, Base
<1>2. Sent' = Sent /\ \A c : Fetched(c)' = Fetched(c)
  BY <1>0, SameQueries DEF Known, QuietLog
<1>3. OneSend'
  BY QuietSends DEF SameList
<1>4. ScreenBase'
  <2>1. screen'.after \in screen.view \cup {None}
    BY <1>0 DEF Asked, Known
  <2> QED BY <1>0, <1>2, <1>3, <2>1 DEF ScreenBase, Shape, Known, ScreenTypeOK, Asked, SameList
<1>5. \A m : m \in Reach => m \in Reach'
  <2>1. \A m : m \in screen.view \/ m \in socket.pushed \/ m \in Pushing
               \/ (screen.reply # None /\ m = screen.reply) => m \in Reach'
    BY ReachThere DEF ReachIs, QuietLog, SameList
  <2>2. CASE screen.fetch = "no"
    BY <2>1, <2>2, ReachHere DEF ReachIs
  <2>3. CASE screen.fetch # "no"
    <3>1. PICK c : c = screen.after
      OBVIOUS
    <3>2. \A m \in Fetched(c) : screen.fetch = "asked" => m \in Reach'
      BY <1>2, <2>3, <3>1, ReachThere DEF ReachIs
    <3>3. \A m \in screen.answer : screen.fetch = "answered" => m \in Reach'
      BY <2>3, ReachThere DEF ReachIs
    <3> QED BY <2>1, <3>1, <3>2, <3>3, ReachHere DEF ReachIs
  <2> QED BY <2>2, <2>3
<1>6. Excused'
  <2>1. CASE screen.fetch = "no"
    <3>1. screen'.after \in {None, LastOf(screen'.view)}
      BY <2>1 DEF SameList
    <3>2. Fresh'
      BY <1>0, <2>1, <3>1, FreshAsk DEF Known, SameList
    <3> QED BY <3>2 DEF Excused
  <2>2. CASE screen.fetch # "no"
    BY <2>2 DEF Excused
  <2> QED BY <2>1, <2>2
<1> QED BY <1>2, <1>4, <1>5, <1>6 DEF KeepsReach, SameList

LEMMA RememberIs ==
    ASSUME NEW s \in Screen
    PROVE  LET t == [s EXCEPT !.again = TRUE] IN
           /\ t \in Screen /\ SameList(s, t) /\ t.again
           /\ t.fetch = s.fetch /\ t.after = s.after /\ t.answer = s.answer
  BY DEF Screen, SameList

LEMMA RetryIs ==
    ASSUME ScreenInv, Retry
    PROVE  /\ QuietLog /\ screen.open /\ socket' = socket /\ blind' \in BOOLEAN
           /\ screen' \in Screen /\ SameList(screen, screen') /\ screen'.answer \subseteq Sent
           /\ \/ screen.fetch = "no" /\ screen'.fetch = "asked" /\ screen'.after = None
              \/ /\ screen'.fetch = screen.fetch /\ screen'.after = screen.after
                 /\ screen'.answer = screen.answer /\ screen'.again /\ screen.fetch # "no"
           /\ dropped' = dropped /\ missed' = missed /\ blind' = (blind /\ screen.fetch # "no")
<1>0. Known /\ ScreenTypeOK
  BY KnownHere DEF ScreenInv, Base
<1>1. QuietLog /\ socket' = socket /\ dropped' = dropped /\ missed' = missed
      /\ blind' = (blind /\ screen.fetch # "no") /\ screen.open
  BY <1>0, QuietMark DEF Retry, NoFault, ScreenTypeOK, Closed, Known
<1>2. CASE screen.fetch = "no"
  <2>1. screen' = AskingFirst(screen)
    BY <1>2 DEF Retry
  <2>2. screen'.answer = {}
    BY <1>0, <2>1 DEF AskingFirst, Asking, Known, Screen
  <2>3. /\ screen' \in Screen /\ SameList(screen, screen')
        /\ screen'.fetch = "asked" /\ screen'.after = None
    BY <1>0, <2>1, AskingFirstIs DEF Known
  <2> QED BY <1>0, <1>1, <1>2, <2>2, <2>3
<1>3. CASE screen.fetch # "no"
  <2>1. screen' = [screen EXCEPT !.again = TRUE]
    BY <1>3 DEF Retry
  <2>2. /\ screen' \in Screen /\ SameList(screen, screen') /\ screen'.again
        /\ screen'.fetch = screen.fetch /\ screen'.after = screen.after
        /\ screen'.answer = screen.answer
    BY <1>0, <2>1, RememberIs DEF Known
  <2> QED BY <1>0, <1>1, <1>3, <2>2 DEF ScreenTypeOK
<1> QED BY <1>2, <1>3

LEMMA ConnectIs ==
    ASSUME ScreenInv, Connect, screen.open
    PROVE  /\ QuietLog /\ blind' \in BOOLEAN
           /\ socket' \in [online : BOOLEAN, pushed : SUBSET Message]
           /\ socket'.online /\ socket'.pushed = socket.pushed
           /\ screen' \in Screen /\ SameList(screen, screen') /\ screen'.answer \subseteq Sent
           /\ \/ /\ screen.fetch = "no" /\ screen'.fetch = "asked"
                 /\ screen'.after = LastOf(screen.view)
              \/ /\ screen'.fetch = screen.fetch /\ screen'.after = screen.after
                 /\ screen'.answer = screen.answer /\ screen'.again /\ screen.fetch # "no"
           /\ dropped' = dropped /\ missed' = missed
<1>0. Known /\ ScreenTypeOK
  BY KnownHere DEF ScreenInv, Base
<1>1. QuietLog /\ dropped' = dropped /\ missed' = missed /\ blind' \in BOOLEAN
  BY <1>0, QuietMark DEF Connect, NoFault, Known
<1>2. /\ socket' \in [online : BOOLEAN, pushed : SUBSET Message]
      /\ socket'.online /\ socket'.pushed = socket.pushed
  BY <1>0 DEF Connect, Known
<1>3. CASE screen.fetch = "no"
  <2>1. screen' = Asking(screen, LastOf(screen.view))
    BY <1>3 DEF Connect, FetchMessages
  <2>2. screen'.answer = {}
    BY <1>0, <2>1 DEF Asking, Known, Screen
  <2>3. /\ screen' \in Screen /\ SameList(screen, screen')
        /\ screen'.fetch = "asked" /\ screen'.after = LastOf(screen.view)
    BY <1>0, <2>1, AskingIs DEF Known
  <2> QED BY <1>1, <1>2, <1>3, <2>2, <2>3
<1>4. CASE screen.fetch # "no"
  <2>1. screen' = [screen EXCEPT !.again = TRUE]
    BY <1>4 DEF Connect, FetchMessages
  <2>2. /\ screen' \in Screen /\ SameList(screen, screen') /\ screen'.again
        /\ screen'.fetch = screen.fetch /\ screen'.after = screen.after
        /\ screen'.answer = screen.answer
    BY <1>0, <2>1, RememberIs DEF Known
  <2> QED BY <1>0, <1>1, <1>2, <1>4, <2>2 DEF ScreenTypeOK
<1> QED BY <1>3, <1>4

LEMMA RetryKeeps ==
    ASSUME ScreenInv, Retry
    PROVE  ScreenBase' /\ KeepsReach
<1>1. socket \in [online : BOOLEAN, pushed : SUBSET Message]
  BY KnownHere DEF Known
<1> QED BY <1>1, RetryIs, AskKeeps

LEMMA ConnectKeeps ==
    ASSUME ScreenInv, Connect, screen.open
    PROVE  ScreenBase' /\ KeepsReach
  BY ConnectIs, AskKeeps

LEMMA DisconnectKeeps ==
    ASSUME ScreenInv, Disconnect
    PROVE  ScreenBase' /\ (screen.open => KeepsReach)
<1>0. Known /\ ScreenTypeOK /\ OneSend /\ Asked
  BY KnownHere DEF ScreenInv, Base
<1>1. QuietLog /\ screen' = screen /\ blind' = blind
  BY <1>0, QuietMark DEF Disconnect, Known
<1>2. Sent' = Sent /\ \A c : Fetched(c)' = Fetched(c)
  BY <1>0, <1>1, SameQueries DEF Known, QuietLog
<1>3. /\ socket' = [online |-> FALSE, pushed |-> {}]
      /\ screen.open => dropped' = dropped \cup socket.pushed
      /\ ~screen.open => dropped' = dropped
      /\ missed' = missed
  BY DEF Disconnect, Fault
<1>4. OneSend'
  BY <1>1, QuietSends
<1>5. ScreenBase'
  BY <1>0, <1>1, <1>2, <1>3, <1>4 DEF ScreenBase, Shape, Known, ScreenTypeOK, Asked
<1>6. \A m \in Reach : m \in Reach' \/ m \in socket.pushed
  <2>1. PICK c : c = screen.after
    OBVIOUS
  <2>2. Fetched(screen.after)' = Fetched(screen.after)
    BY <1>1, <1>2, <2>1
  <2> QED BY <1>1, <2>2, ReachHere, ReachThere DEF ReachIs, QuietLog
<1>7. ASSUME screen.open PROVE KeepsReach
  BY <1>1, <1>2, <1>3, <1>6, <1>7 DEF KeepsReach, Excused
<1> QED BY <1>5, <1>7

\* A step that puts m on the list of the open screen.
LEMMA ShowKeeps ==
    ASSUME ScreenInv, QuietLog, NEW m \in Sent, screen.open,
           screen' \in Screen, screen'.view = screen.view \cup {m},
           screen'.open, screen'.fetch = screen.fetch, screen'.after = screen.after,
           screen'.answer = screen.answer, screen'.again = screen.again,
           screen'.reply \in {screen.reply, None}, screen'.reply = None => screen.reply \in {None, m},
           screen'.reply = screen.reply => screen'.sending = screen.sending,
           socket' \in [online : BOOLEAN, pushed : SUBSET Message],
           socket'.online = socket.online, socket'.pushed \subseteq socket.pushed,
           \A k \in socket.pushed : k = m \/ k \in socket'.pushed,
           blind' = blind, dropped' = dropped /\ missed' = missed
    PROVE  ScreenBase' /\ KeepsReach
<1>0. Known /\ ScreenTypeOK /\ OneSend /\ Asked
  BY KnownHere DEF ScreenInv, Base
<1>1. Sent' = Sent /\ \A c : Fetched(c)' = Fetched(c)
  BY <1>0, SameQueries DEF Known, QuietLog
<1>2. OneSend'
  <2>1. CASE screen'.reply = screen.reply
    BY <2>1, QuietSends
  <2>2. CASE screen'.reply # screen.reply
    BY <1>0, <2>2 DEF OneSend, QuietLog
  <2> QED BY <2>1, <2>2
<1>3. ScreenBase'
  BY <1>0, <1>1, <1>2 DEF ScreenBase, Shape, Known, ScreenTypeOK, Asked
<1>4. \A k : k \in Reach => k \in Reach'
  <2>1. PICK c : c = screen.after
    OBVIOUS
  <2>2. Fetched(screen.after)' = Fetched(screen.after)
    BY <1>1, <2>1
  <2> QED BY <2>2, ReachHere, ReachThere DEF ReachIs, QuietLog
<1> QED BY <1>1, <1>3, <1>4 DEF KeepsReach, Excused

LEMMA ReceiveKeeps ==
    ASSUME ScreenInv, NEW m \in Message, Receive(m)
    PROVE  ScreenBase' /\ (screen.open => KeepsReach)
<1>0. Known /\ ScreenTypeOK /\ OneSend /\ Asked /\ m \in Sent
  BY KnownHere DEF ScreenInv, Base, Receive, ScreenTypeOK
<1>1. QuietLog
  BY <1>0, QuietMark DEF Receive, Known
<1>2. socket' = [socket EXCEPT !.pushed = @ \ {m}] /\ blind' = blind /\ dropped' = dropped /\ missed' = missed
  BY DEF Receive, NoFault
<1>3. /\ socket' \in [online : BOOLEAN, pushed : SUBSET Message]
      /\ socket'.online = socket.online /\ socket'.pushed = socket.pushed \ {m}
  BY <1>0, <1>2 DEF Known
<1>4. CASE screen.open
  <2>1. screen' = [screen EXCEPT !.view = @ \cup {m}]
    BY <1>4 DEF Receive
  <2>2. /\ screen' \in Screen /\ screen'.view = screen.view \cup {m}
        /\ screen'.open /\ screen'.fetch = screen.fetch /\ screen'.after = screen.after
        /\ screen'.answer = screen.answer /\ screen'.again = screen.again
        /\ screen'.reply = screen.reply /\ screen'.sending = screen.sending
    BY <1>0, <1>4, <2>1 DEF Known, Screen
  <2> QED BY <1>0, <1>1, <1>2, <1>3, <1>4, <2>2, ShowKeeps
<1>5. CASE ~screen.open
  <2>1. screen' = screen
    BY <1>0, <1>5 DEF Receive, Known, Screen
  <2>2. Sent' = Sent
    BY <1>0, <1>1, SameQueries DEF Known, QuietLog
  <2>3. OneSend'
    BY <1>1, <2>1, QuietSends
  <2>4. ScreenBase'
    BY <1>0, <1>2, <1>3, <2>1, <2>2, <2>3 DEF ScreenBase, Shape, Known, ScreenTypeOK, Asked
  <2> QED BY <1>5, <2>4
<1> QED BY <1>4, <1>5

LEMMA SendDoneKeeps ==
    ASSUME ScreenInv, SendDone
    PROVE  ScreenBase' /\ KeepsReach
<1>0. Known /\ ScreenTypeOK
  BY KnownHere DEF ScreenInv, Base
<1>1. QuietLog /\ socket' = socket /\ blind' = blind /\ dropped' = dropped /\ missed' = missed
  BY <1>0, QuietMark DEF SendDone, NoFault, Known
<1>2. PICK m : m = screen.reply
  OBVIOUS
<1>3. m \in Sent /\ screen.open
  BY <1>0, <1>2 DEF SendDone, ScreenTypeOK, Closed
<1>4. screen' = [screen EXCEPT !.view = @ \cup {m}, !.sending = FALSE, !.reply = None]
  BY <1>2 DEF SendDone
<1>5. /\ screen' \in Screen /\ screen'.view = screen.view \cup {m} /\ screen'.open
      /\ screen'.fetch = screen.fetch /\ screen'.after = screen.after
      /\ screen'.answer = screen.answer /\ screen'.again = screen.again
      /\ screen'.reply = None
  BY <1>0, <1>3, <1>4 DEF Known, Screen, MaybeMessage
<1>6. screen'.reply # screen.reply
  BY <1>5 DEF SendDone
<1> QED BY <1>0, <1>1, <1>2, <1>3, <1>5, <1>6, ShowKeeps DEF Known

LEMMA ReplyLostKeeps ==
    ASSUME ScreenInv, ReplyLost
    PROVE  ScreenBase' /\ KeepsReach
<1>0. Known /\ ScreenTypeOK /\ OneSend /\ Asked
  BY KnownHere DEF ScreenInv, Base
<1>1. QuietLog /\ socket' = socket /\ blind'
  BY <1>0, QuietMark DEF ReplyLost, Known
<1>2. Sent' = Sent /\ \A c : Fetched(c)' = Fetched(c)
  BY <1>0, <1>1, SameQueries DEF Known, QuietLog
<1>3. /\ screen.open /\ dropped' = dropped \cup {screen.reply} /\ missed' = missed
      /\ screen.reply # None /\ screen.reply \in Sent
  BY <1>0 DEF ReplyLost, Fault, ScreenTypeOK, Closed
<1>4. screen' = [screen EXCEPT !.sending = FALSE, !.reply = None]
  BY DEF ReplyLost
<1>5. /\ screen' \in Screen /\ screen'.view = screen.view /\ screen'.open
      /\ screen'.fetch = screen.fetch /\ screen'.after = screen.after
      /\ screen'.answer = screen.answer /\ screen'.again = screen.again
      /\ screen'.reply = None
  BY <1>0, <1>3, <1>4 DEF Known, Screen, MaybeMessage
<1>6. OneSend'
  BY <1>0, <1>1, <1>3 DEF OneSend, QuietLog
<1>7. blind' \in BOOLEAN
  BY DEF ReplyLost
<1>8. ScreenBase'
  BY <1>0, <1>1, <1>2, <1>3, <1>5, <1>6, <1>7 DEF ScreenBase, Shape, Known, ScreenTypeOK, Asked
<1>9. \A m \in Reach : m \in Reach' \/ m = screen.reply
  <2>1. PICK c : c = screen.after
    OBVIOUS
  <2>2. Fetched(screen.after)' = Fetched(screen.after)
    BY <1>2, <1>5, <2>1
  <2> QED BY <1>1, <1>5, <2>2, ReachHere, ReachThere DEF ReachIs, QuietLog
<1> QED BY <1>1, <1>2, <1>3, <1>5, <1>8, <1>9 DEF KeepsReach, Excused

LEMMA OpenKeeps ==
    ASSUME ScreenInv, Open
    PROVE  ScreenBase' /\ EveryMessageShown' /\ CaughtUpOn'
<1>0. Known /\ ScreenTypeOK /\ OneSend /\ Asked
  BY KnownHere DEF ScreenInv, Base
<1>1. QuietLog /\ socket' = socket /\ dropped' = dropped /\ missed' = missed /\ blind' = FALSE /\ screen = Closed
  BY <1>0, QuietMark DEF Open, NoFault, ScreenTypeOK, Known
<1>2. Sent' = Sent
  BY <1>0, <1>1, SameQueries DEF Known, QuietLog
<1> DEFINE s == [Closed EXCEPT !.open = TRUE]
<1>3. /\ s \in Screen /\ s.open /\ s.view = {} /\ s.again = FALSE /\ s.answer = {}
      /\ s.sending = FALSE /\ s.reply = None
  BY DEF Closed, Screen, MaybeMessage
<1>4. screen' = AskingFirst(s)
  BY DEF Open
<1> HIDE DEF s
<1>5. /\ screen' \in Screen /\ SameList(s, screen') /\ screen'.fetch = "asked"
      /\ screen'.after = None /\ screen'.again = s.again
  BY <1>3, <1>4, AskingFirstIs
<1>6. screen'.answer = {}
  BY <1>3, <1>4 DEF AskingFirst, Asking, Screen
<1>7. OneSend'
  <2>1. screen.sending = FALSE
    BY <1>1 DEF Closed
  <2> QED BY <1>0, <1>1, <2>1 DEF OneSend, QuietLog
<1>8. ScreenBase'
  BY <1>0, <1>1, <1>2, <1>3, <1>5, <1>6, <1>7
     DEF ScreenBase, Shape, Known, ScreenTypeOK, Asked, SameList
<1>9. \A m \in Sent' : m \in OnItsWay'
  <2>1. Fetched(None)' = Sent'
    BY DEF Fetched
  <2>2. screen'.view = {}
    BY <1>3, <1>5 DEF SameList
  <2> QED BY <1>5, <2>1, <2>2, ReachThere DEF ReachIs, Reach
<1>10. EveryMessageShown'
  BY <1>9 DEF EveryMessageShown
<1>11. CaughtUpOn'
  BY <1>9 DEF CaughtUpOn, Fresh, Fetched, After
<1> QED BY <1>8, <1>10, <1>11

\* The steps of the server that the screen does not see.
LEMMA StayKeeps ==
    ASSUME ScreenInv, QuietLog, UNCHANGED screenVars
    PROVE  ScreenBase' /\ (screen.open => KeepsReach)
<1>0. Known /\ ScreenTypeOK /\ OneSend /\ Asked
  BY KnownHere DEF ScreenInv, Base
<1>1. screen' = screen /\ socket' = socket /\ blind' = blind /\ dropped' = dropped /\ missed' = missed
  BY DEF screenVars
<1>2. Sent' = Sent /\ \A c : Fetched(c)' = Fetched(c)
  BY <1>0, SameQueries DEF Known, QuietLog
<1>3. OneSend'
  BY <1>1, QuietSends
<1>4. ScreenBase'
  BY <1>0, <1>1, <1>2, <1>3 DEF ScreenBase, Shape, Known, ScreenTypeOK, Asked
<1>5. \A m \in Reach : m \in Reach'
  <2>1. PICK c : c = screen.after
    OBVIOUS
  <2>2. Fetched(screen.after)' = Fetched(screen.after)
    BY <1>1, <1>2, <2>1
  <2> QED BY <1>1, <2>2, ReachHere, ReachThere DEF ReachIs, QuietLog
<1>6. ASSUME screen.open PROVE KeepsReach
  BY <1>1, <1>2, <1>5, <1>6 DEF KeepsReach, Excused
<1> QED BY <1>4, <1>6

\* What rewriting the record of one request does to the messages being pushed.
LEMMA OneCallPushes ==
    ASSUME LogTypeOK, NEW q \in Call, NEW r, call' = [call EXCEPT ![q] = r]
    PROVE  /\ call'[q] = r /\ \A p \in Call : p # q => call'[p] = call[p]
           /\ ~At(q, "sent") /\ r.pc # "sent" => Pushing' = Pushing
           /\ At(q, "sent") => \A m \in Pushing : m \in Pushing' \/ m = call[q].m
           /\ ~At(q, "sent") => Pushing \subseteq Pushing'
           /\ r.pc = "sent" => r.m \in Pushing'
           /\ r.pc # "sent" => Pushing' \subseteq Pushing
<1>1. call'[q] = r /\ \A p \in Call : p # q => call'[p] = call[p]
  BY DEF LogTypeOK
<1>2. \A m : m \in Pushing <=> \E p \in Call : call[p].pc = "sent" /\ m = call[p].m
  BY DEF Pushing, At
<1>3. \A m : m \in Pushing' <=> \E p \in Call : call'[p].pc = "sent" /\ m = call'[p].m
  BY DEF Pushing, At
<1>4. ~At(q, "sent") => Pushing \subseteq Pushing'
  BY <1>1, <1>2, <1>3 DEF At
<1>5. r.pc # "sent" => Pushing' \subseteq Pushing
  BY <1>1, <1>2, <1>3
<1>6. At(q, "sent") => \A m \in Pushing : m \in Pushing' \/ m = call[q].m
  BY <1>1, <1>2, <1>3
<1>7. r.pc = "sent" => r.m \in Pushing'
  BY <1>1, <1>3
<1> QED BY <1>1, <1>4, <1>5, <1>6, <1>7

LEMMA CommitKeeps ==
    ASSUME ScreenInv, NEW q \in Call, NEW m \in Message, SendCommit(q, m), UNCHANGED screenVars
    PROVE  ScreenBase' /\ (screen.open => KeepsReach)
<1>0. Known /\ ScreenTypeOK /\ OneSend /\ Asked
  BY KnownHere DEF ScreenInv, Base
<1>1. screen' = screen /\ socket' = socket /\ blind' = blind /\ dropped' = dropped /\ missed' = missed
  BY DEF screenVars
<1>2. [LogNext]_logVars
  BY DEF LogNext, Request
<1>3. Sent \subseteq Sent' /\ Sent' \subseteq Sent \cup {m}
  <2>1. Sent \subseteq Sent'
    BY <1>0, <1>2, SentGrows DEF Known
  <2>2. \A k \in Message : k # m => msg'[k] = msg[k]
    BY <1>0 DEF Known, LogTypeOK, SendCommit
  <2> QED BY <2>1, <2>2 DEF Sent
<1> DEFINE r == [call[q] EXCEPT !.pc = "sent", !.m = m]
<1>4. call' = [call EXCEPT ![q] = r] /\ call[q].pc = "sending"
  BY <1>0 DEF SendCommit, Known, LogTypeOK, At
<1>5. r.pc = "sent" /\ r.m = m /\ r.user = call[q].user
  BY <1>0 DEF Known, LogTypeOK
<1> HIDE DEF r
<1>6. /\ Pushing \subseteq Pushing' /\ m \in Pushing'
      /\ call'[q] = r /\ \A p \in Call : p # q => call'[p] = call[p]
  BY <1>0, <1>4, <1>5, OneCallPushes DEF At, Known
<1>7. OneSend'
  <2>1. \A p \in Call : Sending(p)' <=> Sending(p)
    BY <1>4, <1>5, <1>6 DEF Sending, By
  <2> QED BY <1>0, <1>1, <2>1 DEF OneSend
<1>8. ScreenBase'
  BY <1>0, <1>1, <1>3, <1>7 DEF ScreenBase, Shape, Known, ScreenTypeOK, Asked
<1>9. \A k \in Reach : k \in Reach'
  <2>1. PICK c \in Sent \cup {None} : c = screen.after
    BY <1>0 DEF ScreenTypeOK
  <2>2. Fetched(c) \subseteq Fetched(c)'
    BY <1>0, <1>2, MoreFetched DEF Known
  <2>3. \A k \in Fetched(screen.after) : k \in Fetched(screen.after)'
    BY <1>1, <2>1, <2>2
  <2> QED BY <1>1, <1>6, <2>3, ReachHere, ReachThere DEF ReachIs
<1>10. m \in Reach'
  BY <1>6, ReachThere DEF ReachIs
<1>11. ASSUME screen.open PROVE KeepsReach
  <2>1. (socket.online /\ ~blind /\ ~screen.again) \/ Excused'
    BY <1>1 DEF Excused
  <2> QED BY <1>1, <1>3, <1>9, <1>10, <1>11, <2>1 DEF KeepsReach
<1> QED BY <1>8, <1>11

LEMMA ServerKeeps ==
    ASSUME ScreenInv, Server, UNCHANGED screenVars
    PROVE  ScreenBase' /\ (screen.open => KeepsReach)
<1>0. Known
  BY KnownHere
<1>1. ASSUME NEW q \in Call, NEW r, call' = [call EXCEPT ![q] = r], msg' = msg,
             ~At(q, "sent"), r.pc # "sent",
             r.user = {me} /\ r.pc \in {"send", "sending"} => Sending(q)
      PROVE  QuietLog
  <2>1. /\ call'[q] = r /\ \A p \in Call : p # q => call'[p] = call[p]
        /\ Pushing' = Pushing
    BY <1>0, <1>1, OneCallPushes DEF Known
  <2> QED BY <1>1, <2>1 DEF QuietLog, Sending, By
<1>2. ASSUME NEW q \in Call, NEW u \in User \ {me}, SendBegin(q, u) PROVE QuietLog
  <2>1. call' = [call EXCEPT ![q] = [Idle EXCEPT !.pc = "send", !.user = {u}, !.at = now]]
        /\ msg' = msg /\ ~At(q, "sent")
    BY <1>2 DEF SendBegin, At
  <2>2. /\ [Idle EXCEPT !.pc = "send", !.user = {u}, !.at = now].pc = "send"
        /\ [Idle EXCEPT !.pc = "send", !.user = {u}, !.at = now].user = {u}
    BY DEF Idle
  <2> QED BY <1>1, <2>1, <2>2
<1>3. ASSUME NEW q \in Call, SendLock(q) PROVE QuietLog
  <2>1. call' = [call EXCEPT ![q] = [call[q] EXCEPT !.pc = "sending"]]
        /\ msg' = msg /\ call[q].pc = "send"
    BY <1>0, <1>3 DEF SendLock, At, Known, LogTypeOK
  <2>2. /\ [call[q] EXCEPT !.pc = "sending"].pc = "sending"
        /\ [call[q] EXCEPT !.pc = "sending"].user = call[q].user
    BY <1>0 DEF Known, LogTypeOK
  <2> QED BY <1>1, <2>1, <2>2 DEF At, Sending, By
<1>4. ASSUME NEW q \in Call, MarkLock(q) PROVE QuietLog
  <2>1. PICK u \in User : call' = [call EXCEPT ![q].pc = "marking", ![q].cursor = read[u]]
    BY <1>4 DEF MarkLock
  <2> DEFINE r == [call[q] EXCEPT !.pc = "marking", !.cursor = read[u]]
  <2>2. call' = [call EXCEPT ![q] = r] /\ msg' = msg /\ ~At(q, "sent")
    BY <1>0, <1>4, <2>1 DEF MarkLock, At, Known, LogTypeOK
  <2>3. r.pc = "marking"
    BY <1>0 DEF Known, LogTypeOK
  <2> HIDE DEF r
  <2> QED BY <1>1, <2>2, <2>3
<1>5. ASSUME NEW q \in Call, MarkCommit(q) PROVE QuietLog
  <2>1. /\ msg' = msg /\ ~At(q, "sent")
        /\ \/ call' = [call EXCEPT ![q] = [call[q] EXCEPT !.pc = "marked"]]
           \/ call' = [call EXCEPT ![q] = Idle]
    BY <1>0, <1>5 DEF MarkCommit, At, Return, Known, LogTypeOK
  <2>2. [call[q] EXCEPT !.pc = "marked"].pc = "marked" /\ Idle.pc = "idle"
    BY <1>0 DEF Known, LogTypeOK, Idle
  <2> QED BY <1>1, <2>1, <2>2
<1>6. ASSUME Tick PROVE QuietLog
  <2>1. msg' = msg /\ call' = call
    BY <1>6 DEF Tick
  <2> QED BY <2>1 DEF QuietLog, Pushing, At, Sending, By
<1>7. QuietLog \/ \E q \in Call, m \in Message : SendCommit(q, m)
  BY <1>2, <1>3, <1>4, <1>5, <1>6 DEF Server, Request
<1> QED BY <1>7, StayKeeps, CommitKeeps

LEMMA SendKeeps ==
    ASSUME ScreenInv, NEW q \in Call, Send(q)
    PROVE  ScreenBase' /\ KeepsReach
<1>0. Known /\ ScreenTypeOK /\ OneSend /\ Asked
  BY KnownHere DEF ScreenInv, Base
<1> DEFINE r == [Idle EXCEPT !.pc = "send", !.user = {me}, !.at = now]
<1>1. /\ call' = [call EXCEPT ![q] = r] /\ msg' = msg /\ ~At(q, "sent")
      /\ socket' = socket /\ blind' = blind /\ dropped' = dropped /\ missed' = missed
      /\ screen.open /\ ~screen.sending /\ screen' = [screen EXCEPT !.sending = TRUE]
  BY DEF Send, SendBegin, At, NoFault
<1>2. r.pc = "send"
  BY DEF Idle
<1> HIDE DEF r
<1>3. Pushing' = Pushing /\ \A p \in Call : p # q => call'[p] = call[p]
  BY <1>0, <1>1, <1>2, OneCallPushes DEF Known
<1>4. /\ screen' \in Screen /\ screen'.view = screen.view /\ screen'.open
      /\ screen'.fetch = screen.fetch /\ screen'.after = screen.after
      /\ screen'.answer = screen.answer /\ screen'.again = screen.again
      /\ screen'.reply = screen.reply /\ screen'.sending
  BY <1>0, <1>1 DEF Known, Screen
<1>5. \A p \in Call : Sending(p)' => p = q
  BY <1>0, <1>1, <1>3 DEF OneSend, Sending, By
<1>6. screen.reply = None
  BY <1>0, <1>1 DEF ScreenTypeOK
<1>7. OneSend'
  BY <1>4, <1>5, <1>6 DEF OneSend
<1>8. Sent' = Sent /\ \A c : Fetched(c)' = Fetched(c)
  BY <1>0, <1>1, SameQueries DEF Known
<1>9. ScreenBase'
  BY <1>0, <1>1, <1>4, <1>7, <1>8 DEF ScreenBase, Shape, Known, ScreenTypeOK, Asked
<1>10. \A m \in Reach : m \in Reach'
  <2>1. PICK c : c = screen.after
    OBVIOUS
  <2>2. Fetched(screen.after)' = Fetched(screen.after)
    BY <1>4, <1>8, <2>1
  <2> QED BY <1>1, <1>3, <1>4, <2>2, ReachHere, ReachThere DEF ReachIs
<1> QED BY <1>1, <1>4, <1>8, <1>9, <1>10 DEF KeepsReach, Excused

\* The end of a request: its record is free again.
LEMMA EndKeepsSends ==
    ASSUME OneSend, LogTypeOK, NEW q \in Call, call' = [call EXCEPT ![q] = Idle],
           Sending(q) \/ (screen'.sending = screen.sending /\ screen'.reply = screen.reply)
    PROVE  OneSend'
<1>1. call'[q] = Idle /\ \A p \in Call : p # q => call'[p] = call[p]
  BY DEF LogTypeOK
<1>2. ~Sending(q)'
  BY <1>1 DEF Sending, Idle
<1>3. \A p \in Call : Sending(p)' => Sending(p) /\ p # q
  BY <1>1, <1>2 DEF Sending, By
<1> QED BY <1>3 DEF OneSend

LEMMA DieKeeps ==
    ASSUME ScreenInv, NEW q \in Call, Die(q)
    PROVE  ScreenBase' /\ (screen.open => KeepsReach)
<1>0. Known /\ ScreenTypeOK /\ OneSend /\ Asked
  BY KnownHere DEF ScreenInv, Base
<1> DEFINE m == call[q].m
           still == screen.sending /\ ~(By(q, me) /\ call[q].pc \in {"send", "sending", "sent"})
<1>1. /\ call' = [call EXCEPT ![q] = Idle] /\ msg' = msg
      /\ socket' = socket /\ blind' = (blind \/ At(q, "sent"))
      /\ screen.open => dropped' = dropped \cup (IF At(q, "sent") THEN {m} ELSE {})
      /\ ~screen.open => dropped' = dropped
      /\ missed' = missed
      /\ screen' = [screen EXCEPT !.sending = still]
  BY <1>0 DEF Die, Abort, Return, Fault, Known, Screen
<1>2. Idle.pc # "sent"
  BY DEF Idle
<1>3. /\ ~At(q, "sent") => Pushing' = Pushing
      /\ Pushing' \subseteq Pushing
      /\ \A k \in Pushing : k \in Pushing' \/ (k = m /\ At(q, "sent"))
  BY <1>0, <1>1, <1>2, OneCallPushes DEF Known
<1>4. still = (screen.sending /\ ~Sending(q)) /\ still \in BOOLEAN
  BY DEF Sending
<1> HIDE DEF still
<1>5. /\ screen' \in Screen /\ screen'.view = screen.view /\ screen'.open = screen.open
      /\ screen'.fetch = screen.fetch /\ screen'.after = screen.after
      /\ screen'.answer = screen.answer /\ screen'.again = screen.again
      /\ screen'.reply = screen.reply /\ screen'.sending = still
  BY <1>0, <1>1, <1>4 DEF Known, Screen
<1>6. OneSend'
  <2>1. CASE Sending(q)
    BY <1>0, <1>1, <2>1, EndKeepsSends DEF Known
  <2>2. CASE ~Sending(q)
    <3>1. screen'.sending = screen.sending
      BY <1>0, <1>4, <1>5, <2>2 DEF Known, Screen
    <3> QED BY <1>0, <1>1, <1>5, <3>1, EndKeepsSends DEF Known
  <2> QED BY <2>1, <2>2
<1>7. Sent' = Sent /\ \A c : Fetched(c)' = Fetched(c)
  BY <1>0, <1>1, SameQueries DEF Known
<1>8. ScreenBase'
  <2>1. screen'.reply # None => screen'.sending
    BY <1>0, <1>4, <1>5 DEF ScreenTypeOK, OneSend
  <2>2. ~screen'.open => screen' = Closed
    <3>1. CASE screen.open
      BY <1>5, <3>1
    <3>2. CASE ~screen.open
      <4>1. screen = Closed
        BY <1>0, <3>2 DEF ScreenTypeOK
      <4>2. screen.sending = FALSE
        BY <4>1 DEF Closed
      <4>3. screen' = [screen EXCEPT !.sending = FALSE]
        BY <1>1, <1>4, <4>2
      <4>4. screen' = screen
        BY <1>0, <4>2, <4>3 DEF Known, Screen
      <4> QED BY <4>1, <4>4 DEF Closed
    <3> QED BY <3>1, <3>2
  <2>3. blind' \in BOOLEAN
    BY <1>1
  <2>4. dropped' \subseteq Sent
    <3>1. At(q, "sent") => m \in Sent
      BY <1>0 DEF Known, LogTypeOK, GoodCall, At
    <3> QED BY <1>0, <1>1, <3>1 DEF ScreenTypeOK
  <2> QED BY <1>0, <1>1, <1>5, <1>6, <1>7, <2>1, <2>2, <2>3, <2>4
          DEF ScreenBase, Shape, Known, ScreenTypeOK, Asked
<1>9. \A k \in Reach : k \in Reach' \/ (k = m /\ At(q, "sent"))
  <2>1. PICK c : c = screen.after
    OBVIOUS
  <2>2. Fetched(screen.after)' = Fetched(screen.after)
    BY <1>5, <1>7, <2>1
  <2> QED BY <1>1, <1>3, <1>5, <2>2, ReachHere, ReachThere DEF ReachIs
<1>10. ASSUME screen.open PROVE KeepsReach
  <2>1. At(q, "sent") => Excused'
    BY <1>1 DEF Excused
  <2>2. Excused' \/ (socket.online /\ ~blind /\ ~screen.again)
    BY <1>1, <1>5 DEF Excused
  <2> QED BY <1>1, <1>5, <1>7, <1>9, <1>10, <2>1, <2>2 DEF KeepsReach
<1> QED BY <1>8, <1>10

LEMMA PublishKeeps ==
    ASSUME ScreenInv, NEW q \in Call, PublishTo(q)
    PROVE  ScreenBase' /\ (screen.open => KeepsReach)
<1>0. Known /\ ScreenTypeOK /\ OneSend /\ Asked
  BY KnownHere DEF ScreenInv, Base
<1> DEFINE m == call[q].m
           new == At(q, "sent")
           mine == new /\ By(q, me)
<1>1. /\ call' = [call EXCEPT ![q] = Idle] /\ msg' = msg /\ blind' = blind
      /\ socket' = [socket EXCEPT !.pushed = IF new /\ socket.online THEN @ \cup {m} ELSE @]
      /\ screen' = [screen EXCEPT !.reply = IF mine THEN m ELSE @]
      /\ dropped' = dropped
      /\ missed' = IF new /\ ~socket.online /\ ~By(q, me) /\ screen.open
                   THEN missed \cup {m} ELSE missed
  BY DEF PublishTo, Publish, Return
<1>2. Idle.pc # "sent" /\ (new => m \in Sent /\ m # None)
  <2>1. new => m \in Sent
    BY <1>0 DEF Known, LogTypeOK, GoodCall, At
  <2> QED BY <1>0, <2>1, SentTypes DEF Idle, Known
<1>3. /\ Pushing' \subseteq Pushing
      /\ \A k \in Pushing : k \in Pushing' \/ (k = m /\ new)
  BY <1>0, <1>1, <1>2, OneCallPushes DEF Known
<1>4. mine => Sending(q) /\ screen.sending /\ screen.reply = None /\ screen.open
  <2>1. mine => Sending(q)
    BY DEF Sending, At
  <2> QED BY <1>0, <2>1 DEF OneSend, ScreenTypeOK, Closed
<1> HIDE DEF new, mine, m
<1>5. /\ screen' \in Screen /\ screen'.view = screen.view /\ screen'.open = screen.open
      /\ screen'.fetch = screen.fetch /\ screen'.after = screen.after
      /\ screen'.answer = screen.answer /\ screen'.again = screen.again
      /\ screen'.sending = screen.sending /\ screen'.reply = IF mine THEN m ELSE screen.reply
      /\ ~mine => screen' = screen
  <2>1. CASE mine
    <3>1. screen' = [screen EXCEPT !.reply = m] /\ m \in MaybeMessage
      BY <1>0, <1>1, <1>2, <2>1 DEF MaybeMessage, Known, mine
    <3> QED BY <1>0, <2>1, <3>1 DEF Known, Screen
  <2>2. CASE ~mine
    <3>1. screen' = screen
      BY <1>0, <1>1, <2>2 DEF Known, Screen
    <3> QED BY <1>0, <2>2, <3>1 DEF Known
  <2> QED BY <2>1, <2>2
<1>6. /\ socket' \in [online : BOOLEAN, pushed : SUBSET Message]
      /\ socket'.online = socket.online
      /\ socket'.pushed = IF new /\ socket.online THEN socket.pushed \cup {m} ELSE socket.pushed
  BY <1>0, <1>1, <1>2 DEF Known
<1>7. OneSend'
  BY <1>0, <1>1, <1>4, <1>5, EndKeepsSends DEF Known
<1>8. Sent' = Sent /\ \A c : Fetched(c)' = Fetched(c)
  BY <1>0, <1>1, SameQueries DEF Known
<1>9. ScreenBase'
  <2>1. screen'.reply # None => screen'.sending
    BY <1>0, <1>4, <1>5 DEF ScreenTypeOK
  <2>2. ~screen'.open => screen' = Closed
    BY <1>0, <1>4, <1>5 DEF ScreenTypeOK
  <2>3. dropped' \subseteq Sent /\ missed' \subseteq Sent /\ screen'.reply \in Sent \cup {None}
    BY <1>0, <1>1, <1>2, <1>5 DEF ScreenTypeOK, mine
  <2>4. socket'.pushed \subseteq Sent /\ (~socket'.online => socket'.pushed = {})
    BY <1>0, <1>2, <1>6 DEF ScreenTypeOK
  <2> QED BY <1>0, <1>1, <1>5, <1>6, <1>7, <1>8, <2>1, <2>2, <2>3, <2>4
          DEF ScreenBase, Shape, Known, ScreenTypeOK, Asked
<1>10. ASSUME screen.open PROVE KeepsReach
  <2>1. PICK c : c = screen.after
    OBVIOUS
  <2>2. Fetched(screen.after)' = Fetched(screen.after)
    BY <1>5, <1>8, <2>1
  <2>3. \A k \in Reach : k \in Reach' \/ (k = m /\ new)
    <3>1. mine => screen.reply = None
      BY <1>4
    <3> QED BY <1>3, <1>5, <1>6, <2>2, <3>1, ReachHere, ReachThere DEF ReachIs
  <2>4. new /\ socket.online => m \in Reach'
    BY <1>6, ReachThere DEF ReachIs
  <2>5. mine => m \in Reach'
    BY <1>2, <1>5, ReachThere DEF ReachIs, mine
  <2>6. new /\ ~socket.online /\ ~mine => m \in missed' /\ Excused'
    BY <1>1, <1>6, <1>10 DEF Excused, mine
  <2>7. Excused' \/ (socket.online /\ ~blind /\ ~screen.again)
    BY <1>1, <1>5, <1>6 DEF Excused
  <2>8. dropped \subseteq dropped' /\ missed \subseteq missed'
    BY <1>1
  <2> QED BY <1>5, <1>8, <1>10, <2>3, <2>4, <2>5, <2>6, <2>7, <2>8 DEF KeepsReach
<1> QED BY <1>9, <1>10

------------------------------------------------------------------------------
(* The theorems *)

LEMMA BaseInit == ScreenInit => ScreenInv
<1> SUFFICES ASSUME ScreenInit PROVE ScreenInv
  OBVIOUS
<1>1. IInv
  BY InitHolds DEF ScreenInit
<1>2. Sent = {}
  BY DEF ScreenInit, LogInit, Sent, Unsent
<1>3. Tops
  BY <1>2 DEF Tops
<1>4. Shape /\ ScreenTypeOK
  BY DEF ScreenInit, Shape, ScreenTypeOK, Closed, Screen, MaybeMessage
<1>5. OneSend /\ Asked
  BY DEF ScreenInit, LogInit, OneSend, Sending, Asked, Closed, Idle
<1>6. EveryMessageShown /\ CaughtUpOn
  BY DEF ScreenInit, EveryMessageShown, CaughtUpOn, Closed
<1> QED BY <1>1, <1>3, <1>4, <1>5, <1>6 DEF ScreenInv, Base

LEMMA ScreenStep == ScreenInv /\ [ScreenNext]_allVars => ScreenInv'
<1> SUFFICES ASSUME ScreenInv, [ScreenNext]_allVars PROVE ScreenInv'
  OBVIOUS
<1>0. /\ [LogNext]_logVars /\ IInv /\ LogTypeOK /\ Tops /\ Known
      /\ ~screen.open => screen = Closed
  BY LogOfStep, KnownHere DEF ScreenInv, Base, IInv, ScreenTypeOK
<1>1. IInv' /\ LogTypeOK' /\ Tops'
  BY <1>0, NextHolds, TopsStep DEF IInv
<1>2. ASSUME ScreenBase', screen'.open => KeepsReach PROVE ScreenInv'
  <2>1. Base'
    BY <1>1, <1>2 DEF Base, ScreenBase
  <2>2. CASE screen'.open
    BY <1>0, <1>2, <2>1, <2>2, KeepsBoth
  <2>3. CASE ~screen'.open
    BY <2>1, <2>3 DEF ScreenInv, EveryMessageShown, CaughtUpOn
  <2> QED BY <2>2, <2>3
<1>3. ASSUME screen'.open => screen.open, ScreenBase', screen.open => KeepsReach
      PROVE  ScreenInv'
  BY <1>2, <1>3
<1>4. CASE Server /\ UNCHANGED screenVars
  BY <1>3, <1>4, ServerKeeps DEF screenVars
<1>5. CASE Open
  BY <1>1, <1>5, OpenKeeps DEF ScreenInv, Base, ScreenBase
<1>6. CASE Answer
  BY <1>2, <1>6, AnswerKeeps
<1>7. CASE FetchDone
  BY <1>2, <1>7, FetchDoneKeeps
<1>8. CASE FetchFail
  BY <1>2, <1>8, FetchFailKeeps
<1>9. CASE Retry
  BY <1>2, <1>9, RetryKeeps
<1>10. CASE Connect /\ screen.open
  BY <1>2, <1>10, ConnectKeeps
<1>11. CASE Connect /\ ~screen.open
  <2>1. /\ QuietLog /\ screen' = screen /\ blind' \in BOOLEAN /\ dropped' = dropped /\ missed' = missed
        /\ socket' = [socket EXCEPT !.online = TRUE]
    BY <1>0, <1>11, QuietMark DEF Connect, NoFault
  <2>2. Sent' = Sent
    BY <1>0, <2>1, SameQueries DEF QuietLog
  <2>3. OneSend'
    BY <2>1, QuietSends
  <2>4. ScreenBase'
    BY <1>0, <2>1, <2>2, <2>3
       DEF ScreenBase, Shape, Known, ScreenInv, Base, ScreenTypeOK, Asked
  <2> QED BY <1>2, <1>11, <2>1, <2>4
<1>12. CASE Disconnect
  BY <1>3, <1>12, DisconnectKeeps DEF Disconnect
<1>13. ASSUME NEW m \in Message, Receive(m) PROVE ScreenInv'
  <2>1. screen'.open => screen.open
    BY <1>0, <1>13 DEF Receive, Known, Screen
  <2> QED BY <1>3, <1>13, <2>1, ReceiveKeeps
<1>14. CASE SendDone
  BY <1>2, <1>14, SendDoneKeeps
<1>15. CASE ReplyLost
  BY <1>2, <1>15, ReplyLostKeeps
<1>16. ASSUME NEW q \in Call, PublishTo(q) PROVE ScreenInv'
  <2>1. screen'.open => screen.open
    BY <1>0, <1>16 DEF PublishTo, Known, Screen
  <2> QED BY <1>3, <1>16, <2>1, PublishKeeps
<1>17. ASSUME NEW q \in Call, Send(q) PROVE ScreenInv'
  BY <1>2, <1>17, SendKeeps
<1>18. ASSUME NEW q \in Call, Die(q) PROVE ScreenInv'
  <2>1. screen'.open => screen.open
    BY <1>0, <1>18 DEF Die, Known, Screen
  <2> QED BY <1>3, <1>18, <2>1, DieKeeps
<1>19. CASE UNCHANGED allVars
  <2>1. UNCHANGED logVars /\ UNCHANGED screenVars
    BY <1>19 DEF allVars
  <2>2. QuietLog
    BY <1>0, <2>1, QuietMark
  <2> QED BY <1>3, <2>1, <2>2, StayKeeps DEF screenVars
<1> QED BY <1>4, <1>5, <1>6, <1>7, <1>8, <1>9, <1>10, <1>11, <1>12, <1>13, <1>14, <1>15,
           <1>16, <1>17, <1>18, <1>19 DEF ScreenNext

LEMMA ScreenAlways == ScreenSpec => []ScreenInv
  BY BaseInit, ScreenStep, PTL DEF ScreenSpec

\* The screen holds only messages that exist, waits for an answer only while it
\* sends, and nothing is pushed to a device without a connection.
THEOREM ScreenTypes == ScreenSpec => []ScreenTypeOK
<1>1. ScreenInv => ScreenTypeOK
  BY DEF ScreenInv, Base
<1> QED BY <1>1, ScreenAlways, PTL

\* In whatever order pushes, fetches, answers and sends arrive, each message committed is
\* on the open screen or on its way to it, unless a fault lost it or it was published
\* while the socket was offline; what the catch-up makes of those is CatchesUpOnNewer.
THEOREM ShowsEveryMessage == ScreenSpec => []EveryMessageShown
<1>1. ScreenInv => EveryMessageShown
  BY DEF ScreenInv
<1> QED BY <1>1, ScreenAlways, PTL

\* Once the screen is connected and its last fetch succeeded, nothing newer than its
\* newest message is missing, however often the connection went and came back in
\* the middle of a fetch.
THEOREM CatchesUpOnNewer == ScreenSpec => []NothingNewerMissing
<1>1. ScreenInv => NothingNewerMissing
  BY DEF ScreenInv, Base, Asked, CaughtUpOn, Fresh, NothingNewerMissing, Quiet
<1> QED BY <1>1, ScreenAlways, PTL
==============================================================================
