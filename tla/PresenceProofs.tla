---------------------------- MODULE PresenceProofs ----------------------------
(****************************************************************************)
(* What Presence keeps, for every number of users, devices, instances and   *)
(* faults.  Whatever is said about a user was true at the epoch it carries; *)
(* since the epoch moves whenever the truth does, what carries the present  *)
(* epoch is true now.  And each epoch is on its way to every device that    *)
(* should hear of it, unless somebody failed to say it.                     *)
(****************************************************************************)
EXTENDS Presence, SequenceTheorems, TLAPS

\* That u is online, or not, was decided at epoch n; a read that missed u may only
\* have taken for offline a user who was online.
Right(u, n, seen, miss) ==
    /\ n <= epoch[u]
    /\ n = epoch[u] => /\ seen => Room(u) # {}
                       /\ Room(u) # {} => seen \/ miss

Began == \A u \in User : epoch[u] = 0 => Room(u) = {}

Own(t) == Owner[t.socket]
Asking(t, s) == t.socket = s /\ t.pc = "reading"

\* What a handler knows at each of its awaits.
ReadingOK(t) ==
    /\ t.socket \in on \cap Watching /\ t.kind \in {"connect", "get"}
    /\ t.todo \subseteq Friends[Own(t)] /\ t.found \cap t.todo = {}
    /\ \A v \in Friends[Own(t)] : t.at[v] <= epoch[v]
    /\ \A v \in Friends[Own(t)] \ t.todo : Right(v, t.at[v], v \in t.found, v \in t.torn)
    /\ t.kind = "connect" => Right(Own(t), t.at[Own(t)], TRUE, FALSE)
LookingOK(t) ==
    /\ t.kind = "leave" /\ t.todo = {Own(t)} /\ t.found = {}
    /\ t.rest \subseteq {Own(t)} \X Instance
    /\ t.at[Own(t)] <= epoch[Own(t)]
AnnouncingOK(t) ==
    /\ t.kind \in {"connect", "leave"} /\ t.rest = {}
    /\ Right(Own(t), t.at[Own(t)], t.kind = "connect", Own(t) \in t.torn)
TaskOK(t) ==
    /\ t.pc = "reading" => ReadingOK(t)
    /\ t.pc = "announcing" => AnnouncingOK(t)
    /\ t.pc = "looking" => LookingOK(t)
TasksOK == \A t \in tasks : TaskOK(t)

Events(q) == {q[n] : n \in DOMAIN q}
EventOK(e, s) ==
    /\ e.snapshot => e.about = Friends[Owner[s]]
    /\ ~e.snapshot => e.online \subseteq e.about
    /\ \A v \in e.about : Right(v, e.at[v], v \in e.online, v \in e.torn)
EventsOK == \A s \in Socket : \A e \in Events(wire[s]) : EventOK(e, s)

ShownOK ==
    \A s \in Socket : \A v \in Friends[Owner[s]] :
        Right(v, told[s][v], v \in shown[s], v \in torn[s])

\* The present epoch of u has been, or will be, told to device s.
WillTell(t, u) == Own(t) = u /\ Telling(t)
UnderWay(s, u) == \E e \in Events(wire[s]) : u \in e.about /\ e.at[u] = epoch[u]
Said(s, u) ==
    \/ newest[s][u] = epoch[u]
    \/ unsaid[u] = epoch[u]
    \/ UnderWay(s, u)
    \/ \E t \in tasks : WillTell(t, u)

\* Or u has neither come nor gone since s connected: then whatever snapshot it gets
\* is of the present epoch, and that of its connection is still to come or has failed.
NoAnswer(s) == \A e \in Events(wire[s]) : ~e.snapshot
Unread(t, u) == u \in t.todo /\ \A i \in Instance : <<u, i>> \notin t.rest
Fresh(t, u) == Unread(t, u) \/ t.at[u] = epoch[u]
Awaited(s, u) ==
    /\ NoAnswer(s)
    /\ \A t \in tasks : Asking(t, s) => Fresh(t, u)
    /\ s \in blind \/ \E t \in tasks : Asking(t, s) /\ t.kind = "connect"
Cover ==
    \A s \in on \cap Watching : \A u \in Friends[Owner[s]] : Said(s, u) \/ Awaited(s, u)

PresenceInv == TypeOK /\ Began /\ TasksOK /\ EventsOK /\ ShownOK /\ Cover

------------------------------------------------------------------------------
(* The operators *)

LEMMA AddedEvent ==
    ASSUME NEW q \in Seq(Event), NEW e \in Event
    PROVE  /\ Append(q, e) \in Seq(Event) /\ Append(q, e) # <<>>
           /\ Events(Append(q, e)) = Events(q) \cup {e}
<1>1. /\ Append(q, e) \in Seq(Event) /\ Len(Append(q, e)) = Len(q) + 1
      /\ DOMAIN Append(q, e) = 1 .. Len(q) + 1 /\ DOMAIN q = 1 .. Len(q)
      /\ Len(q) \in Nat
      /\ \A n \in 1 .. Len(q) : Append(q, e)[n] = q[n]
      /\ Append(q, e)[Len(q) + 1] = e
  OBVIOUS
<1>2. \A n \in 1 .. Len(q) + 1 : n \in 1 .. Len(q) \/ n = Len(q) + 1
  BY <1>1
<1>3. 1 .. Len(q) \subseteq 1 .. Len(q) + 1 /\ Len(q) + 1 \in 1 .. Len(q) + 1
  BY <1>1
<1>4. Events(Append(q, e)) = Events(q) \cup {e}
  BY <1>1, <1>2, <1>3 DEF Events
<1>5. Append(q, e) # <<>>
  BY <1>1
<1> QED BY <1>1, <1>4, <1>5

LEMMA TakenEvent ==
    ASSUME NEW q \in Seq(Event), q # <<>>
    PROVE  /\ Head(q) \in Event /\ Tail(q) \in Seq(Event)
           /\ Events(q) = Events(Tail(q)) \cup {Head(q)}
<1>1. /\ Len(q) \in Nat /\ Len(q) >= 1 /\ DOMAIN q = 1 .. Len(q) /\ Head(q) = q[1]
      /\ Tail(q) \in Seq(Event) /\ DOMAIN Tail(q) = 1 .. Len(q) - 1
      /\ \A n \in 1 .. Len(q) - 1 : Tail(q)[n] = q[n + 1]
      /\ \A n \in 1 .. Len(q) : q[n] \in Event
  OBVIOUS
<1>2. \A n \in 1 .. Len(q) : n = 1 \/ (n - 1 \in 1 .. Len(q) - 1 /\ q[n] = Tail(q)[n - 1])
  BY <1>1
<1>3. 1 \in 1 .. Len(q) /\ \A n \in 1 .. Len(q) - 1 : n + 1 \in 1 .. Len(q)
  BY <1>1
<1>4. Events(q) \subseteq Events(Tail(q)) \cup {Head(q)}
  <2> SUFFICES ASSUME NEW n \in 1 .. Len(q)
               PROVE  q[n] = Head(q) \/ q[n] \in Events(Tail(q))
    BY <1>1 DEF Events
  <2>1. CASE n = 1
    BY <1>1, <2>1
  <2>2. CASE n - 1 \in DOMAIN Tail(q) /\ q[n] = Tail(q)[n - 1]
    BY <2>2 DEF Events
  <2> QED BY <1>1, <1>2, <2>1, <2>2
<1>5. Events(Tail(q)) \cup {Head(q)} \subseteq Events(q)
  BY <1>1, <1>3 DEF Events
<1> QED BY <1>1, <1>3, <1>4, <1>5

LEMMA NoEvent == Events(<<>>) = {}
BY DEF Events

LEMMA EventsTyped == ASSUME NEW q \in Seq(Event) PROVE Events(q) \subseteq Event
BY DEF Events

LEMMA TaskShape ==
    ASSUME NEW t \in Task
    PROVE  /\ t.socket \in Socket /\ Own(t) \in User /\ Own(t) = Owner[t.socket]
           /\ t.kind \in {"connect", "get", "leave"}
           /\ t.pc \in {"reading", "looking", "announcing"}
           /\ t.todo \subseteq User /\ t.found \subseteq User /\ t.torn \subseteq User
           /\ t.rest \subseteq User \X Instance /\ t.at \in Epochs
BY PresenceAssumption DEF Task, Own

LEMMA AnnouncingIs ==
    ASSUME NEW t \in Task, NEW n \in Nat, NEW a, a = Announcing(t, n)
    PROVE  /\ a \in Task /\ a.kind = t.kind /\ a.socket = t.socket /\ Own(a) = Own(t)
           /\ a.pc = "announcing" /\ a.rest = {} /\ a.at[Own(t)] = n
           /\ Own(t) \in a.torn <=> Own(t) \in t.torn
<1>1. Own(t) \in User /\ Own(t) = Owner[t.socket] /\ t.torn \subseteq User
  BY TaskShape
<1>2. [Zero EXCEPT ![Own(t)] = n] \in Epochs /\ [Zero EXCEPT ![Own(t)] = n][Own(t)] = n
  BY <1>1 DEF Zero, Epochs
<1>3. a = [t EXCEPT !.pc = "announcing", !.todo = {}, !.rest = {}, !.found = {},
                    !.torn = t.torn \cap {Own(t)},
                    !.at = [Zero EXCEPT ![Own(t)] = n]]
  BY <1>1 DEF Announcing, Task
<1>4. /\ a.at = [Zero EXCEPT ![Own(t)] = n] /\ a.kind = t.kind /\ a.socket = t.socket
      /\ a.pc = "announcing" /\ a.rest = {} /\ a.torn = t.torn \cap {Own(t)}
  BY <1>3 DEF Task
<1>5. a \in Task
  <2>1. PICK at : at = [Zero EXCEPT ![Own(t)] = n]
    OBVIOUS
  <2>2. PICK miss : miss = t.torn \cap {Own(t)}
    OBVIOUS
  <2>3. at \in Epochs /\ miss \in SUBSET User
    BY <1>1, <1>2, <2>1, <2>2
  <2>4. a = [t EXCEPT !.pc = "announcing", !.todo = {}, !.rest = {}, !.found = {},
                      !.torn = miss, !.at = at]
    BY <1>3, <2>1, <2>2
  <2> QED BY <2>3, <2>4 DEF Task
<1> QED BY <1>2, <1>4, <1>5 DEF Own

LEMMA LookingIs ==
    ASSUME NEW s \in Socket, NEW n \in Nat, NEW l, l = Looking(s, n)
    PROVE  /\ l \in Task /\ l.kind = "leave" /\ l.socket = s /\ Own(l) = Owner[s]
           /\ l.pc = "looking" /\ l.todo = {Owner[s]} /\ l.found = {}
           /\ l.rest = {Owner[s]} \X Instance /\ l.at[Owner[s]] = n
<1>1. Owner[s] \in User /\ Twin(s, "leave") \in BOOLEAN
  BY PresenceAssumption DEF Twin
<1>2. [Zero EXCEPT ![Owner[s]] = n] \in Epochs /\ [Zero EXCEPT ![Owner[s]] = n][Owner[s]] = n
  BY <1>1 DEF Zero, Epochs
<1> QED BY <1>1, <1>2 DEF Looking, Task, Own

LEMMA ReadingIs ==
    ASSUME NEW s \in Socket, NEW k \in {"connect", "get"}, NEW at \in Epochs,
           NEW r, r = Reading(s, k, at)
    PROVE  /\ r \in Task /\ r.kind = k /\ r.socket = s /\ Own(r) = Owner[s] /\ r.pc = "reading"
           /\ r.todo = Friends[Owner[s]] /\ r.rest = {} /\ r.found = {} /\ r.at = at
<1>1. Twin(s, k) \in BOOLEAN /\ Friends[Owner[s]] \subseteq User
  BY PresenceAssumption DEF Twin
<1> QED BY <1>1 DEF Reading, Task, Own

\* What an answer about u makes, as c, of handler t while the sockets of S are
\* connected and the epochs are n.
AnswerTaken(c, t, u, S, n) ==
    /\ c \in Task /\ c.kind = t.kind /\ c.socket = t.socket /\ Own(c) = Own(t)
    /\ c.pc = t.pc /\ c.at = t.at
    /\ c.rest \subseteq t.rest /\ c.todo \subseteq t.todo /\ t.todo \ {u} \subseteq c.todo
    /\ t.torn \subseteq c.torn
    /\ \/ c.found = t.found
       \/ c.found = t.found \cup {u} /\ u \notin c.todo /\ Online(u, S)
    /\ u \in t.todo \ c.todo =>
          u \in c.found \/ (Online(u, S) /\ t.at[u] = n[u] => u \in c.torn)

LEMMA CountedIs ==
    ASSUME NEW t \in Task, NEW u \in User, NEW i \in Instance, NEW S \in SUBSET Socket,
           NEW n \in Epochs
    PROVE  AnswerTaken(Counted(t, u, i, S, n), t, u, S, n)
<1>0. PICK c : c = Counted(t, u, i, S, n)
  OBVIOUS
<1>1. PICK there : there = (\E s \in S : Owner[s] = u /\ Home[s] = i)
  OBVIOUS
<1>2. PICK last : last = (t.rest \subseteq {<<u, i>>})
  OBVIOUS
<1>3. PICK missed : missed = (~there /\ last /\ Online(u, S) /\ t.at[u] = n[u])
  OBVIOUS
<1>4. there \in BOOLEAN /\ last \in BOOLEAN /\ missed \in BOOLEAN /\ (there => Online(u, S))
  BY <1>1, <1>2, <1>3 DEF Online
<1>5. c = [t EXCEPT !.rest = IF there THEN {} ELSE t.rest \ {<<u, i>>},
                    !.todo = IF there \/ last THEN t.todo \ {u} ELSE t.todo,
                    !.found = IF there THEN t.found \cup {u} ELSE t.found,
                    !.torn = IF missed THEN t.torn \cup {u} ELSE t.torn]
  BY <1>0, <1>1, <1>2, <1>3 DEF Counted, Task
<1>6. /\ t.todo \subseteq User /\ t.found \subseteq User /\ t.torn \subseteq User
      /\ t.rest \subseteq User \X Instance
  BY TaskShape
<1>7. /\ c.rest = IF there THEN {} ELSE t.rest \ {<<u, i>>}
      /\ c.todo = IF there \/ last THEN t.todo \ {u} ELSE t.todo
      /\ c.found = IF there THEN t.found \cup {u} ELSE t.found
      /\ c.torn = IF missed THEN t.torn \cup {u} ELSE t.torn
      /\ c.kind = t.kind /\ c.socket = t.socket /\ c.pc = t.pc /\ c.at = t.at
  BY <1>5 DEF Task
<1>8. c \in Task
  <2>1. /\ (IF there THEN {} ELSE t.rest \ {<<u, i>>}) \in SUBSET (User \X Instance)
        /\ (IF there \/ last THEN t.todo \ {u} ELSE t.todo) \in SUBSET User
        /\ (IF there THEN t.found \cup {u} ELSE t.found) \in SUBSET User
        /\ (IF missed THEN t.torn \cup {u} ELSE t.torn) \in SUBSET User
    BY <1>6
  <2> QED BY <1>5, <2>1 DEF Task
<1>9. u \in t.todo \ c.todo =>
          u \in c.found \/ (Online(u, S) /\ t.at[u] = n[u] => u \in c.torn)
  BY <1>3, <1>4, <1>7
<1> QED BY <1>0, <1>4, <1>7, <1>8, <1>9 DEF Own, AnswerTaken

\* The handler of a disconnect goes on looking, announces, or has found somebody.
LooksOn(G, t, u, S, n) ==
    /\ G \subseteq Task /\ (~Online(u, S) => G # {})
    /\ \A g \in G : /\ g.kind = "leave" /\ g.socket = t.socket /\ g.at[u] = t.at[u]
                    /\ g.pc \in {"looking", "announcing"} /\ g.rest \subseteq t.rest
                    /\ g.pc = "looking" => g.todo = {u} /\ g.found = {}
                    /\ g.pc = "announcing" =>
                          g.rest = {} /\ (Online(u, S) /\ t.at[u] = n[u] => u \in g.torn)

LEMMA LookingGoes ==
    ASSUME NEW t \in Task, t.pc = "looking", t.kind = "leave", NEW u, u = Own(t),
           t.todo = {u}, t.found = {}, NEW i \in Instance, NEW S \in SUBSET Socket,
           NEW n \in Epochs
    PROVE  LooksOn(Going(Counted(t, u, i, S, n)), t, u, S, n)
<1>0. PICK G : G = Going(Counted(t, u, i, S, n))
  OBVIOUS
<1>1. u \in User /\ t.at[u] \in Nat
  BY TaskShape DEF Epochs
<1>2. PICK c : c = Counted(t, u, i, S, n)
  OBVIOUS
<1>3. /\ c \in Task /\ c.kind = "leave" /\ c.socket = t.socket /\ Own(c) = u
      /\ c.pc = "looking" /\ c.at = t.at /\ c.rest \subseteq t.rest /\ c.todo \subseteq {u}
      /\ c.found = {} \/ (c.found = {u} /\ u \notin c.todo /\ Online(u, S))
      /\ u \notin c.todo => u \in c.found \/ (Online(u, S) /\ t.at[u] = n[u] => u \in c.torn)
  <2>1. AnswerTaken(c, t, u, S, n)
    BY <1>1, <1>2, CountedIs
  <2> QED BY <2>1 DEF AnswerTaken
<1>4. PICK a : a = Announcing(c, t.at[u])
  OBVIOUS
<1>5. /\ a \in Task /\ a.kind = "leave" /\ a.socket = t.socket /\ a.pc = "announcing"
      /\ a.rest = {} /\ a.at[u] = t.at[u] /\ (u \in a.torn <=> u \in c.torn)
  <2>1. c \in Task /\ Own(c) = u /\ c.kind = "leave" /\ c.socket = t.socket
    BY <1>3
  <2> QED BY <1>1, <1>4, <2>1, AnnouncingIs
<1>6. G = IF c.todo # {} THEN {c} ELSE IF c.found = {} THEN {a} ELSE {}
  <2>1. Owner[c.socket] = u
    BY <1>3 DEF Own
  <2> QED BY <1>0, <1>2, <1>3, <1>4, <2>1 DEF Going
<1>7. CASE c.todo # {}
  <2>1. G = {c} /\ c.todo = {u} /\ c.found = {}
    BY <1>3, <1>6, <1>7
  <2> QED BY <1>0, <1>3, <2>1 DEF LooksOn
<1>8. CASE c.todo = {} /\ c.found = {}
  <2>1. G = {a} /\ (Online(u, S) /\ t.at[u] = n[u] => u \in a.torn)
    BY <1>3, <1>5, <1>6, <1>8
  <2> QED BY <1>0, <1>5, <2>1 DEF LooksOn
<1>9. CASE c.todo = {} /\ c.found # {}
  <2>1. G = {} /\ Online(u, S)
    BY <1>3, <1>6, <1>9
  <2> QED BY <1>0, <2>1 DEF LooksOn
<1> QED BY <1>7, <1>8, <1>9

\* The tasks that go on, those that are told to, and those that are dropped.
LEMMA FollowedIs ==
    ASSUME NEW T \in SUBSET Task, NEW S \in SUBSET Socket, NEW F, F = Followed(T, S)
    PROVE  /\ F \subseteq Task
           /\ \A r \in F : \/ r \in T /\ (r.pc = "reading" => r.socket \in S)
                           \/ \E t \in T : /\ t.pc = "reading" /\ t.kind = "connect"
                                           /\ t.socket \notin S
                                           /\ r = Announcing(t, t.at[Own(t)])
           /\ \A t \in T : t.pc = "reading" /\ t.socket \in S => t \in F
           /\ \A t \in T : t.pc # "reading" /\ Heard(t) => t \in F
           /\ \A t \in T : /\ t.pc = "reading" /\ t.kind = "connect" /\ t.socket \notin S
                           /\ Heard(t)
                           => Announcing(t, t.at[Own(t)]) \in F
<1> DEFINE R == {t \in T : t.pc = "reading" /\ t.socket \notin S}
           A == UNION {AfterSnapshot(t) : t \in R}
<1>1. F = {t \in (T \ R) \cup A : t.pc = "reading" \/ Heard(t)}
  BY DEF Followed
<1>2. \A r \in A : \E t \in R : t.kind = "connect" /\ r = Announcing(t, t.at[Own(t)])
  BY DEF AfterSnapshot, Own
<1>3. \A t \in R : t.kind = "connect" => Announcing(t, t.at[Own(t)]) \in A
  BY DEF AfterSnapshot, Own
<1>4. \A t \in R : /\ Announcing(t, t.at[Own(t)]) \in Task
                   /\ Announcing(t, t.at[Own(t)]).socket = t.socket
  <2>1. TAKE t \in R
  <2>2. t \in Task /\ t.at[Own(t)] \in Nat
    BY TaskShape DEF Epochs
  <2> QED BY <2>2, AnnouncingIs
<1>5. \A t \in R : Heard(t) => Heard(Announcing(t, t.at[Own(t)]))
  BY <1>4 DEF Heard
<1> HIDE DEF A
<1>6. F \subseteq Task
  BY <1>1, <1>2, <1>4
<1>7. \A r \in F : \/ r \in T /\ (r.pc = "reading" => r.socket \in S)
                   \/ \E t \in T : /\ t.pc = "reading" /\ t.kind = "connect"
                                   /\ t.socket \notin S
                                   /\ r = Announcing(t, t.at[Own(t)])
  BY <1>1, <1>2
<1>8. \A t \in T : t.pc = "reading" /\ t.socket \in S => t \in F
  BY <1>1
<1>9. \A t \in T : t.pc # "reading" /\ Heard(t) => t \in F
  BY <1>1
<1>10. \A t \in T : /\ t.pc = "reading" /\ t.kind = "connect" /\ t.socket \notin S
                    /\ Heard(t)
                    => Announcing(t, t.at[Own(t)]) \in F
  BY <1>1, <1>3, <1>5
<1> QED BY <1>6, <1>7, <1>8, <1>9, <1>10

\* Whoever has a followed friend is heard.
LEMMA FriendsHear ==
    ASSUME NEW t \in Task, NEW s \in Watching, Own(t) \in Friends[Owner[s]]
    PROVE  Heard(t)
BY TaskShape, PresenceAssumption DEF Heard

------------------------------------------------------------------------------
(* Steps after which everybody is online as before *)

LEMMA InvTypes ==
    ASSUME PresenceInv
    PROVE  /\ on \in SUBSET Socket /\ blind \subseteq on /\ tasks \in SUBSET Task
           /\ wire \in [Socket -> Seq(Event)] /\ shown \in [Socket -> SUBSET User]
           /\ epoch \in Epochs /\ unsaid \in Epochs
           /\ told \in [Socket -> Epochs] /\ newest \in [Socket -> Epochs]
           /\ torn \in [Socket -> SUBSET User]
           /\ visits \in [Socket -> Nat] /\ asks \in Nat /\ faults \in Nat
BY DEF PresenceInv, TypeOK

LEMMA Steady ==
    ASSUME PresenceInv, on' = on, epoch' = epoch
    PROVE  /\ Began'
           /\ \A t \in Task : TaskOK(t)' <=> TaskOK(t)
           /\ \A s \in Socket, e \in Event : EventOK(e, s)' <=> EventOK(e, s)
           /\ \A t \in Task, u \in User : WillTell(t, u)' <=> WillTell(t, u)
           /\ \A t \in Task, u \in User : Fresh(t, u)' <=> Fresh(t, u)
<1>1. Began'
  BY DEF PresenceInv, Began, Room
<1>2. \A t \in Task : TaskOK(t)' <=> TaskOK(t)
  BY DEF TaskOK, ReadingOK, LookingOK, AnnouncingOK, Right, Room, Own
<1>3. \A s \in Socket, e \in Event : EventOK(e, s)' <=> EventOK(e, s)
  BY DEF EventOK, Right, Room
<1>4. \A t \in Task, u \in User : WillTell(t, u)' <=> WillTell(t, u)
  BY DEF WillTell, Telling, Room, Own
<1>5. \A t \in Task, u \in User : Fresh(t, u)' <=> Fresh(t, u)
  BY DEF Fresh, Unread
<1> QED BY <1>1, <1>2, <1>3, <1>4, <1>5

\* What such a step says of the tasks suffices when it leaves wires and displays alone.
TasksStep ==
    /\ tasks' \subseteq Task /\ blind \subseteq blind' /\ blind' \subseteq on
    /\ asks' \in Nat /\ faults' \in Nat /\ unsaid' \in Epochs
    /\ UNCHANGED <<on, wire, shown, epoch, told, newest, torn, visits>>

LEMMA TasksStepKeeps ==
    ASSUME PresenceInv, TasksStep
    PROVE  TypeOK' /\ Began' /\ EventsOK' /\ ShownOK'
<1>1. TypeOK'
  BY InvTypes DEF TasksStep, PresenceInv, TypeOK
<1>2. EventsOK'
  BY InvTypes, Steady, EventsTyped DEF TasksStep, PresenceInv, EventsOK
<1>3. ShownOK'
  BY DEF TasksStep, PresenceInv, ShownOK, Right, Room
<1> QED BY <1>1, <1>2, <1>3, Steady DEF TasksStep

LEMMA RefreshKeeps ==
    ASSUME PresenceInv, NEW s \in Socket, Refresh(s)
    PROVE  PresenceInv'
<1>1. PICK r : r = Reading(s, "get", Zero)
  OBVIOUS
<1>2. Zero \in Epochs /\ \A v \in User : Zero[v] = 0
  BY DEF Zero, Epochs
<1>3. /\ r \in Task /\ r.kind = "get" /\ r.socket = s /\ Own(r) = Owner[s]
      /\ r.pc = "reading" /\ r.todo = Friends[Owner[s]] /\ r.rest = {} /\ r.found = {}
      /\ r.at = Zero
  BY <1>1, <1>2, ReadingIs
<1>4. tasks' = tasks \cup {r} /\ s \in on \cap Watching
  BY <1>1 DEF Refresh
<1>5. Friends[Owner[s]] \subseteq User
  BY PresenceAssumption
<1>6. /\ UNCHANGED <<on, wire, shown, epoch, told, newest, torn, unsaid, blind, visits, faults>>
      /\ tasks \in SUBSET Task /\ asks' \in Nat
  BY InvTypes DEF Refresh
<1>7. TasksStep
  BY <1>3, <1>4, <1>6, InvTypes DEF TasksStep
<1>8. TasksOK'
  <2>1. \A v \in Friends[Owner[s]] : r.at[v] <= epoch[v]
    BY <1>2, <1>3, <1>5, InvTypes DEF Epochs
  <2>2. TaskOK(r)
    BY <1>3, <1>4, <2>1 DEF TaskOK, ReadingOK
  <2> QED BY <1>3, <1>4, <1>6, <2>2, Steady DEF PresenceInv, TasksOK
<1>9. Cover'
  <2> SUFFICES ASSUME NEW d \in on \cap Watching, NEW u \in Friends[Owner[d]]
               PROVE  Said(d, u)' \/ Awaited(d, u)'
    BY <1>6 DEF Cover
  <2>1. d \in Socket /\ u \in User
    BY InvTypes, PresenceAssumption
  <2>2. CASE Said(d, u)
    BY <1>4, <1>6, <2>1, <2>2, Steady DEF Said, UnderWay
  <2>3. CASE Awaited(d, u)
    <3>1. Asking(r, d) => Fresh(r, u)
      BY <1>3 DEF Asking, Fresh, Unread
    <3>2. \A t \in tasks' : Asking(t, d) => Fresh(t, u)'
      BY <1>3, <1>4, <1>6, <2>1, <2>3, <3>1, Steady DEF Awaited
    <3> QED BY <1>4, <1>6, <2>3, <3>2 DEF Awaited, Asking, NoAnswer
  <2> QED BY <2>2, <2>3 DEF PresenceInv, Cover
<1> QED BY <1>7, <1>8, <1>9, TasksStepKeeps DEF PresenceInv

\* A handler of which the tasks of F are left: it tells what it would have told, and
\* a snapshot goes on being assembled.
LEMMA HandlerGoesOn ==
    ASSUME PresenceInv, NEW t \in tasks, NEW F \in SUBSET Task, \A r \in F : TaskOK(r),
           tasks' = (tasks \ {t}) \cup F,
           UNCHANGED <<on, wire, shown, epoch, told, newest, torn, unsaid, blind, visits, asks,
                       faults>>,
           \A u \in User : WillTell(t, u) => \E r \in F : WillTell(r, u),
           t.pc = "reading" => \E r \in F : /\ r.pc = "reading" /\ r.socket = t.socket
                                            /\ r.kind = t.kind,
           \A r \in F : r.pc = "reading" => /\ t.pc = "reading" /\ r.socket = t.socket
                                            /\ \A u \in User : Fresh(t, u) => Fresh(r, u)
    PROVE  PresenceInv'
<1>1. TasksStep
  BY InvTypes DEF TasksStep
<1>2. TasksOK'
  BY InvTypes, Steady DEF PresenceInv, TasksOK
<1>3. Cover'
  <2> SUFFICES ASSUME NEW d \in on \cap Watching, NEW u \in Friends[Owner[d]]
               PROVE  Said(d, u)' \/ Awaited(d, u)'
    BY DEF Cover
  <2>1. d \in Socket /\ u \in User
    BY InvTypes, PresenceAssumption
  <2>2. CASE Said(d, u)
    <3>1. (\E r \in tasks : WillTell(r, u)) => \E r \in tasks' : WillTell(r, u)
      BY <2>1
    <3>2. (\E r \in tasks : WillTell(r, u)) => \E r \in tasks' : WillTell(r, u)'
      BY <2>1, <3>1, Steady, InvTypes
    <3> QED BY <2>2, <3>2 DEF Said, UnderWay
  <2>3. CASE Awaited(d, u)
    <3>1. \A r \in tasks' : Asking(r, d) => Fresh(r, u)
      BY <2>1, <2>3 DEF Awaited, Asking
    <3>2. \A r \in tasks' : Asking(r, d) => Fresh(r, u)'
      BY <2>1, <3>1, Steady, InvTypes
    <3>3. (\E r \in tasks : Asking(r, d) /\ r.kind = "connect")
          => \E r \in tasks' : Asking(r, d) /\ r.kind = "connect"
      BY DEF Asking
    <3> QED BY <2>3, <3>2, <3>3 DEF Awaited, Asking, NoAnswer
  <2> QED BY <2>2, <2>3 DEF PresenceInv, Cover
<1> QED BY <1>1, <1>2, <1>3, TasksStepKeeps DEF PresenceInv

LEMMA OneGoesOn ==
    ASSUME PresenceInv, NEW t \in tasks, NEW c \in Task, TaskOK(c),
           tasks' = (tasks \ {t}) \cup {c},
           UNCHANGED <<on, wire, shown, epoch, told, newest, torn, unsaid, blind, visits, asks,
                       faults>>,
           t.pc = "reading", c.pc = "reading", c.socket = t.socket, c.kind = t.kind,
           \A u \in User : WillTell(t, u) => WillTell(c, u),
           \A u \in User : Fresh(t, u) => Fresh(c, u)
    PROVE  PresenceInv'
<1>1. PICK F : F = {c}
  OBVIOUS
<1>2. F \in SUBSET Task /\ \A r \in F : TaskOK(r)
  BY <1>1
<1>3. \A u \in User : WillTell(t, u) => \E r \in F : WillTell(r, u)
  BY <1>1
<1>4. \E r \in F : r.pc = "reading" /\ r.socket = t.socket /\ r.kind = t.kind
  BY <1>1
<1>5. \A r \in F : r.pc = "reading" => /\ t.pc = "reading" /\ r.socket = t.socket
                                       /\ \A u \in User : Fresh(t, u) => Fresh(r, u)
  BY <1>1
<1>6. tasks' = (tasks \ {t}) \cup F
  BY <1>1
<1> QED BY <1>2, <1>3, <1>4, <1>5, <1>6, HandlerGoesOn

LEMMA CountedOK ==
    ASSUME PresenceInv, NEW t \in Task, t.pc = "reading", ReadingOK(t), NEW u \in User,
           NEW i \in Instance, NEW c, c = Counted(t, u, i, on, epoch)
    PROVE  ReadingOK(c)
<1>1. on \in SUBSET Socket /\ epoch \in Epochs
  BY InvTypes
<1>2. /\ c \in Task /\ c.kind = t.kind /\ c.socket = t.socket /\ Own(c) = Own(t)
      /\ c.at = t.at /\ c.todo \subseteq t.todo /\ t.todo \ {u} \subseteq c.todo
      /\ t.torn \subseteq c.torn
      /\ \/ c.found = t.found
         \/ c.found = t.found \cup {u} /\ u \notin c.todo /\ Online(u, on)
      /\ u \in t.todo \ c.todo =>
            u \in c.found \/ (Online(u, on) /\ t.at[u] = epoch[u] => u \in c.torn)
  BY <1>1, CountedIs DEF AnswerTaken
<1>3. Online(u, on) <=> Room(u) # {}
  BY DEF Online, Room
<1>4. ASSUME NEW v \in Friends[Own(t)] \ c.todo
      PROVE  Right(v, c.at[v], v \in c.found, v \in c.torn)
  <2>1. t.at[v] <= epoch[v]
    BY DEF ReadingOK
  <2>2. CASE v \notin t.todo
    <3>1. Right(v, t.at[v], v \in t.found, v \in t.torn)
      BY <2>2 DEF ReadingOK
    <3> QED BY <1>2, <1>3, <3>1 DEF Right
  <2>3. CASE v \in t.todo
    <3>1. v = u /\ u \in t.todo \ c.todo /\ u \notin t.found
      BY <1>2, <1>4, <2>3 DEF ReadingOK
    <3> QED BY <1>2, <1>3, <2>1, <3>1 DEF Right
  <2> QED BY <2>2, <2>3
<1>5. c.found \cap c.todo = {}
  BY <1>2 DEF ReadingOK
<1> QED BY <1>2, <1>4, <1>5 DEF ReadingOK

LEMMA ReadFriendKeeps ==
    ASSUME PresenceInv, NEW t \in tasks, NEW u \in User, ReadFriend(t, u)
    PROVE  PresenceInv'
<1>1. PICK k : k = [t EXCEPT !.at[u] = epoch[u], !.rest = {u} \X Instance]
  OBVIOUS
<1>2. /\ t \in Task /\ epoch \in Epochs /\ on \in SUBSET Socket /\ t.at \in Epochs
      /\ Home[t.socket] \in Instance /\ t.socket \in Socket
  BY InvTypes, TaskShape, PresenceAssumption
<1>3. /\ k \in Task /\ k.kind = t.kind /\ k.socket = t.socket /\ k.pc = t.pc /\ Own(k) = Own(t)
      /\ k.todo = t.todo /\ k.found = t.found /\ k.torn = t.torn /\ k.rest = {u} \X Instance
      /\ k.at = [t.at EXCEPT ![u] = epoch[u]]
  <2>1. [t.at EXCEPT ![u] = epoch[u]] \in Epochs /\ {u} \X Instance \in SUBSET (User \X Instance)
    BY <1>2 DEF Epochs
  <2> HIDE DEF Epochs
  <2>2. k = [t EXCEPT !.at = [t.at EXCEPT ![u] = epoch[u]], !.rest = {u} \X Instance]
    BY <1>1, <1>2 DEF Task
  <2> QED BY <1>2, <2>1, <2>2 DEF Task, Own
<1>4. k.at[u] = epoch[u] /\ \A v \in User \ {u} : k.at[v] = t.at[v]
  BY <1>2, <1>3 DEF Epochs
<1>5. PICK c : c = Counted(k, u, Home[t.socket], on, epoch)
  OBVIOUS
<1>6. /\ tasks' = (tasks \ {t}) \cup {c} /\ t.pc = "reading" /\ t.rest = {} /\ u \in t.todo
      /\ UNCHANGED <<on, wire, shown, epoch, told, newest, torn, unsaid, blind, visits, asks,
                     faults>>
  BY <1>1, <1>5 DEF ReadFriend
<1>7. /\ c \in Task /\ c.kind = k.kind /\ c.socket = k.socket /\ c.pc = k.pc /\ c.at = k.at
      /\ c.rest \subseteq k.rest /\ k.todo \ {u} \subseteq c.todo /\ Own(c) = Own(k)
  BY <1>2, <1>3, <1>5, CountedIs DEF AnswerTaken
<1>8. ReadingOK(t)
  BY <1>6 DEF PresenceInv, TasksOK, TaskOK
<1>9. u # Own(t) /\ Own(t) \in User /\ Friends[Own(t)] \subseteq User
  BY <1>2, <1>6, <1>8, TaskShape, PresenceAssumption DEF Own, ReadingOK
<1>10. ReadingOK(k)
  <2>1. ASSUME NEW v \in Friends[Own(t)] PROVE k.at[v] <= epoch[v]
    BY <1>2, <1>4, <1>8, <1>9 DEF ReadingOK, Epochs
  <2>2. ASSUME NEW v \in Friends[Own(t)] \ t.todo
        PROVE  Right(v, k.at[v], v \in t.found, v \in t.torn)
    <3>1. v # u /\ v \in User
      BY <1>6, <1>9, <2>2
    <3> QED BY <1>4, <1>8, <3>1 DEF ReadingOK
  <2>3. t.kind = "connect" => Right(Own(t), k.at[Own(t)], TRUE, FALSE)
    BY <1>4, <1>8, <1>9 DEF ReadingOK
  <2> QED BY <1>3, <1>8, <2>1, <2>2, <2>3 DEF ReadingOK
<1>11. TaskOK(c)
  <2>1. ReadingOK(c)
    BY <1>2, <1>3, <1>5, <1>6, <1>10, CountedOK
  <2> QED BY <1>3, <1>6, <1>7, <2>1 DEF TaskOK
<1>12. \A v \in User : WillTell(t, v) => WillTell(c, v)
  BY <1>3, <1>4, <1>6, <1>7, <1>9 DEF WillTell, Telling, Own
<1>13. \A v \in User : Fresh(t, v) => Fresh(c, v)
  <2> SUFFICES ASSUME NEW v \in User, Fresh(t, v) PROVE Fresh(c, v)
    OBVIOUS
  <2>1. CASE v = u
    BY <1>4, <1>7, <2>1 DEF Fresh
  <2>2. CASE v # u
    <3>1. \A i \in Instance : <<v, i>> \notin c.rest
      BY <1>3, <1>7, <2>2
    <3> QED BY <1>3, <1>4, <1>7, <2>2, <3>1 DEF Fresh, Unread
  <2> QED BY <2>1, <2>2
<1> QED BY <1>3, <1>6, <1>7, <1>11, <1>12, <1>13, OneGoesOn

LEMMA AnswerKeeps ==
    ASSUME PresenceInv, NEW t \in tasks, NEW u \in User, NEW i \in Instance, Answer(t, u, i)
    PROVE  PresenceInv'
<1>1. PICK c : c = Counted(t, u, i, on, epoch)
  OBVIOUS
<1>2. PICK G : G = Going(c)
  OBVIOUS
<1>3. /\ t \in Task /\ TaskOK(t) /\ epoch \in Epochs /\ on \in SUBSET Socket
      /\ t.pc \in {"reading", "looking", "announcing"}
  BY InvTypes, TaskShape DEF PresenceInv, TasksOK
<1>4. /\ tasks' = (tasks \ {t}) \cup G /\ <<u, i>> \in t.rest
      /\ UNCHANGED <<on, wire, shown, epoch, told, newest, torn, unsaid, blind, visits, asks,
                     faults>>
  BY <1>1, <1>2 DEF Answer
<1>5. CASE t.pc = "reading"
  <2>1. /\ c \in Task /\ c.kind = t.kind /\ c.socket = t.socket /\ c.pc = t.pc /\ c.at = t.at
        /\ c.rest \subseteq t.rest /\ t.todo \ {u} \subseteq c.todo /\ Own(c) = Own(t)
    BY <1>1, <1>3, CountedIs DEF AnswerTaken
  <2>2. G = {c}
    BY <1>2, <1>5, <2>1 DEF Going
  <2>3. TaskOK(c)
    <3>1. ReadingOK(t)
      BY <1>3, <1>5 DEF TaskOK
    <3>2. ReadingOK(c)
      BY <1>1, <1>3, <1>5, <3>1, CountedOK
    <3> QED BY <1>5, <2>1, <3>2 DEF TaskOK
  <2>4. \A v \in User : WillTell(t, v) => WillTell(c, v)
    BY <1>5, <2>1 DEF WillTell, Telling, Own
  <2>5. \A v \in User : Fresh(t, v) => Fresh(c, v)
    BY <1>4, <2>1 DEF Fresh, Unread
  <2> QED BY <1>4, <1>5, <2>1, <2>2, <2>3, <2>4, <2>5, OneGoesOn
<1>6. CASE t.pc = "looking"
  <2>1. LookingOK(t)
    BY <1>3, <1>6 DEF TaskOK
  <2>2. u = Own(t)
    BY <1>4, <2>1 DEF LookingOK
  <2>3. LooksOn(G, t, u, on, epoch)
    BY <1>1, <1>2, <1>3, <1>6, <2>1, <2>2, LookingGoes DEF LookingOK
  <2>4. Online(u, on) <=> Room(u) # {}
    BY DEF Online, Room
  <2>5. ASSUME NEW g \in G PROVE TaskOK(g)
    <3>1. Own(g) = u
      BY <2>2, <2>3 DEF Own, LooksOn
    <3>2. g.pc = "looking" => LookingOK(g)
      BY <2>1, <2>2, <2>3, <3>1 DEF LookingOK, LooksOn
    <3>3. g.pc = "announcing" => AnnouncingOK(g)
      BY <2>1, <2>2, <2>3, <2>4, <3>1 DEF LookingOK, AnnouncingOK, Right, LooksOn
    <3> QED BY <2>3, <3>2, <3>3 DEF TaskOK, LooksOn
  <2>6. ASSUME NEW v \in User, WillTell(t, v) PROVE \E g \in G : WillTell(g, v)
    <3>1. v = u /\ Room(u) = {} /\ t.at[u] = epoch[u]
      BY <1>6, <2>1, <2>2, <2>6 DEF WillTell, Telling, LookingOK, Own
    <3>2. PICK g \in G : TRUE
      BY <2>3, <2>4, <3>1 DEF LooksOn
    <3>3. Own(g) = u /\ g.at[u] = epoch[u] /\ g.pc \in {"looking", "announcing"}
      BY <2>2, <2>3, <3>1 DEF Own, LooksOn
    <3> QED BY <3>1, <3>3 DEF WillTell, Telling, Own
  <2>7. \A g \in G : g.pc # "reading"
    BY <2>3 DEF LooksOn
  <2>8. G \in SUBSET Task
    BY <2>3 DEF LooksOn
  <2> QED BY <1>4, <1>6, <2>5, <2>6, <2>7, <2>8, HandlerGoesOn
<1>7. CASE t.pc = "announcing"
  BY <1>3, <1>4, <1>7 DEF TaskOK, AnnouncingOK
<1> QED BY <1>3, <1>5, <1>6, <1>7

\* What is left of a snapshot handler once it has its answer, or has failed.
LEMMA AfterSnapshotIs ==
    ASSUME PresenceInv, NEW t \in tasks, t.pc = "reading",
           NEW F, F = Followed(AfterSnapshot(t), Watching)
    PROVE  /\ F \subseteq Task
           /\ \A r \in F : TaskOK(r) /\ r.pc = "announcing"
           /\ \A u \in User, s \in Watching :
                 u \in Friends[Owner[s]] /\ WillTell(t, u) => \E r \in F : WillTell(r, u)
<1>1. t \in Task /\ ReadingOK(t) /\ t.at \in Epochs /\ Own(t) \in User
  BY InvTypes, TaskShape DEF PresenceInv, TasksOK, TaskOK
<1>2. PICK a : a = Announcing(t, t.at[Own(t)])
  OBVIOUS
<1>3. t.at[Own(t)] \in Nat
  BY <1>1 DEF Epochs
<1>4. /\ a \in Task /\ a.kind = t.kind /\ a.socket = t.socket /\ Own(a) = Own(t)
      /\ a.pc = "announcing" /\ a.rest = {} /\ a.at[Own(t)] = t.at[Own(t)]
  BY <1>1, <1>2, <1>3, AnnouncingIs
<1>5. AfterSnapshot(t) = IF t.kind = "connect" THEN {a} ELSE {}
  BY <1>2 DEF AfterSnapshot, Own
<1>6. AfterSnapshot(t) \in SUBSET Task /\ Watching \in SUBSET Socket
  BY <1>4, <1>5, PresenceAssumption
<1>7. F \subseteq Task
  BY <1>6, FollowedIs
<1>8. \A r \in F : r \in AfterSnapshot(t)
  <2>1. TAKE r \in F
  <2>2. \A b \in AfterSnapshot(t) : b.pc # "reading"
    BY <1>4, <1>5
  <2> QED BY <1>6, <2>2, FollowedIs
<1>9. t.kind = "connect" => TaskOK(a)
  BY <1>1, <1>4 DEF ReadingOK, TaskOK, AnnouncingOK, Right
<1>10. \A r \in F : TaskOK(r) /\ r.pc = "announcing"
  BY <1>4, <1>5, <1>8, <1>9
<1>11. ASSUME NEW u \in User, NEW s \in Watching, u \in Friends[Owner[s]], WillTell(t, u)
       PROVE  \E r \in F : WillTell(r, u)
  <2>1. t.kind = "connect" /\ Own(t) = u /\ t.at[u] = epoch[u]
    BY <1>11 DEF WillTell, Telling, Own
  <2>2. Heard(a)
    BY <1>4, <1>11, <2>1, FriendsHear
  <2>3. a \in F
    BY <1>4, <1>5, <1>6, <2>1, <2>2, FollowedIs
  <2> QED BY <1>4, <2>1, <2>3 DEF WillTell, Telling, Own
<1> QED BY <1>7, <1>10, <1>11

LEMMA SendSnapshotKeeps ==
    ASSUME PresenceInv, NEW t \in tasks, SendSnapshot(t)
    PROVE  PresenceInv'
<1> DEFINE s == t.socket
<1>1. PICK F : F = Followed(AfterSnapshot(t), Watching)
  OBVIOUS
<1>2. PICK e : e = [snapshot |-> TRUE, about |-> Friends[Owner[s]],
                    online |-> t.found, torn |-> t.torn, at |-> t.at]
  OBVIOUS
<1>3. /\ t.pc = "reading" /\ t.todo = {} /\ tasks' = (tasks \ {t}) \cup F
      /\ wire' = [wire EXCEPT ![s] = Append(@, e)]
      /\ UNCHANGED <<on, shown, epoch, told, newest, torn, unsaid, blind, visits, asks, faults>>
  BY <1>1, <1>2 DEF SendSnapshot
<1>4. t \in Task /\ ReadingOK(t) /\ s \in Socket /\ s \in on \cap Watching /\ Own(t) = Owner[s]
  BY <1>3, InvTypes, TaskShape DEF PresenceInv, TasksOK, TaskOK, ReadingOK
<1>5. e \in Event /\ EventOK(e, s)
  <2>1. e \in Event
    BY <1>2, <1>4, TaskShape, PresenceAssumption DEF Event
  <2> QED BY <1>2, <1>3, <1>4, <2>1 DEF EventOK, ReadingOK
<1>6. /\ wire' \in [Socket -> Seq(Event)]
      /\ Events(wire'[s]) = Events(wire[s]) \cup {e}
      /\ \A d \in Socket \ {s} : wire'[d] = wire[d]
  <2>1. wire[s] \in Seq(Event)
    BY <1>4, InvTypes
  <2> QED BY <1>3, <1>4, <1>5, <2>1, AddedEvent, InvTypes
<1>7. /\ F \subseteq Task /\ \A r \in F : TaskOK(r) /\ r.pc = "announcing"
      /\ \A u \in User, d \in Watching :
            u \in Friends[Owner[d]] /\ WillTell(t, u) => \E r \in F : WillTell(r, u)
  BY <1>1, <1>3, AfterSnapshotIs
<1> HIDE DEF s
<1>8. TypeOK'
  BY <1>3, <1>4, <1>6, <1>7, InvTypes DEF PresenceInv, TypeOK
<1>9. TasksOK'
  BY <1>3, <1>7, Steady, InvTypes DEF PresenceInv, TasksOK
<1>10. EventsOK'
  <2> SUFFICES ASSUME NEW d \in Socket, NEW x \in Events(wire[d])' PROVE EventOK(x, d)'
    BY DEF EventsOK
  <2>1. wire[d] \in Seq(Event)
    BY InvTypes
  <2>2. x \in Event /\ EventOK(x, d)
    BY <1>5, <1>6, <2>1, EventsTyped DEF PresenceInv, EventsOK
  <2> QED BY <1>3, <2>2, Steady
<1>11. ShownOK'
  BY <1>3 DEF PresenceInv, ShownOK, Right, Room
<1>12. Cover'
  <2> SUFFICES ASSUME NEW d \in on \cap Watching, NEW u \in Friends[Owner[d]]
               PROVE  Said(d, u)' \/ Awaited(d, u)'
    BY <1>3 DEF Cover
  <2>1. d \in Socket /\ u \in User /\ wire[d] \in Seq(Event)
    BY InvTypes, PresenceAssumption
  <2>2. Events(wire[d]) \subseteq Events(wire[d])'
    BY <1>6, <2>1
  <2>3. ASSUME WillTell(t, u) PROVE Said(d, u)'
    <3>1. PICK r \in F : WillTell(r, u)
      BY <1>7, <2>1, <2>3
    <3> QED BY <1>3, <1>7, <2>1, <3>1, Steady DEF Said
  <2>4. CASE UnderWay(d, u)
    BY <1>3, <2>2, <2>4 DEF Said, UnderWay
  <2>5. CASE newest[d][u] = epoch[u] \/ unsaid[u] = epoch[u]
    BY <1>3, <2>5 DEF Said
  <2>6. ASSUME NEW r \in tasks, WillTell(r, u) PROVE Said(d, u)'
    <3>1. CASE r = t
      BY <2>3, <2>6, <3>1
    <3>2. CASE r # t
      BY <1>3, <2>1, <2>6, <3>2, Steady, InvTypes DEF Said
    <3> QED BY <3>1, <3>2
  <2>7. CASE Awaited(d, u) /\ d = s
    <3>1. Fresh(t, u)
      BY <1>3, <2>7 DEF Awaited, Asking, s
    <3>2. t.at[u] = epoch[u]
      BY <1>3, <3>1 DEF Fresh, Unread
    <3>3. e \in Events(wire[d])' /\ u \in e.about /\ e.at[u] = epoch'[u]
      BY <1>2, <1>3, <1>6, <2>7, <3>2
    <3> QED BY <3>3 DEF Said, UnderWay
  <2>8. CASE Awaited(d, u) /\ d # s
    <3>1. NoAnswer(d)'
      BY <1>6, <2>1, <2>8 DEF Awaited, NoAnswer
    <3>2. \A r \in tasks' : Asking(r, d) => r \in tasks /\ Fresh(r, u)
      BY <1>3, <1>7, <2>8 DEF Awaited, Asking
    <3>3. \A r \in tasks' : Asking(r, d) => Fresh(r, u)'
      BY <2>1, <3>2, <1>3, Steady, InvTypes
    <3>4. (\E r \in tasks : Asking(r, d) /\ r.kind = "connect")
          => \E r \in tasks' : Asking(r, d) /\ r.kind = "connect"
      BY <1>3, <2>8 DEF Asking, s
    <3> QED BY <1>3, <2>8, <3>1, <3>3, <3>4 DEF Awaited, Asking
  <2> QED BY <2>4, <2>5, <2>6, <2>7, <2>8 DEF PresenceInv, Cover, Said
<1> QED BY <1>3, <1>8, <1>9, <1>10, <1>11, <1>12, Steady DEF PresenceInv

LEMMA SnapshotFailsKeeps ==
    ASSUME PresenceInv, NEW t \in tasks, SnapshotFails(t)
    PROVE  PresenceInv'
<1> DEFINE s == t.socket
<1>1. PICK F : F = Followed(AfterSnapshot(t), Watching)
  OBVIOUS
<1>2. /\ t.pc = "reading" /\ tasks' = (tasks \ {t}) \cup F
      /\ blind' = IF t.kind = "connect" THEN blind \cup {s} ELSE blind
      /\ faults' \in Nat
      /\ UNCHANGED <<on, wire, shown, epoch, told, newest, torn, unsaid, visits, asks>>
  BY <1>1, InvTypes DEF SnapshotFails, Fault
<1>3. t \in Task /\ ReadingOK(t) /\ s \in Socket /\ s \in on \cap Watching
  BY <1>2, InvTypes, TaskShape DEF PresenceInv, TasksOK, TaskOK, ReadingOK
<1>4. /\ F \subseteq Task /\ \A r \in F : TaskOK(r) /\ r.pc = "announcing"
      /\ \A u \in User, d \in Watching :
            u \in Friends[Owner[d]] /\ WillTell(t, u) => \E r \in F : WillTell(r, u)
  BY <1>1, <1>2, AfterSnapshotIs
<1> HIDE DEF s
<1>5. TasksStep
  BY <1>2, <1>3, <1>4, InvTypes DEF TasksStep
<1>6. TasksOK'
  BY <1>2, <1>4, Steady, InvTypes DEF PresenceInv, TasksOK
<1>7. Cover'
  <2> SUFFICES ASSUME NEW d \in on \cap Watching, NEW u \in Friends[Owner[d]]
               PROVE  Said(d, u)' \/ Awaited(d, u)'
    BY <1>2 DEF Cover
  <2>1. d \in Socket /\ u \in User
    BY InvTypes, PresenceAssumption
  <2>2. ASSUME WillTell(t, u) PROVE Said(d, u)'
    <3>1. PICK r \in F : WillTell(r, u)
      BY <1>4, <2>1, <2>2
    <3> QED BY <1>2, <1>4, <2>1, <3>1, Steady DEF Said
  <2>3. ASSUME NEW r \in tasks, WillTell(r, u) PROVE Said(d, u)'
    <3>1. CASE r = t
      BY <2>2, <2>3, <3>1
    <3>2. CASE r # t
      BY <1>2, <2>1, <2>3, <3>2, Steady, InvTypes DEF Said
    <3> QED BY <3>1, <3>2
  <2>4. CASE newest[d][u] = epoch[u] \/ unsaid[u] = epoch[u] \/ UnderWay(d, u)
    BY <1>2, <2>4 DEF Said, UnderWay
  <2>5. CASE Awaited(d, u)
    <3>1. NoAnswer(d)'
      BY <1>2, <2>5 DEF Awaited, NoAnswer
    <3>2. \A r \in tasks' : Asking(r, d) => r \in tasks /\ Fresh(r, u)
      BY <1>2, <1>4, <2>5 DEF Awaited, Asking
    <3>3. \A r \in tasks' : Asking(r, d) => Fresh(r, u)'
      BY <1>2, <2>1, <3>2, Steady, InvTypes
    <3>4. ASSUME NEW r \in tasks, Asking(r, d), r.kind = "connect", d \notin blind'
          PROVE  r \in tasks'
      BY <1>2, <3>4 DEF Asking, s
    <3>5. d \in blind' \/ \E r \in tasks' : Asking(r, d) /\ r.kind = "connect"
      BY <1>2, <2>5, <3>4 DEF Awaited
    <3> QED BY <3>1, <3>3, <3>5 DEF Awaited, Asking
  <2> QED BY <2>3, <2>4, <2>5 DEF PresenceInv, Cover, Said
<1> QED BY <1>5, <1>6, <1>7, TasksStepKeeps DEF PresenceInv

LEMMA AnnouncementFailsKeeps ==
    ASSUME PresenceInv, NEW t \in tasks, AnnouncementFails(t)
    PROVE  PresenceInv'
<1>1. t \in Task /\ Own(t) \in User /\ epoch \in Epochs /\ t.pc # "reading"
  BY InvTypes, TaskShape DEF AnnouncementFails
<1>2. /\ tasks' = tasks \ {t} /\ faults' \in Nat
      /\ unsaid' = IF Telling(t) THEN [unsaid EXCEPT ![Own(t)] = epoch[Own(t)]] ELSE unsaid
      /\ UNCHANGED <<on, wire, shown, epoch, told, newest, torn, blind, visits, asks>>
  BY InvTypes DEF AnnouncementFails, Fault, Own
<1>3. /\ unsaid' \in Epochs /\ (Telling(t) => unsaid'[Own(t)] = epoch[Own(t)])
      /\ \A u \in User : unsaid[u] = epoch[u] => unsaid'[u] = epoch[u]
  BY <1>1, <1>2, InvTypes DEF Epochs
<1>4. TasksStep
  BY <1>2, <1>3, InvTypes DEF TasksStep
<1>5. TasksOK'
  BY <1>2, Steady, InvTypes DEF PresenceInv, TasksOK
<1>6. Cover'
  <2> SUFFICES ASSUME NEW d \in on \cap Watching, NEW u \in Friends[Owner[d]]
               PROVE  Said(d, u)' \/ Awaited(d, u)'
    BY <1>2 DEF Cover
  <2>1. d \in Socket /\ u \in User
    BY InvTypes, PresenceAssumption
  <2>2. CASE Awaited(d, u)
    <3>1. \A r \in tasks' : Asking(r, d) => Fresh(r, u)'
      BY <1>2, <2>1, <2>2, Steady, InvTypes DEF Awaited
    <3> QED BY <1>1, <1>2, <2>2, <3>1 DEF Awaited, Asking, NoAnswer
  <2>3. CASE newest[d][u] = epoch[u] \/ unsaid[u] = epoch[u] \/ UnderWay(d, u)
    BY <1>2, <1>3, <2>1, <2>3 DEF Said, UnderWay
  <2>4. ASSUME NEW r \in tasks, WillTell(r, u) PROVE Said(d, u)'
    <3>1. CASE r = t
      BY <1>2, <1>3, <2>4, <3>1 DEF WillTell, Said
    <3>2. CASE r # t
      BY <1>2, <2>1, <2>4, <3>2, Steady, InvTypes DEF Said
    <3> QED BY <3>1, <3>2
  <2> QED BY <2>2, <2>3, <2>4 DEF PresenceInv, Cover, Said
<1> QED BY <1>4, <1>5, <1>6, TasksStepKeeps DEF PresenceInv

LEMMA AnnounceKeeps ==
    ASSUME PresenceInv, NEW t \in tasks, Announce(t)
    PROVE  PresenceInv'
<1>1. PICK u : u = Own(t)
  OBVIOUS
<1>2. PICK e : e = [snapshot |-> FALSE, about |-> {u}, torn |-> t.torn, at |-> t.at,
                    online |-> IF t.kind = "connect" THEN {u} ELSE {}]
  OBVIOUS
<1>3. PICK S : S = {s \in on \cap Watching : u \in Friends[Owner[s]]}
  OBVIOUS
<1>4. t \in Task /\ u \in User /\ t.pc = "announcing" /\ AnnouncingOK(t) /\ u = Owner[t.socket]
  BY <1>1, InvTypes, TaskShape DEF Announce, PresenceInv, TasksOK, TaskOK
<1>5. \A s \in on \cap Watching : Owner[s] \in Friends[u] <=> s \in S
  BY <1>3, <1>4, PresenceAssumption, InvTypes
<1>6. /\ tasks' = tasks \ {t}
      /\ wire' = [s \in Socket |-> IF s \in S THEN Append(wire[s], e) ELSE wire[s]]
      /\ UNCHANGED <<on, shown, epoch, told, newest, torn, unsaid, blind, visits, asks, faults>>
  <2>1. wire' = [s \in Socket |-> IF s \in on \cap Watching /\ Owner[s] \in Friends[u]
                                  THEN Append(wire[s], e) ELSE wire[s]]
    BY <1>2, <1>4 DEF Announce
  <2>2. \A s \in Socket : s \in on \cap Watching /\ Owner[s] \in Friends[u] <=> s \in S
    BY <1>3, <1>5
  <2> QED BY <1>4, <2>1, <2>2 DEF Announce
<1>7. e \in Event /\ \A s \in Socket : EventOK(e, s)
  <2>1. e \in Event
    BY <1>2, <1>4, TaskShape DEF Event
  <2> QED BY <1>1, <1>2, <1>4, <2>1 DEF EventOK, AnnouncingOK, Right
<1>8. /\ wire' \in [Socket -> Seq(Event)]
      /\ \A s \in S : Events(wire'[s]) = Events(wire[s]) \cup {e}
      /\ \A s \in Socket \ S : wire'[s] = wire[s]
  <2>1. \A s \in Socket : wire[s] \in Seq(Event)
    BY InvTypes
  <2>2. S \subseteq Socket
    BY <1>3, InvTypes
  <2> QED BY <1>6, <1>7, <2>1, <2>2, AddedEvent
<1>9. TypeOK'
  <2>1. \A s \in Socket \ on : wire'[s] = <<>>
    BY <1>3, <1>8 DEF PresenceInv, TypeOK
  <2> QED BY <1>6, <1>8, <2>1, InvTypes DEF PresenceInv, TypeOK
<1>10. TasksOK'
  BY <1>6, Steady, InvTypes DEF PresenceInv, TasksOK
<1>11. EventsOK'
  <2> SUFFICES ASSUME NEW d \in Socket, NEW x \in Events(wire[d])' PROVE EventOK(x, d)'
    BY DEF EventsOK
  <2>1. wire[d] \in Seq(Event)
    BY InvTypes
  <2>2. x \in Event /\ EventOK(x, d)
    BY <1>7, <1>8, <2>1, EventsTyped DEF PresenceInv, EventsOK
  <2> QED BY <1>6, <2>2, Steady
<1>12. ShownOK'
  BY <1>6 DEF PresenceInv, ShownOK, Right, Room
<1>13. \A d \in Socket : NoAnswer(d) => NoAnswer(d)'
  BY <1>2, <1>8 DEF NoAnswer
<1>14. Cover'
  <2> SUFFICES ASSUME NEW d \in on \cap Watching, NEW v \in Friends[Owner[d]]
               PROVE  Said(d, v)' \/ Awaited(d, v)'
    BY <1>6 DEF Cover
  <2>1. d \in Socket /\ v \in User
    BY InvTypes, PresenceAssumption
  <2>2. CASE Awaited(d, v)
    <3>1. \A r \in tasks' : Asking(r, d) => Fresh(r, v)'
      BY <1>6, <2>1, <2>2, Steady, InvTypes DEF Awaited
    <3> QED BY <1>4, <1>6, <1>13, <2>1, <2>2, <3>1 DEF Awaited, Asking
  <2>3. CASE UnderWay(d, v)
    <3>1. Events(wire[d]) \subseteq Events(wire[d])'
      BY <1>8, <2>1
    <3> QED BY <1>6, <2>3, <3>1 DEF Said, UnderWay
  <2>4. CASE newest[d][v] = epoch[v] \/ unsaid[v] = epoch[v]
    BY <1>6, <2>4 DEF Said
  <2>5. ASSUME NEW r \in tasks, WillTell(r, v) PROVE Said(d, v)'
    <3>1. CASE r = t
      <4>1. v = u /\ t.at[u] = epoch[u]
        BY <1>1, <2>5, <3>1 DEF WillTell, Telling, Own
      <4>2. e \in Events(wire[d])'
        BY <1>3, <1>8, <4>1
      <4> QED BY <1>2, <1>6, <4>1, <4>2 DEF Said, UnderWay
    <3>2. CASE r # t
      BY <1>6, <2>1, <2>5, <3>2, Steady, InvTypes DEF Said
    <3> QED BY <3>1, <3>2
  <2> QED BY <2>2, <2>3, <2>4, <2>5 DEF PresenceInv, Cover, Said
<1> QED BY <1>6, <1>9, <1>10, <1>11, <1>12, <1>14, Steady DEF PresenceInv

LEMMA ReceiveKeeps ==
    ASSUME PresenceInv, NEW s \in Socket, Receive(s)
    PROVE  PresenceInv'
<1>1. PICK e : e = Head(wire[s])
  OBVIOUS
<1>2. PICK rest : rest = IF e.snapshot THEN {} ELSE shown[s] \ e.about
  OBVIOUS
<1>3. PICK now : now = [u \in User |-> IF u \in e.about THEN e.at[u] ELSE told[s][u]]
  OBVIOUS
<1>4. PICK top : top = [u \in User |-> IF now[u] > newest[s][u] THEN now[u] ELSE newest[s][u]]
  OBVIOUS
<1>5. told' = [told EXCEPT ![s] = now] /\ wire[s] # <<>>
  BY <1>1, <1>3 DEF Receive
<1>6. told'[s] = now
  BY <1>5, InvTypes
<1>7. /\ shown' = [shown EXCEPT ![s] = rest \cup e.online]
      /\ newest' = [newest EXCEPT ![s] = top]
      /\ wire' = [wire EXCEPT ![s] = Tail(@)]
      /\ blind' = IF e.snapshot THEN blind \ {s} ELSE blind
      /\ UNCHANGED <<on, tasks, epoch, unsaid, visits, asks, faults>>
      /\ torn' = [torn EXCEPT ![s] = (@ \ e.about) \cup e.torn]
  <2>1. newest' = [newest EXCEPT ![s] = top]
    <3>1. newest' = [newest EXCEPT ![s] = [u \in User |->
             IF told'[s][u] > newest[s][u] THEN told'[s][u] ELSE newest[s][u]]]
      BY InvTypes DEF Receive
    <3> QED BY <1>4, <1>6, <3>1
  <2>2. shown' = [shown EXCEPT ![s] = rest \cup e.online]
    BY <1>1, <1>2 DEF Receive
  <2> QED BY <1>1, <2>1, <2>2 DEF Receive
<1>8. /\ wire[s] \in Seq(Event) /\ e \in Event /\ Tail(wire[s]) \in Seq(Event)
      /\ Events(wire[s]) = Events(Tail(wire[s])) \cup {e}
  <2>1. wire[s] \in Seq(Event)
    BY InvTypes
  <2> QED BY <1>1, <1>5, <2>1, TakenEvent
<1>9. /\ EventOK(e, s) /\ e.about \subseteq User /\ e.online \subseteq User /\ e.torn \subseteq User
      /\ e.at \in Epochs /\ e.snapshot \in BOOLEAN
  BY <1>8 DEF PresenceInv, EventsOK, Event
<1>10. /\ \A u \in User : /\ told[s][u] \in Nat /\ newest[s][u] \in Nat /\ epoch[u] \in Nat
                          /\ told[s][u] <= newest[s][u] /\ newest[s][u] <= epoch[u]
       /\ \A u \in e.about : e.at[u] \in Nat /\ e.at[u] <= epoch[u]
  <2>1. \A u \in User : told[s][u] <= newest[s][u] /\ newest[s][u] <= epoch[u]
    BY DEF PresenceInv, TypeOK
  <2> QED BY <1>9, <2>1, InvTypes DEF Epochs, EventOK, Right
<1>11. /\ now \in Epochs /\ top \in Epochs
       /\ \A u \in User : /\ now[u] <= top[u] /\ top[u] <= epoch[u] /\ newest[s][u] <= top[u]
                          /\ u \in e.about => now[u] = e.at[u]
                          /\ u \notin e.about => now[u] = told[s][u]
  <2>1. \A u \in User : now[u] \in Nat /\ now[u] <= epoch[u]
    BY <1>3, <1>9, <1>10
  <2>2. now \in Epochs
    BY <1>3, <2>1 DEF Epochs
  <2>3. top \in Epochs
    BY <1>4, <1>10, <2>1 DEF Epochs
  <2>4. \A u \in User : now[u] <= top[u] /\ top[u] <= epoch[u] /\ newest[s][u] <= top[u]
    BY <1>4, <1>10, <2>1
  <2> QED BY <1>3, <2>2, <2>3, <2>4
<1>12. /\ told' \in [Socket -> Epochs] /\ newest' \in [Socket -> Epochs]
       /\ shown' \in [Socket -> SUBSET User] /\ wire' \in [Socket -> Seq(Event)]
       /\ told'[s] = now /\ newest'[s] = top /\ shown'[s] = rest \cup e.online
       /\ torn' \in [Socket -> SUBSET User] /\ torn'[s] = (torn[s] \ e.about) \cup e.torn
       /\ wire'[s] = Tail(wire[s])
       /\ \A d \in Socket \ {s} : /\ told'[d] = told[d] /\ newest'[d] = newest[d]
                                  /\ shown'[d] = shown[d] /\ wire'[d] = wire[d]
                                  /\ torn'[d] = torn[d]
  <2>1. rest \subseteq User
    BY <1>2, InvTypes
  <2> QED BY <1>5, <1>7, <1>8, <1>9, <1>11, <2>1, InvTypes
<1>13. TypeOK'
  <2>1. s \in on
    BY <1>5 DEF PresenceInv, TypeOK
  <2>2. \A d \in Socket \ on' : wire'[d] = <<>>
    BY <1>7, <1>12, <2>1 DEF PresenceInv, TypeOK
  <2>3. \A d \in Socket, u \in User :
            told'[d][u] <= newest'[d][u] /\ newest'[d][u] <= epoch'[u]
    BY <1>7, <1>11, <1>12 DEF PresenceInv, TypeOK
  <2>4. blind' \subseteq on'
    BY <1>7, InvTypes
  <2> QED BY <1>7, <1>12, <2>2, <2>3, <2>4, InvTypes DEF TypeOK
<1>14. TasksOK'
  BY <1>7, Steady, InvTypes DEF PresenceInv, TasksOK
<1>15. \A d \in Socket : Events(wire[d])' \subseteq Events(wire[d]) /\ Events(wire[d]) \subseteq Event
  BY <1>8, <1>12, EventsTyped, InvTypes
<1>16. EventsOK'
  BY <1>7, <1>15, Steady DEF PresenceInv, EventsOK
<1>17. ShownOK'
  <2> SUFFICES ASSUME NEW d \in Socket, NEW v \in Friends[Owner[d]]
               PROVE  Right(v, told[d][v], v \in shown[d], v \in torn[d])'
    BY DEF ShownOK
  <2>1. /\ v \in User /\ Room(v)' = Room(v)
        /\ Right(v, told[d][v], v \in shown[d], v \in torn[d])
    BY <1>7, PresenceAssumption DEF PresenceInv, ShownOK, Room
  <2>2. CASE d # s
    BY <1>7, <1>12, <2>1, <2>2 DEF Right
  <2>3. CASE d = s /\ v \in e.about
    <3>1. Right(v, e.at[v], v \in e.online, v \in e.torn)
      BY <1>9, <2>3 DEF EventOK
    <3>2. (v \in shown'[d] <=> v \in e.online) /\ (v \in torn'[d] <=> v \in e.torn)
      BY <1>2, <1>12, <2>3
    <3> QED BY <1>7, <1>11, <1>12, <2>1, <2>3, <3>1, <3>2 DEF Right
  <2>4. CASE d = s /\ v \notin e.about
    <3>1. ~e.snapshot /\ e.online \subseteq e.about
      BY <1>9, <2>4 DEF EventOK
    <3>2. (v \in shown'[d] <=> v \in shown[d]) /\ (v \in torn[d] => v \in torn'[d])
      BY <1>2, <1>12, <2>4, <3>1
    <3> QED BY <1>7, <1>11, <1>12, <2>1, <2>4, <3>2 DEF Right
  <2> QED BY <2>2, <2>3, <2>4
<1>18. Cover'
  <2> SUFFICES ASSUME NEW d \in on \cap Watching, NEW u \in Friends[Owner[d]]
               PROVE  Said(d, u)' \/ Awaited(d, u)'
    BY <1>7 DEF Cover
  <2>1. d \in Socket /\ u \in User
    BY InvTypes, PresenceAssumption
  <2>2. CASE Awaited(d, u)
    <3>1. d = s => ~e.snapshot
      BY <1>8, <2>2 DEF Awaited, NoAnswer
    <3>2. d \in blind => d \in blind'
      BY <1>7, <3>1
    <3>3. NoAnswer(d)'
      BY <1>15, <2>1, <2>2 DEF Awaited, NoAnswer
    <3>4. \A t \in tasks' : Asking(t, d) => Fresh(t, u)'
      BY <1>7, <2>1, <2>2, Steady, InvTypes DEF Awaited
    <3> QED BY <1>7, <2>2, <3>2, <3>3, <3>4 DEF Awaited, Asking
  <2>3. CASE newest[d][u] = epoch[u]
    <3>1. newest'[d][u] = epoch'[u]
      <4>1. CASE d = s
        <5>1. top[u] \in Nat /\ top[u] <= epoch[u] /\ epoch[u] <= top[u] /\ epoch[u] \in Nat
          BY <1>10, <1>11, <2>1, <2>3, <4>1 DEF Epochs
        <5> QED BY <1>7, <1>12, <4>1, <5>1
      <4>2. CASE d # s
        BY <1>7, <1>12, <2>1, <2>3, <4>2
      <4> QED BY <4>1, <4>2
    <3> QED BY <3>1 DEF Said
  <2>4. CASE unsaid[u] = epoch[u]
    BY <1>7, <2>4 DEF Said
  <2>5. CASE UnderWay(d, u)
    <3>1. PICK x \in Events(wire[d]) : u \in x.about /\ x.at[u] = epoch[u]
      BY <2>5 DEF UnderWay
    <3>2. CASE x \in Events(wire[d])'
      BY <1>7, <3>1, <3>2 DEF Said, UnderWay
    <3>3. CASE x \notin Events(wire[d])'
      <4>1. d = s /\ x = e
        BY <1>8, <1>12, <2>1, <3>1, <3>3
      <4>2. top[u] \in Nat /\ epoch[u] <= top[u] /\ top[u] <= epoch[u] /\ epoch[u] \in Nat
        BY <1>10, <1>11, <2>1, <3>1, <4>1 DEF Epochs
      <4> QED BY <1>7, <1>12, <4>1, <4>2 DEF Said
    <3> QED BY <3>2, <3>3
  <2>6. ASSUME NEW r \in tasks, WillTell(r, u) PROVE Said(d, u)'
    BY <1>7, <2>1, <2>6, Steady, InvTypes DEF Said
  <2> QED BY <2>2, <2>3, <2>4, <2>5, <2>6 DEF PresenceInv, Cover, Said
<1> QED BY <1>7, <1>13, <1>14, <1>16, <1>17, <1>18, Steady DEF PresenceInv

------------------------------------------------------------------------------
(* Steps in which sockets come and go *)

\* The epoch of a user moves when the user comes or goes, and only then.
Moved ==
    /\ epoch' \in Epochs /\ Began'
    /\ \A u \in User : /\ epoch[u] \in Nat /\ epoch'[u] \in Nat /\ epoch[u] <= epoch'[u]
                       /\ epoch'[u] = epoch[u] <=> (Room(u)' = {} <=> Room(u) = {})

LEMMA EpochMoves ==
    ASSUME PresenceInv, NEW S \in SUBSET Socket, on' = S, epoch' = EpochAfter(S)
    PROVE  /\ Moved
           /\ \A u \in User : (\A s \in S \cup on : Owner[s] = u => s \in S \cap on)
                              => epoch'[u] = epoch[u]
<1>1. \A u \in User : epoch[u] \in Nat
  BY InvTypes DEF Epochs
<1>2. \A u \in User : epoch'[u] = IF Online(u, S) = Online(u, on) THEN epoch[u] ELSE epoch[u] + 1
  BY DEF EpochAfter
<1>3. epoch' \in Epochs
  BY <1>1 DEF EpochAfter, Epochs
<1>4. \A u \in User : (Online(u, S) <=> Room(u)' # {}) /\ (Online(u, on) <=> Room(u) # {})
  BY DEF Online, Room
<1>5. \A u \in User : Online(u, S) \in BOOLEAN /\ Online(u, on) \in BOOLEAN
  BY DEF Online
<1>6. ASSUME NEW u \in User
      PROVE  /\ epoch[u] \in Nat /\ epoch'[u] \in Nat /\ epoch[u] <= epoch'[u]
             /\ epoch'[u] = epoch[u] <=> (Room(u)' = {} <=> Room(u) = {})
  <2>1. CASE Online(u, S) = Online(u, on)
    BY <1>1, <1>2, <1>4, <2>1
  <2>2. CASE Online(u, S) # Online(u, on)
    BY <1>1, <1>2, <1>4, <1>5, <2>2
  <2> QED BY <2>1, <2>2
<1>7. Began'
  <2> SUFFICES ASSUME NEW u \in User, epoch'[u] = 0 PROVE Room(u)' = {}
    BY DEF Began
  <2>1. epoch[u] = 0
    BY <1>6
  <2> QED BY <1>6, <2>1 DEF PresenceInv, Began
<1>8. \A u \in User : (\A s \in S \cup on : Owner[s] = u => s \in S \cap on)
                      => epoch'[u] = epoch[u]
  BY <1>2 DEF Online
<1> QED BY <1>3, <1>6, <1>7, <1>8 DEF Moved

LEMMA StillRight ==
    ASSUME Moved, NEW u \in User, NEW n \in Nat, NEW seen \in BOOLEAN, NEW miss \in BOOLEAN,
           Right(u, n, seen, miss)
    PROVE  Right(u, n, seen, miss)'
BY DEF Moved, Right

LEMMA StillSeen ==
    ASSUME Moved, NEW u \in User, NEW n \in Nat, NEW S, NEW T,
           Right(u, n, u \in S, u \in T)
    PROVE  Right(u, n, u \in S, u \in T)'
BY DEF Moved, Right

LEMMA StillTaskOK ==
    ASSUME PresenceInv, Moved, NEW t \in Task, TaskOK(t)
    PROVE  /\ (t.pc = "reading" => t.socket \in on') => TaskOK(t)'
           /\ t.pc = "reading" /\ t.kind = "connect" =>
                  TaskOK(Announcing(t, t.at[Own(t)]))'
<1>1. /\ Own(t) \in User /\ t.at \in Epochs /\ Friends[Own(t)] \subseteq User
      /\ Own(t)' = Own(t) /\ \A v \in User : t.at[v] \in Nat
  BY TaskShape, PresenceAssumption DEF Own, Epochs
<1>2. t.pc = "announcing" => AnnouncingOK(t)'
  <2>1. (t.kind = "connect") \in BOOLEAN /\ (Own(t) \in t.torn) \in BOOLEAN
    OBVIOUS
  <2> QED BY <1>1, <2>1, StillRight DEF TaskOK, AnnouncingOK
<1>3. t.pc = "looking" => LookingOK(t)'
  <2>1. t.pc = "looking" => t.at[Own(t)] <= epoch'[Own(t)]
    BY <1>1 DEF TaskOK, LookingOK, Moved
  <2> QED BY <1>1, <2>1 DEF TaskOK, LookingOK
<1>4. t.pc = "reading" =>
         /\ \A v \in Friends[Own(t)] : t.at[v] <= epoch'[v]
         /\ \A v \in Friends[Own(t)] \ t.todo : Right(v, t.at[v], v \in t.found, v \in t.torn)'
         /\ t.kind = "connect" => Right(Own(t), t.at[Own(t)], TRUE, FALSE)'
  <2>1. ASSUME t.pc = "reading", NEW v \in Friends[Own(t)] \ t.todo
        PROVE  Right(v, t.at[v], v \in t.found, v \in t.torn)'
    <3>1. v \in User /\ t.at[v] \in Nat /\ Right(v, t.at[v], v \in t.found, v \in t.torn)
      BY <1>1, <2>1 DEF TaskOK, ReadingOK
    <3> QED BY <3>1, StillSeen
  <2>2. ASSUME t.pc = "reading", t.kind = "connect"
        PROVE  Right(Own(t), t.at[Own(t)], TRUE, FALSE)'
    BY <1>1, <2>2, StillRight DEF TaskOK, ReadingOK
  <2>3. ASSUME t.pc = "reading", NEW v \in Friends[Own(t)] PROVE t.at[v] <= epoch'[v]
    BY <1>1, <2>3 DEF TaskOK, ReadingOK, Moved
  <2> QED BY <2>1, <2>2, <2>3
<1>5. t.pc = "reading" /\ t.socket \in on' => ReadingOK(t)'
  BY <1>1, <1>4 DEF TaskOK, ReadingOK
<1>6. ASSUME t.pc = "reading", t.kind = "connect"
      PROVE  TaskOK(Announcing(t, t.at[Own(t)]))'
  <2>1. PICK a : a = Announcing(t, t.at[Own(t)])
    OBVIOUS
  <2>2. /\ a.kind = t.kind /\ Own(a) = Own(t) /\ a.pc = "announcing" /\ a.rest = {}
        /\ a.at[Own(t)] = t.at[Own(t)]
    BY <1>1, <2>1, AnnouncingIs
  <2>3. Own(a)' = Own(a)
    BY DEF Own
  <2>4. AnnouncingOK(a)'
    BY <1>1, <1>4, <1>6, <2>2, <2>3 DEF AnnouncingOK, Right
  <2>5. TaskOK(a)'
    BY <2>2, <2>4 DEF TaskOK
  <2>6. Announcing(t, t.at[Own(t)])' = Announcing(t, t.at[Own(t)])
    BY DEF Announcing, Own, Zero
  <2> QED BY <2>1, <2>5, <2>6
<1> QED BY <1>2, <1>3, <1>5, <1>6 DEF TaskOK

LEMMA StillEventOK ==
    ASSUME PresenceInv, Moved, NEW s \in Socket, NEW e \in Event, EventOK(e, s)
    PROVE  EventOK(e, s)'
<1>1. e.about \subseteq User /\ \A v \in User : e.at[v] \in Nat
  BY DEF Event, Epochs
<1>2. \A v \in e.about : Right(v, e.at[v], v \in e.online, v \in e.torn)'
  <2> SUFFICES ASSUME NEW v \in e.about PROVE Right(v, e.at[v], v \in e.online, v \in e.torn)'
    OBVIOUS
  <2>1. v \in User /\ e.at[v] \in Nat /\ Right(v, e.at[v], v \in e.online, v \in e.torn)
    BY <1>1 DEF EventOK
  <2> QED BY <2>1, StillSeen
<1> QED BY <1>2 DEF EventOK

LEMMA ConnectKeeps ==
    ASSUME PresenceInv, NEW s \in Socket, Connect(s)
    PROVE  PresenceInv'
<1>1. PICK u : u = Owner[s]
  OBVIOUS
<1>2. PICK at : at = [Zero EXCEPT ![u] = epoch'[u]]
  OBVIOUS
<1>3. PICK r : r = Reading(s, "connect", at)
  OBVIOUS
<1>4. PICK F : F = Followed({r}, Watching)
  OBVIOUS
<1>5. /\ s \notin on /\ on' = on \cup {s} /\ epoch' = EpochAfter(on \cup {s})
      /\ tasks' = tasks \cup F /\ visits' \in [Socket -> Nat]
      /\ UNCHANGED <<wire, shown, told, newest, torn, unsaid, blind, asks, faults>>
  BY <1>1, <1>2, <1>3, <1>4, InvTypes DEF Connect
<1>6. /\ Moved
      /\ \A v \in User : (\A d \in on' \cup on : Owner[d] = v => d \in on' \cap on)
                         => epoch'[v] = epoch[v]
  <2>1. on \cup {s} \in SUBSET Socket
    BY InvTypes
  <2> QED BY <1>5, <2>1, EpochMoves
<1>7. u \in User /\ epoch' \in Epochs /\ \A v \in User \ {u} : epoch'[v] = epoch[v]
  BY <1>1, <1>5, <1>6, PresenceAssumption DEF Moved
<1>8. /\ at \in Epochs /\ at[u] = epoch'[u] /\ at[u] \in Nat
      /\ \A v \in User : at[v] <= epoch'[v]
  BY <1>2, <1>7 DEF Zero, Epochs
<1>9. /\ r \in Task /\ r.kind = "connect" /\ r.socket = s /\ Own(r) = u
      /\ r.pc = "reading" /\ r.todo = Friends[Owner[s]] /\ r.rest = {} /\ r.found = {}
      /\ r.at = at
  BY <1>1, <1>3, <1>8, ReadingIs
<1>10. PICK a : a = Announcing(r, at[u])
  OBVIOUS
<1>11. /\ a \in Task /\ a.kind = "connect" /\ a.socket = s /\ Own(a) = u
       /\ a.pc = "announcing" /\ a.rest = {} /\ a.at[u] = epoch'[u]
  BY <1>8, <1>9, <1>10, AnnouncingIs
<1>12. /\ F \subseteq Task
       /\ \A x \in F : (x = r /\ s \in Watching) \/ x = a
       /\ s \in Watching => r \in F
       /\ Heard(r) => \E x \in F : x = r \/ x = a
  <2>1. {r} \in SUBSET Task /\ Watching \in SUBSET Socket
    BY <1>9, PresenceAssumption
  <2>2. a = Announcing(r, r.at[Own(r)])
    BY <1>9, <1>10
  <2>3. F \subseteq Task
    BY <1>4, <2>1, FollowedIs
  <2>4. \A x \in F : (x = r /\ s \in Watching) \/ x = a
    BY <1>4, <1>9, <2>1, <2>2, FollowedIs
  <2>5. s \in Watching => r \in F
    BY <1>4, <1>9, <2>1, FollowedIs
  <2>6. s \notin Watching /\ Heard(r) => a \in F
    BY <1>4, <1>9, <2>1, <2>2, FollowedIs
  <2> QED BY <2>3, <2>4, <2>5, <2>6
<1>13. Right(u, at[u], TRUE, FALSE)'
  <2>1. Room(u)' # {}
    BY <1>1, <1>5 DEF Room
  <2> QED BY <1>8, <2>1 DEF Right
<1>14. TaskOK(a)' /\ (s \in Watching => TaskOK(r)')
  <2>1. Own(a)' = Own(a) /\ Own(r)' = Own(r) /\ Owner[s] = u
    BY <1>1 DEF Own
  <2>2. TaskOK(a)'
    BY <1>8, <1>11, <1>13, <2>1 DEF TaskOK, AnnouncingOK, Right
  <2>3. s \in Watching => ReadingOK(r)'
    <3>1. Friends[u] \subseteq User
      BY <1>7, PresenceAssumption
    <3> QED BY <1>5, <1>8, <1>9, <1>13, <2>1, <3>1 DEF ReadingOK
  <2> QED BY <1>9, <2>2, <2>3 DEF TaskOK
<1>15. TypeOK'
  <2>1. blind' \subseteq on' /\ on' \subseteq Socket
    BY <1>5, InvTypes
  <2>2. \A d \in Socket \ on' : wire'[d] = <<>>
    BY <1>5 DEF PresenceInv, TypeOK
  <2>3. \A d \in Socket, v \in User :
            told'[d][v] <= newest'[d][v] /\ newest'[d][v] <= epoch'[v]
    <3> SUFFICES ASSUME NEW d \in Socket, NEW v \in User
                 PROVE  told[d][v] <= newest[d][v] /\ newest[d][v] <= epoch'[v]
      BY <1>5
    <3>1. newest[d][v] \in Nat /\ told[d][v] <= newest[d][v] /\ newest[d][v] <= epoch[v]
      BY InvTypes DEF PresenceInv, TypeOK, Epochs
    <3> QED BY <1>6, <3>1 DEF Moved
  <2> QED BY <1>5, <1>7, <1>12, <2>1, <2>2, <2>3, InvTypes DEF TypeOK
<1>16. TasksOK'
  <2> SUFFICES ASSUME NEW x \in tasks' PROVE TaskOK(x)'
    BY DEF TasksOK
  <2>1. CASE x \in tasks
    <3>1. x \in Task /\ TaskOK(x)
      BY <2>1, InvTypes DEF PresenceInv, TasksOK
    <3>2. x.pc = "reading" => x.socket \in on'
      BY <1>5, <3>1 DEF TaskOK, ReadingOK
    <3> QED BY <1>6, <3>1, <3>2, StillTaskOK
  <2>2. CASE x \in F
    BY <1>12, <1>14, <2>2
  <2> QED BY <1>5, <2>1, <2>2
<1>17. EventsOK'
  BY <1>5, <1>6, StillEventOK, EventsTyped, InvTypes DEF PresenceInv, EventsOK
<1>18. ShownOK'
  <2> SUFFICES ASSUME NEW d \in Socket, NEW v \in Friends[Owner[d]]
               PROVE  Right(v, told[d][v], v \in shown[d], v \in torn[d])'
    BY DEF ShownOK
  <2>1. PICK n, S, T : n = told[d][v] /\ S = shown[d] /\ T = torn[d]
    OBVIOUS
  <2>2. v \in User /\ Right(v, n, v \in S, v \in T) /\ n \in Nat
    BY <2>1, InvTypes, PresenceAssumption DEF PresenceInv, ShownOK, Epochs
  <2>3. Right(v, n, v \in S, v \in T)'
    BY <1>6, <2>2, StillSeen
  <2> QED BY <1>5, <2>1, <2>3
<1>19. \A t \in tasks : t.pc = "reading" => t.socket \in on
  BY DEF PresenceInv, TasksOK, TaskOK, ReadingOK
<1>20. Cover'
  <2> SUFFICES ASSUME NEW d \in on' \cap Watching, NEW v \in Friends[Owner[d]]
               PROVE  Said(d, v)' \/ Awaited(d, v)'
    BY DEF Cover
  <2>1. d \in Socket /\ v \in User
    BY PresenceAssumption
  <2>2. CASE d = s
    <3>1. NoAnswer(s)'
      BY <1>5, NoEvent DEF PresenceInv, TypeOK, NoAnswer
    <3>2. r \in tasks' /\ Asking(r, s) /\ \A t \in tasks' : Asking(t, s) => t = r
      BY <1>5, <1>9, <1>11, <1>12, <1>19, <2>2 DEF Asking
    <3>3. Fresh(r, v)'
      BY <1>9, <2>2 DEF Fresh, Unread
    <3>4. \A t \in tasks' : Asking(t, s)' => Fresh(t, v)'
      BY <3>2, <3>3 DEF Asking
    <3>5. \E t \in tasks' : Asking(t, s)' /\ t.kind = "connect"
      BY <1>9, <3>2 DEF Asking
    <3> QED BY <2>2, <3>1, <3>4, <3>5 DEF Awaited
  <2>3. CASE v = u
    <3>1. Heard(r)
      BY <1>9, <2>3, FriendsHear
    <3>2. PICK x \in F : x = r \/ x = a
      BY <1>12, <3>1
    <3>3. WillTell(x, v)'
      <4>1. Own(x) = u /\ x.kind = "connect" /\ x.at[u] = epoch'[u]
        BY <1>8, <1>9, <1>11, <3>2
      <4> QED BY <2>3, <4>1 DEF WillTell, Telling, Own
    <3> QED BY <1>5, <3>3 DEF Said
  <2>4. CASE d # s /\ v # u
    <3>1. d \in on /\ epoch'[v] = epoch[v] /\ (Room(v)' = {} <=> Room(v) = {})
      BY <1>5, <1>6, <1>7, <2>1, <2>4 DEF Moved
    <3>2. CASE Awaited(d, v)
      <4>1. NoAnswer(d)' /\ blind' = blind
        BY <1>5, <3>2 DEF Awaited, NoAnswer
      <4>2. \A t \in tasks' : Asking(t, d) => t \in tasks /\ Fresh(t, v)
        BY <1>5, <1>9, <1>11, <1>12, <2>4, <3>2 DEF Awaited, Asking
      <4>3. \A t \in tasks' : Asking(t, d)' => Fresh(t, v)'
        BY <3>1, <4>2 DEF Asking, Fresh, Unread
      <4>4. (\E t \in tasks : Asking(t, d) /\ t.kind = "connect")
            => \E t \in tasks' : Asking(t, d)' /\ t.kind = "connect"
        BY <1>5 DEF Asking
      <4> QED BY <3>2, <4>1, <4>3, <4>4 DEF Awaited
    <3>3. CASE newest[d][v] = epoch[v] \/ unsaid[v] = epoch[v] \/ UnderWay(d, v)
      BY <1>5, <3>1, <3>3 DEF Said, UnderWay
    <3>4. ASSUME NEW t \in tasks, WillTell(t, v) PROVE Said(d, v)'
      <4>1. WillTell(t, v)'
        BY <3>1, <3>4 DEF WillTell, Telling, Own
      <4> QED BY <1>5, <4>1 DEF Said
    <3> QED BY <3>1, <3>2, <3>3, <3>4 DEF PresenceInv, Cover, Said
  <2> QED BY <2>2, <2>3, <2>4
<1> QED BY <1>6, <1>15, <1>16, <1>17, <1>18, <1>20 DEF PresenceInv, Moved

\* What losing the sockets of S does to the devices.
Dropped(S) ==
    /\ Moved /\ on' = on \ S /\ blind' = blind \ S
    /\ \A u \in User : (\A s \in S : Owner[s] # u) => epoch'[u] = epoch[u]
    /\ \A u \in User : epoch'[u] # epoch[u] => Room(u)' = {}
    /\ \A s \in on \ S : wire'[s] = wire[s] /\ newest'[s] = newest[s]
    /\ \A s \in Socket : Events(wire[s])' \subseteq Events(wire[s])
    /\ EventsOK' /\ ShownOK'
    /\ /\ tasks' \subseteq Task /\ unsaid' \in Epochs /\ visits' \in [Socket -> Nat]
       /\ asks' \in Nat /\ faults' \in Nat
       => TypeOK'

LEMMA DropIs ==
    ASSUME PresenceInv, NEW S \in SUBSET on, NEW kept \in BOOLEAN, Drop(S, kept)
    PROVE  Dropped(S)
<1>1. /\ on' = on \ S /\ epoch' = EpochAfter(on \ S) /\ blind' = blind \ S
      /\ wire' = [s \in Socket |-> IF s \in S THEN <<>> ELSE wire[s]]
      /\ shown' = [s \in Socket |-> IF s \in S /\ ~kept THEN {} ELSE shown[s]]
      /\ told' = [s \in Socket |-> IF s \in S THEN Zero ELSE told[s]]
      /\ newest' = [s \in Socket |-> IF s \in S THEN Zero ELSE newest[s]]
      /\ torn' = [s \in Socket |-> IF s \in S THEN {} ELSE torn[s]]
  BY DEF Drop
<1>2. /\ Moved
      /\ \A u \in User : (\A d \in on' \cup on : Owner[d] = u => d \in on' \cap on)
                         => epoch'[u] = epoch[u]
  <2>1. on \ S \in SUBSET Socket
    BY InvTypes
  <2> QED BY <1>1, <2>1, EpochMoves
<1>3. \A u \in User : (\A s \in S : Owner[s] # u) => epoch'[u] = epoch[u]
  BY <1>1, <1>2
<1>4. \A u \in User : epoch'[u] # epoch[u] => Room(u)' = {}
  <2>1. \A u \in User : Room(u)' \subseteq Room(u)
    BY <1>1 DEF Room
  <2> QED BY <1>2, <2>1 DEF Moved
<1>5. Zero \in Epochs /\ \A u \in User : Zero[u] = 0
  BY DEF Zero, Epochs
<1>6. /\ wire' \in [Socket -> Seq(Event)] /\ shown' \in [Socket -> SUBSET User]
      /\ told' \in [Socket -> Epochs] /\ newest' \in [Socket -> Epochs]
      /\ torn' \in [Socket -> SUBSET User]
  BY <1>1, <1>5, InvTypes
<1>7. \A s \in Socket : Events(wire[s])' \subseteq Events(wire[s])
  BY <1>1, NoEvent
<1>8. EventsOK'
  BY <1>2, <1>7, StillEventOK, EventsTyped, InvTypes DEF PresenceInv, EventsOK
<1>9. ShownOK'
  <2> SUFFICES ASSUME NEW d \in Socket, NEW v \in Friends[Owner[d]]
               PROVE  Right(v, told[d][v], v \in shown[d], v \in torn[d])'
    BY DEF ShownOK
  <2>1. PICK n, V, T : n = told[d][v] /\ V = shown[d] /\ T = torn[d]
    OBVIOUS
  <2>2. v \in User /\ Right(v, n, v \in V, v \in T) /\ n \in Nat
    BY <2>1, InvTypes, PresenceAssumption DEF PresenceInv, ShownOK, Epochs
  <2>3. CASE d \notin S
    <3>1. Right(v, n, v \in V, v \in T)'
      BY <1>2, <2>2, StillSeen
    <3> QED BY <1>1, <2>1, <2>3, <3>1
  <2>4. CASE d \in S
    <3>1. told'[d][v] = 0 /\ shown'[d] \subseteq V
      BY <1>1, <1>5, <2>1, <2>2, <2>4
    <3>2. epoch'[v] \in Nat /\ epoch[v] \in Nat /\ epoch[v] <= epoch'[v]
      BY <1>2, <2>2 DEF Moved
    <3>3. epoch'[v] = 0 => Room(v)' = {} /\ v \notin V
      <4>1. epoch'[v] = 0 => epoch[v] = 0 /\ n = 0
        BY <2>2, <3>2 DEF Right
      <4>2. epoch[v] = 0 => Room(v) = {}
        BY <2>2 DEF PresenceInv, Began
      <4>3. epoch'[v] = 0 => Room(v)' = {}
        BY <1>2, <2>2 DEF Moved, Began
      <4> QED BY <2>2, <4>1, <4>2, <4>3 DEF Right
    <3> QED BY <3>1, <3>2, <3>3 DEF Right
  <2> QED BY <2>3, <2>4
<1>10. ASSUME tasks' \subseteq Task, unsaid' \in Epochs, visits' \in [Socket -> Nat],
              asks' \in Nat, faults' \in Nat
       PROVE  TypeOK'
  <2>1. blind' \subseteq on' /\ on' \subseteq Socket
    BY <1>1, InvTypes
  <2>2. \A d \in Socket \ on' : wire'[d] = <<>>
    BY <1>1 DEF PresenceInv, TypeOK
  <2>3. \A d \in Socket, v \in User :
            told'[d][v] <= newest'[d][v] /\ newest'[d][v] <= epoch'[v]
    <3> SUFFICES ASSUME NEW d \in Socket, NEW v \in User
                 PROVE  told'[d][v] <= newest'[d][v] /\ newest'[d][v] <= epoch'[v]
      OBVIOUS
    <3>1. epoch[v] \in Nat /\ epoch'[v] \in Nat /\ epoch[v] <= epoch'[v]
      BY <1>2 DEF Moved
    <3>2. newest[d][v] \in Nat /\ told[d][v] <= newest[d][v] /\ newest[d][v] <= epoch[v]
      BY InvTypes DEF PresenceInv, TypeOK, Epochs
    <3>3. CASE d \in S
      <4>1. told'[d][v] = 0 /\ newest'[d][v] = 0
        BY <1>1, <1>5, <3>3
      <4> QED BY <3>1, <4>1
    <3>4. CASE d \notin S
      <4>1. told'[d] = told[d] /\ newest'[d] = newest[d]
        BY <1>1, <3>4
      <4> QED BY <3>1, <3>2, <4>1
    <3> QED BY <3>3, <3>4
  <2> QED BY <1>2, <1>6, <1>10, <2>1, <2>2, <2>3 DEF TypeOK, Moved
<1>11. \A s \in on \ S : wire'[s] = wire[s] /\ newest'[s] = newest[s]
  BY <1>1, InvTypes
<1> QED BY <1>1, <1>2, <1>3, <1>4, <1>7, <1>8, <1>9, <1>10, <1>11 DEF Dropped

LEMMA DisconnectKeeps ==
    ASSUME PresenceInv, NEW s \in Socket, NEW kept \in BOOLEAN, Disconnect(s, kept)
    PROVE  PresenceInv'
<1>1. PICK u0 : u0 = Owner[s]
  OBVIOUS
<1>2. PICK l : l = Looking(s, epoch'[u0])
  OBVIOUS
<1>3. PICK G : G = Going(Counted(l, u0, Home[s], on', epoch'))
  OBVIOUS
<1>4. /\ s \in on /\ tasks' = Followed(tasks \cup G, Watching \ {s})
      /\ UNCHANGED <<unsaid, visits, asks, faults>> /\ Drop({s}, kept)
  BY <1>1, <1>2, <1>3 DEF Disconnect
<1>5. /\ Moved /\ on' = on \ {s} /\ blind' = blind \ {s}
      /\ \A u \in User \ {u0} : epoch'[u] = epoch[u]
      /\ \A u \in User : epoch'[u] # epoch[u] => Room(u)' = {}
      /\ \A d \in on \ {s} : wire'[d] = wire[d] /\ newest'[d] = newest[d]
      /\ \A d \in Socket : Events(wire[d])' \subseteq Events(wire[d])
      /\ EventsOK' /\ ShownOK'
      /\ tasks' \subseteq Task => TypeOK'
  <2>1. {s} \in SUBSET on
    BY <1>4
  <2>2. unsaid' \in Epochs /\ visits' \in [Socket -> Nat] /\ asks' \in Nat /\ faults' \in Nat
    BY <1>4, InvTypes
  <2>3. PICK S : S = {s}
    OBVIOUS
  <2>4. S \in SUBSET on /\ Drop(S, kept)
    BY <1>4, <2>1, <2>3
  <2>5. Dropped(S)
    BY <2>4, DropIs
  <2>6. /\ Moved /\ on' = on \ S /\ blind' = blind \ S
        /\ \A u \in User : (\A d \in S : Owner[d] # u) => epoch'[u] = epoch[u]
        /\ \A u \in User : epoch'[u] # epoch[u] => Room(u)' = {}
        /\ \A d \in on \ S : wire'[d] = wire[d] /\ newest'[d] = newest[d]
        /\ \A d \in Socket : Events(wire[d])' \subseteq Events(wire[d])
        /\ EventsOK' /\ ShownOK'
        /\ tasks' \subseteq Task => TypeOK'
    BY <2>2, <2>5 DEF Dropped
  <2> QED BY <1>1, <2>3, <2>6
<1>6. /\ u0 \in User /\ Home[s] \in Instance /\ on' \in SUBSET Socket /\ epoch' \in Epochs
      /\ epoch'[u0] \in Nat
  BY <1>1, <1>5, InvTypes, PresenceAssumption DEF Moved
<1>7. /\ l \in Task /\ l.kind = "leave" /\ l.socket = s /\ Own(l) = u0 /\ l.pc = "looking"
      /\ l.todo = {u0} /\ l.found = {} /\ l.rest = {u0} \X Instance /\ l.at[u0] = epoch'[u0]
  BY <1>1, <1>2, <1>6, LookingIs
<1>8. LooksOn(G, l, u0, on', epoch')
  <2>1. PICK S, n : S = on' /\ n = epoch'
    OBVIOUS
  <2>2. G = Going(Counted(l, u0, Home[s], S, n)) /\ S \in SUBSET Socket /\ n \in Epochs
    BY <1>3, <1>6, <2>1
  <2>3. LooksOn(G, l, u0, S, n)
    BY <1>6, <1>7, <2>2, LookingGoes
  <2> QED BY <2>1, <2>3
<1>9. /\ G \subseteq Task /\ (Room(u0)' = {} => G # {})
      /\ \A g \in G : /\ Own(g) = u0 /\ g.kind = "leave" /\ g.at[u0] = epoch'[u0]
                      /\ g.pc # "reading" /\ TaskOK(g)'
                      /\ Room(u0)' = {} => WillTell(g, u0)'
  <2>1. Online(u0, on') <=> Room(u0)' # {}
    BY DEF Online, Room
  <2>2. ASSUME NEW g \in G
        PROVE  /\ Own(g) = u0 /\ g.kind = "leave" /\ g.at[u0] = epoch'[u0]
               /\ g.pc # "reading" /\ TaskOK(g)'
               /\ Room(u0)' = {} => WillTell(g, u0)'
    <3>1. /\ g.kind = "leave" /\ Own(g) = u0 /\ g.at[u0] = epoch'[u0]
          /\ g.pc \in {"looking", "announcing"} /\ g.rest \subseteq {u0} \X Instance
          /\ g.pc = "looking" => g.todo = {u0} /\ g.found = {}
          /\ g.pc = "announcing" => g.rest = {} /\ (Room(u0)' # {} => u0 \in g.torn)
      BY <1>7, <1>8, <2>1 DEF LooksOn, Own
    <3>2. Own(g)' = u0
      BY <3>1 DEF Own
    <3>3. g.pc = "looking" => LookingOK(g)'
      BY <1>6, <3>1, <3>2 DEF LookingOK
    <3>4. g.pc = "announcing" => AnnouncingOK(g)'
      BY <1>6, <3>1, <3>2 DEF AnnouncingOK, Right
    <3>5. TaskOK(g)'
      BY <3>1, <3>3, <3>4 DEF TaskOK
    <3>6. Room(u0)' = {} => WillTell(g, u0)'
      BY <3>1 DEF WillTell, Telling, Own
    <3> QED BY <3>1, <3>5, <3>6
  <2> QED BY <1>8, <2>1, <2>2 DEF LooksOn
<1>10. tasks \cup G \in SUBSET Task /\ Watching \ {s} \in SUBSET Socket
  BY <1>9, InvTypes, PresenceAssumption
<1>11. /\ tasks' \subseteq Task
       /\ \A r \in tasks' :
             \/ r \in tasks \cup G /\ (r.pc = "reading" => r.socket \in Watching \ {s})
             \/ \E t \in tasks : /\ t.pc = "reading" /\ t.kind = "connect"
                                 /\ r = Announcing(t, t.at[Own(t)])
       /\ \A t \in tasks : t.pc = "reading" /\ t.socket \in Watching \ {s} => t \in tasks'
       /\ \A t \in tasks \cup G : t.pc # "reading" /\ Heard(t) => t \in tasks'
       /\ \A t \in tasks : /\ t.pc = "reading" /\ t.kind = "connect" /\ Heard(t)
                           => t \in tasks' \/ Announcing(t, t.at[Own(t)]) \in tasks'
  <2>1. \A r \in tasks' :
            \/ r \in tasks \cup G /\ (r.pc = "reading" => r.socket \in Watching \ {s})
            \/ \E t \in tasks \cup G : /\ t.pc = "reading" /\ t.kind = "connect"
                                       /\ t.socket \notin Watching \ {s}
                                       /\ r = Announcing(t, t.at[Own(t)])
    BY <1>4, <1>10, FollowedIs
  <2>2. /\ tasks' \subseteq Task
        /\ \A t \in tasks \cup G : t.pc = "reading" /\ t.socket \in Watching \ {s} => t \in tasks'
        /\ \A t \in tasks \cup G : t.pc # "reading" /\ Heard(t) => t \in tasks'
        /\ \A t \in tasks \cup G : /\ t.pc = "reading" /\ t.kind = "connect"
                                   /\ t.socket \notin Watching \ {s} /\ Heard(t)
                                   => Announcing(t, t.at[Own(t)]) \in tasks'
    BY <1>4, <1>10, FollowedIs
  <2> QED BY <1>9, <2>1, <2>2
<1>12. \A t \in tasks : /\ t \in Task /\ TaskOK(t) /\ t.at[Own(t)] \in Nat
                        /\ t.pc = "reading" => t.socket \in on \cap Watching
  BY InvTypes, TaskShape DEF PresenceInv, TasksOK, TaskOK, ReadingOK, Epochs
<1>13. \A t \in tasks : LET a == Announcing(t, t.at[Own(t)])
                        IN  /\ a.kind = t.kind /\ a.socket = t.socket /\ a.pc = "announcing"
                            /\ Own(a) = Own(t) /\ a.at[Own(t)] = t.at[Own(t)]
  BY <1>12, AnnouncingIs
<1>14. TasksOK'
  <2> SUFFICES ASSUME NEW r \in tasks' PROVE TaskOK(r)'
    BY DEF TasksOK
  <2>1. CASE r \in tasks /\ (r.pc = "reading" => r.socket \in Watching \ {s})
    BY <1>5, <1>12, <2>1, StillTaskOK
  <2>2. CASE r \in G
    BY <1>9, <2>2
  <2>3. CASE \E t \in tasks : /\ t.pc = "reading" /\ t.kind = "connect"
                              /\ r = Announcing(t, t.at[Own(t)])
    <3>1. PICK t \in tasks : /\ t.pc = "reading" /\ t.kind = "connect"
                             /\ r = Announcing(t, t.at[Own(t)])
      BY <2>3
    <3>2. TaskOK(Announcing(t, t.at[Own(t)]))'
      BY <1>5, <1>12, <3>1, StillTaskOK
    <3>3. Announcing(t, t.at[Own(t)])' = Announcing(t, t.at[Own(t)])
      BY DEF Announcing, Own, Zero
    <3> QED BY <3>1, <3>2, <3>3
  <2> QED BY <1>11, <2>1, <2>2, <2>3
<1>15. \A r \in tasks' : r.pc = "reading" => r \in tasks /\ r.socket # s
  BY <1>9, <1>11, <1>13
<1>16. Cover'
  <2> SUFFICES ASSUME NEW d \in on' \cap Watching, NEW u \in Friends[Owner[d]]
               PROVE  Said(d, u)' \/ Awaited(d, u)'
    BY DEF Cover
  <2>1. d \in on \cap Watching /\ d # s /\ d \in Socket /\ u \in User
    BY <1>5, InvTypes, PresenceAssumption
  <2>2. CASE epoch'[u] # epoch[u]
    <3>1. u = u0 /\ Room(u0)' = {}
      BY <1>5, <2>1, <2>2
    <3>2. PICK g \in G : TRUE
      BY <1>9, <3>1
    <3>3. g \in tasks' /\ WillTell(g, u)'
      BY <1>9, <1>11, <2>1, <3>1, <3>2, FriendsHear
    <3> QED BY <3>3 DEF Said
  <2>3. ASSUME epoch'[u] = epoch[u] PROVE Room(u)' = {} <=> Room(u) = {}
    BY <1>5, <2>1, <2>3 DEF Moved
  <2>4. CASE epoch'[u] = epoch[u] /\ Awaited(d, u)
    <3>1. NoAnswer(d)' /\ (d \in blind => d \in blind')
      BY <1>5, <2>1, <2>4 DEF Awaited, NoAnswer
    <3>2. \A t \in tasks' : Asking(t, d)' => Fresh(t, u)'
      BY <1>15, <2>4 DEF Awaited, Asking, Fresh, Unread
    <3>3. (\E t \in tasks : Asking(t, d) /\ t.kind = "connect")
          => \E t \in tasks' : Asking(t, d)' /\ t.kind = "connect"
      BY <1>11, <2>1 DEF Asking
    <3> QED BY <2>4, <3>1, <3>2, <3>3 DEF Awaited
  <2>5. CASE epoch'[u] = epoch[u] /\
             (newest[d][u] = epoch[u] \/ unsaid[u] = epoch[u] \/ UnderWay(d, u))
    BY <1>4, <1>5, <2>1, <2>5 DEF Said, UnderWay
  <2>6. ASSUME epoch'[u] = epoch[u], NEW t \in tasks, WillTell(t, u) PROVE Said(d, u)'
    <3>1. Heard(t) /\ Own(t) = u /\ t \in Task
      BY <1>12, <2>1, <2>6, FriendsHear DEF WillTell
    <3>2. CASE t \in tasks'
      <4>1. WillTell(t, u)'
        BY <2>3, <2>6 DEF WillTell, Telling, Own
      <4> QED BY <3>2, <4>1 DEF Said
    <3>3. CASE t \notin tasks'
      <4>1. t.pc = "reading"
        BY <1>11, <3>1, <3>3
      <4>2. t.kind = "connect" /\ t.at[u] = epoch[u]
        BY <2>6, <4>1 DEF WillTell, Telling, Own
      <4>3. PICK a : a = Announcing(t, t.at[Own(t)])
        OBVIOUS
      <4>4. a \in tasks' /\ a.kind = "connect" /\ Own(a) = u /\ a.at[u] = epoch'[u]
        BY <1>11, <1>13, <2>6, <3>1, <3>3, <4>1, <4>2, <4>3
      <4> QED BY <4>4 DEF Said, WillTell, Telling, Own
    <3> QED BY <3>2, <3>3
  <2> QED BY <2>1, <2>2, <2>4, <2>5, <2>6 DEF PresenceInv, Cover, Said
<1> QED BY <1>5, <1>11, <1>14, <1>16 DEF PresenceInv, Moved

LEMMA CrashKeeps ==
    ASSUME PresenceInv, NEW i \in Instance, Crash(i)
    PROVE  PresenceInv'
<1>1. PICK S : S = {s \in on : Home[s] = i}
  OBVIOUS
<1>2. PICK T : T = {t \in tasks : Home[t.socket] = i}
  OBVIOUS
<1>3. PICK lost : lost = {u \in User : epoch'[u] # epoch[u] \/ \E t \in T : WillTell(t, u)}
  OBVIOUS
<1>4. /\ tasks' = tasks \ T /\ faults' \in Nat /\ visits' \in [Socket -> Nat] /\ asks' \in Nat
      /\ Drop(S, FALSE)
      /\ unsaid' = [u \in User |-> IF u \in lost THEN epoch'[u] ELSE unsaid[u]]
  <2>1. unsaid' = [u \in User |->
            IF epoch'[u] # epoch[u] \/ \E t \in T : Owner[t.socket] = u /\ Telling(t)
            THEN epoch'[u] ELSE unsaid[u]]
    BY <1>1, <1>2 DEF Crash
  <2>2. \A u \in User : u \in lost <=> \/ epoch'[u] # epoch[u]
                                       \/ \E t \in T : Owner[t.socket] = u /\ Telling(t)
    BY <1>3 DEF WillTell, Own
  <2>3. unsaid' = [u \in User |-> IF u \in lost THEN epoch'[u] ELSE unsaid[u]]
    BY <2>1, <2>2
  <2>4. tasks' = tasks \ T /\ Drop(S, FALSE) /\ Fault /\ UNCHANGED <<visits, asks>>
    BY <1>1, <1>2 DEF Crash
  <2>5. faults' \in Nat /\ visits' \in [Socket -> Nat] /\ asks' \in Nat
    BY <2>4, InvTypes DEF Fault
  <2> QED BY <2>3, <2>4, <2>5
<1>5. S \in SUBSET on
  BY <1>1
<1>6. /\ Moved /\ on' = on \ S /\ blind' = blind \ S
      /\ \A d \in on \ S : wire'[d] = wire[d] /\ newest'[d] = newest[d]
      /\ \A d \in Socket : Events(wire[d])' \subseteq Events(wire[d])
      /\ EventsOK' /\ ShownOK'
      /\ tasks' \subseteq Task /\ unsaid' \in Epochs => TypeOK'
  BY <1>4, <1>5, DropIs DEF Dropped
<1>7. unsaid' \in Epochs
  BY <1>4, <1>6, InvTypes DEF Epochs, Moved
<1>8. tasks' \subseteq tasks /\ tasks \subseteq Task
  BY <1>4, InvTypes
<1>9. \A t \in tasks : /\ TaskOK(t) /\ (t.pc = "reading" => t.socket \in on)
  BY DEF PresenceInv, TasksOK, TaskOK, ReadingOK
<1>10. \A t \in tasks' : t.pc = "reading" => t.socket \in on'
  BY <1>1, <1>2, <1>4, <1>6, <1>9
<1>11. TasksOK'
  <2> SUFFICES ASSUME NEW t \in tasks' PROVE TaskOK(t)'
    BY DEF TasksOK
  <2> QED BY <1>6, <1>8, <1>9, <1>10, StillTaskOK
<1>12. Cover'
  <2> SUFFICES ASSUME NEW d \in on' \cap Watching, NEW u \in Friends[Owner[d]]
               PROVE  Said(d, u)' \/ Awaited(d, u)'
    BY DEF Cover
  <2>1. d \in (on \ S) \cap Watching /\ d \in Socket /\ u \in User
    BY <1>6, InvTypes, PresenceAssumption
  <2>2. CASE u \in lost
    BY <1>4, <2>1, <2>2 DEF Said
  <2>3. ASSUME u \notin lost PROVE /\ epoch'[u] = epoch[u] /\ unsaid'[u] = unsaid[u]
                                   /\ Room(u)' = {} <=> Room(u) = {}
    BY <1>3, <1>4, <1>6, <2>1, <2>3 DEF Moved
  <2>4. CASE u \notin lost /\ Awaited(d, u)
    <3>1. NoAnswer(d)' /\ (d \in blind => d \in blind')
      BY <1>6, <2>1, <2>4 DEF Awaited, NoAnswer
    <3>2. \A t \in tasks' : Asking(t, d)' => Fresh(t, u)'
      BY <1>8, <2>3, <2>4 DEF Awaited, Asking, Fresh, Unread
    <3>3. \A t \in tasks : Asking(t, d) => t \in tasks'
      BY <1>1, <1>2, <1>4, <2>1 DEF Asking
    <3>4. (\E t \in tasks : Asking(t, d) /\ t.kind = "connect")
          => \E t \in tasks' : Asking(t, d)' /\ t.kind = "connect"
      BY <3>3 DEF Asking
    <3> QED BY <2>4, <3>1, <3>2, <3>4 DEF Awaited
  <2>5. CASE u \notin lost /\
             (newest[d][u] = epoch[u] \/ unsaid[u] = epoch[u] \/ UnderWay(d, u))
    BY <1>6, <2>1, <2>3, <2>5 DEF Said, UnderWay
  <2>6. ASSUME u \notin lost, NEW t \in tasks, WillTell(t, u) PROVE Said(d, u)'
    <3>1. t \in tasks'
      BY <1>3, <1>4, <2>1, <2>6
    <3>2. WillTell(t, u)'
      BY <2>3, <2>6 DEF WillTell, Telling, Own
    <3> QED BY <3>1, <3>2 DEF Said
  <2> QED BY <2>1, <2>2, <2>4, <2>5, <2>6 DEF PresenceInv, Cover, Said
<1> QED BY <1>6, <1>7, <1>8, <1>11, <1>12 DEF PresenceInv, Moved

------------------------------------------------------------------------------
(* The theorems *)

LEMMA PresenceInit == Init => PresenceInv
<1> SUFFICES ASSUME Init PROVE PresenceInv
  OBVIOUS
<1>1. Zero \in Epochs /\ \A u \in User : Zero[u] = 0
  BY DEF Zero, Epochs
<1>2. <<>> \in Seq(Event)
  OBVIOUS
<1>3. TypeOK
  BY <1>1, <1>2, PresenceAssumption DEF Init, TypeOK
<1>4. \A u \in User : Room(u) = {} /\ epoch[u] = 0
  BY <1>1 DEF Init, Room
<1>5. ShownOK
  <2> SUFFICES ASSUME NEW s \in Socket, NEW v \in Friends[Owner[s]]
               PROVE  Right(v, told[s][v], v \in shown[s], v \in torn[s])
    BY DEF ShownOK
  <2>1. v \in User
    BY PresenceAssumption
  <2> QED BY <1>1, <1>4, <2>1 DEF Init, Right
<1>6. EventsOK
  BY NoEvent DEF Init, EventsOK
<1>7. Began /\ TasksOK /\ Cover
  BY <1>4 DEF Init, Began, TasksOK, Cover
<1> QED BY <1>3, <1>5, <1>6, <1>7 DEF PresenceInv

LEMMA PresenceStep == PresenceInv /\ [Next]_vars => PresenceInv'
<1> SUFFICES ASSUME PresenceInv, [Next]_vars PROVE PresenceInv'
  OBVIOUS
<1>1. CASE \E s \in Socket : Connect(s) \/ Refresh(s) \/ Receive(s)
  BY <1>1, ConnectKeeps, RefreshKeeps, ReceiveKeeps
<1>2. CASE \E s \in Socket, kept \in BOOLEAN : Disconnect(s, kept)
  BY <1>2, DisconnectKeeps
<1>3. CASE \E i \in Instance : Crash(i)
  BY <1>3, CrashKeeps
<1>4. ASSUME NEW t \in tasks, Handler(t) PROVE PresenceInv'
  BY <1>4, ReadFriendKeeps, AnswerKeeps, SendSnapshotKeeps, SnapshotFailsKeeps,
     AnnouncementFailsKeeps, AnnounceKeeps DEF Handler
<1>5. CASE UNCHANGED vars
  <2>1. UNCHANGED <<on, tasks, wire, shown, epoch, told, newest, torn, unsaid, blind, visits,
                    asks, faults>>
    BY <1>5 DEF vars
  <2>2. TasksStep
    BY <2>1, InvTypes DEF TasksStep
  <2>3. TasksOK'
    BY <2>1, Steady, InvTypes DEF PresenceInv, TasksOK
  <2>4. \A s \in Socket, u \in User : (Said(s, u) => Said(s, u)') /\ (Awaited(s, u) => Awaited(s, u)')
    BY <2>1, Steady, InvTypes DEF Said, UnderWay, Awaited, NoAnswer, Asking
  <2>5. Cover'
    BY <2>1, <2>4, InvTypes, PresenceAssumption DEF PresenceInv, Cover
  <2> QED BY <2>2, <2>3, <2>5, TasksStepKeeps DEF PresenceInv
<1> QED BY <1>1, <1>2, <1>3, <1>4, <1>5 DEF Next

LEMMA PresenceAlways == Spec => []PresenceInv
BY PresenceInit, PresenceStep, PTL DEF Spec

\* Every variable keeps its type, nothing is under way to a socket that is gone, and
\* no device was told of a coming or going that has not happened.
THEOREM TypeCorrect == Spec => []TypeOK
<1>1. PresenceInv => TypeOK
  BY DEF PresenceInv
<1> QED BY <1>1, PresenceAlways, PTL

\* What a device shows once nothing that concerns it is under way is true of every
\* friend, however connections, snapshots and announcements of any number of users,
\* devices and instances overlapped, unless an event was overtaken, the telling of the
\* last change failed, or the friend moved between processes during the read
\* (chats.gateway.ts, handleConnection and handleDisconnect).
THEOREM SettledShowsTruth == Spec => []SettledIsRight
<1>1. PresenceInv => SettledIsRight
  <2> SUFFICES ASSUME PresenceInv, NEW s \in Socket, Quiet(s), s \notin blind,
                      NEW u \in Friends[Owner[s]]
               PROVE  \/ u \in shown[s] <=> Room(u) # {}
                      \/ told[s][u] < newest[s][u]
                      \/ unsaid[u] = epoch[u] /\ told[s][u] < epoch[u]
                      \/ u \in torn[s] /\ told[s][u] = epoch[u] /\ Room(u) # {}
    BY DEF SettledIsRight
  <2>1. u \in User /\ s \in on \cap Watching
    BY PresenceAssumption DEF Quiet
  <2>2. /\ told[s][u] \in Nat /\ newest[s][u] \in Nat /\ epoch[u] \in Nat /\ unsaid[u] \in Nat
        /\ told[s][u] <= newest[s][u] /\ newest[s][u] <= epoch[u]
    BY <2>1, InvTypes DEF PresenceInv, TypeOK, Epochs
  <2>3. \A t \in tasks : ~Asking(t, s) /\ ~WillTell(t, u)
    <3> SUFFICES ASSUME NEW t \in tasks PROVE ~Asking(t, s) /\ ~WillTell(t, u)
      OBVIOUS
    <3>1. TaskOK(t) /\ t.socket # s /\ (Own(t) = u => t.kind = "get")
      BY DEF Quiet, Own, PresenceInv, TasksOK
    <3> QED BY <3>1 DEF Asking, WillTell, Telling, Own, TaskOK, AnnouncingOK, LookingOK
  <2>4. ~UnderWay(s, u)
    BY NoEvent DEF Quiet, UnderWay
  <2>5. newest[s][u] = epoch[u] \/ unsaid[u] = epoch[u]
    BY <2>1, <2>3, <2>4 DEF PresenceInv, Cover, Said, Awaited
  <2>6. Right(u, told[s][u], u \in shown[s], u \in torn[s])
    BY DEF PresenceInv, ShownOK
  <2>7. CASE told[s][u] = epoch[u]
    BY <2>6, <2>7 DEF Right
  <2>8. CASE told[s][u] # epoch[u]
    <3>1. told[s][u] < epoch[u]
      BY <2>2, <2>8
    <3> QED BY <2>5, <3>1
  <2> QED BY <2>7, <2>8
<1> QED BY <1>1, PresenceAlways, PTL

=============================================================================
