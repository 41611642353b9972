------------------------------- MODULE Presence -------------------------------
(****************************************************************************)
(* Who is shown online: the handlers of the socket gateway                  *)
(* (chats/chats.gateway.ts) and the presence the app keeps of them          *)
(* (mobile/lib/services/chat_realtime_service.dart).                        *)
(*                                                                          *)
(* A user is online while the room of the user has a socket.  epoch counts, *)
(* as history, how often that changed.  Whatever tells a device about a     *)
(* user also carries the epoch at which it was decided, so that the model   *)
(* knows how old it is; the program has no such number.                     *)
(*                                                                          *)
(* A task is a handler at one of its awaits:                                *)
(*   reading    sendPresenceSnapshot, fetching the sockets of friends       *)
(*   looking    handleDisconnect, fetching the sockets that remain          *)
(*   announcing broadcastPresenceChange, reading the friends                *)
(* fetchSockets sees the sockets of its own process at once; those of the   *)
(* others come with their answers over Redis, each at a time of its own.    *)
(* An emit that Redis carries late to one socket is like an announcement    *)
(* that is made late, so it takes no step of its own.                       *)
(****************************************************************************)
EXTENDS Integers, FiniteSets, Sequences

CONSTANTS
    User,      \* users
    Socket,    \* devices that may be connected
    Watching,  \* those whose display is followed: displays do not interact
    Instance,  \* API processes
    Owner,     \* whose device it is
    Home,      \* the API process it connects to
    Friends,   \* getAcceptedFriendIds of each user
    MaxVisits, \* bound: connections made by each device
    MaxAsks,   \* bound: snapshots asked for
    MaxFaults  \* bound: failed reads and crashes

ASSUME PresenceAssumption ==
    /\ Watching \subseteq Socket
    /\ Owner \in [Socket -> User]
    /\ Home \in [Socket -> Instance]
    /\ Friends \in [User -> SUBSET User]
    /\ \A u, v \in User : u \in Friends[v] => u # v /\ v \in Friends[u]
    /\ MaxVisits \in Nat /\ MaxAsks \in Nat /\ MaxFaults \in Nat

VARIABLES
    on,      \* the sockets that are connected, each in the room of its owner
    tasks,   \* the handlers under way
    wire,    \* events on their way to a device
    shown,   \* _onlineUserIds of each device
    epoch,   \* history: how often each user came and went
    told,    \* history: the epoch of what a device was told last about a user
    newest,  \* history: the newest epoch it was told since it connected
    torn,    \* history: users it was told last about out of a torn read
    unsaid,  \* history: the newest epoch that somebody failed to announce
    blind,   \* history: devices that no snapshot has reached since theirs failed
    visits,  \* how often each device has connected
    asks, faults  \* snapshots asked for, and faults, so far

vars == <<on, tasks, wire, shown, epoch, told, newest, torn, unsaid, blind, visits, asks, faults>>

Epochs == [User -> Nat]
Zero == [u \in User |-> 0]
\* A handler knows, of the users it still has to read (todo), whom it is reading and
\* which processes have to answer (rest); of the others, who was found, at which
\* epoch the read began (at), and which reads were torn.  A twin is a second handler
\* of this kind for the same device.
Task == [kind : {"connect", "get", "leave"}, socket : Socket, twin : BOOLEAN,
         pc : {"reading", "looking", "announcing"},
         todo : SUBSET User, rest : SUBSET (User \X Instance),
         found : SUBSET User, torn : SUBSET User, at : Epochs]
Event == [snapshot : BOOLEAN, about : SUBSET User, online : SUBSET User,
          torn : SUBSET User, at : Epochs]

Room(u) == {s \in on : Owner[s] = u}
Online(u, S) == \E s \in S : Owner[s] = u

\* The epochs once the connected sockets are S.
EpochAfter(S) ==
    [u \in User |-> IF Online(u, S) = Online(u, on) THEN epoch[u] ELSE epoch[u] + 1]

Twin(s, kind) == \E t \in tasks : t.socket = s /\ t.kind = kind /\ ~t.twin

Reading(s, kind, at) ==
    [kind |-> kind, socket |-> s, twin |-> Twin(s, kind), pc |-> "reading",
     todo |-> Friends[Owner[s]], rest |-> {}, found |-> {}, torn |-> {}, at |-> at]

\* handleDisconnect, decided on at epoch e, has asked all processes.
Looking(s, e) ==
    LET u == Owner[s]
    IN  [kind |-> "leave", socket |-> s, twin |-> Twin(s, "leave"), pc |-> "looking",
         todo |-> {u}, rest |-> {u} \X Instance, found |-> {}, torn |-> {},
         at |-> [Zero EXCEPT ![u] = e]]

\* The task goes on to announce the change it decided on at epoch n.
Announcing(t, n) ==
    [t EXCEPT !.pc = "announcing", !.todo = {}, !.rest = {}, !.found = {},
              !.torn = @ \cap {Owner[t.socket]},
              !.at = [Zero EXCEPT ![Owner[t.socket]] = n]]

\* Process i answers about user u while the sockets of S are connected and the epochs
\* are n: one socket is enough, and without one the user is offline when all have
\* answered.  A read that has missed a user who was online all along is torn.
Counted(t, u, i, S, n) ==
    LET there == \E s \in S : Owner[s] = u /\ Home[s] = i
        last == t.rest \subseteq {<<u, i>>}
        missed == ~there /\ last /\ Online(u, S) /\ t.at[u] = n[u]
    IN  [t EXCEPT !.rest = IF there THEN {} ELSE @ \ {<<u, i>>},
                  !.todo = IF there \/ last THEN @ \ {u} ELSE @,
                  !.found = IF there THEN @ \cup {u} ELSE @,
                  !.torn = IF missed THEN @ \cup {u} ELSE @]

GoingAlways(t) ==  \* mutant: offline is announced whoever remains
    IF t.pc # "looking" \/ t.todo # {} THEN {t}
    ELSE {Announcing(t, t.at[Owner[t.socket]])}

\* handleDisconnect announces only when no socket of the user remains.
Going(t) ==
    IF t.pc # "looking" \/ t.todo # {} THEN {t}
    ELSE IF t.found = {} THEN {Announcing(t, t.at[Owner[t.socket]])} ELSE {}

\* A snapshot handler ends, or goes on to the announcement of handleConnection.
AfterSnapshot(t) ==
    IF t.kind = "connect" THEN {Announcing(t, t.at[Owner[t.socket]])} ELSE {}

\* Of the tasks T only those are followed that some followed device can notice:
\* an announcement to nobody followed is left out, and a snapshot to a device
\* that has gone or is not followed is not assembled, although the announcement
\* of handleConnection is made all the same.
Heard(t) == \E s \in Watching : Owner[s] \in Friends[Owner[t.socket]]
Followed(T, S) ==
    LET R == {t \in T : t.pc = "reading" /\ t.socket \notin S}
    IN  {t \in (T \ R) \cup UNION {AfterSnapshot(t) : t \in R} :
             t.pc = "reading" \/ Heard(t)}

\* The task announces the present epoch of its user, or is about to.
Telling(t) ==
    LET u == Owner[t.socket]
    IN  /\ t.at[u] = epoch[u]
        /\ t.kind = "connect" \/ t.pc = "announcing" \/ (t.pc = "looking" /\ Room(u) = {})

Fault == faults < MaxFaults /\ faults' = faults + 1

Init ==
    /\ on = {} /\ tasks = {}
    /\ wire = [s \in Socket |-> <<>>]
    /\ shown = [s \in Socket |-> {}]
    /\ told = [s \in Socket |-> Zero]
    /\ newest = [s \in Socket |-> Zero]
    /\ torn = [s \in Socket |-> {}]
    /\ epoch = Zero /\ unsaid = Zero /\ blind = {}
    /\ visits = [s \in Socket |-> 0] /\ asks = 0 /\ faults = 0

------------------------------------------------------------------------------
(* Sockets come and go *)

\* handleConnection joins the room and starts on the snapshot; that the user is
\* online, which it announces afterwards, is decided here.
Connect(s) ==
    /\ s \notin on /\ visits[s] < MaxVisits
    /\ visits' = [visits EXCEPT ![s] = @ + 1]
    /\ on' = on \cup {s}
    /\ epoch' = EpochAfter(on \cup {s})
    /\ LET u == Owner[s]
       IN  tasks' = tasks \cup Followed(
               {Reading(s, "connect", [Zero EXCEPT ![u] = epoch'[u]])}, Watching)
    /\ UNCHANGED <<wire, shown, told, newest, torn, unsaid, blind, asks, faults>>

DropLate(S, kept) ==  \* mutant: events of a socket that was replaced still count
    /\ on' = on \ S
    /\ epoch' = EpochAfter(on \ S)
    /\ shown' = [s \in Socket |-> IF s \in S /\ ~kept THEN {} ELSE shown[s]]
    /\ told' = [s \in Socket |-> IF s \in S THEN Zero ELSE told[s]]
    /\ newest' = [s \in Socket |-> IF s \in S THEN Zero ELSE newest[s]]
    /\ torn' = [s \in Socket |-> IF s \in S THEN {} ELSE torn[s]]
    /\ blind' = blind \ S
    /\ UNCHANGED wire

\* The devices of S lose their sockets.  The app shows nobody online any more;
\* only _openSocket, which replaces the socket, leaves the set as it was.
Drop(S, kept) ==
    /\ on' = on \ S
    /\ epoch' = EpochAfter(on \ S)
    /\ wire' = [s \in Socket |-> IF s \in S THEN <<>> ELSE wire[s]]
    /\ shown' = [s \in Socket |-> IF s \in S /\ ~kept THEN {} ELSE shown[s]]
    /\ told' = [s \in Socket |-> IF s \in S THEN Zero ELSE told[s]]
    /\ newest' = [s \in Socket |-> IF s \in S THEN Zero ELSE newest[s]]
    /\ torn' = [s \in Socket |-> IF s \in S THEN {} ELSE torn[s]]
    /\ blind' = blind \ S

\* handleDisconnect sees what remains in its own process at once.
Disconnect(s, kept) ==
    /\ s \in on /\ (kept => s \in Watching)
    /\ Drop({s}, kept)
    /\ LET u == Owner[s]
           l == Counted(Looking(s, epoch'[u]), u, Home[s], on', epoch')
       IN  tasks' = Followed(tasks \cup Going(l), Watching \ {s})
    /\ UNCHANGED <<unsaid, visits, asks, faults>>

\* An API process dies with its sockets and its handlers: nobody is told.  One that
\* has to answer a read is not there to be asked, or the read times out.
Crash(i) ==
    LET S == {s \in on : Home[s] = i}
        T == {t \in tasks : Home[t.socket] = i}
    IN  /\ S # {} /\ Fault
        /\ Drop(S, FALSE)
        /\ tasks' = tasks \ T
        /\ unsaid' = [u \in User |->
               IF epoch'[u] # epoch[u] \/ \E t \in T : Owner[t.socket] = u /\ Telling(t)
               THEN epoch'[u] ELSE unsaid[u]]
        /\ UNCHANGED <<visits, asks>>

------------------------------------------------------------------------------
(* The handlers *)

\* refreshPresence: the app asks for a snapshot, also as soon as it is connected,
\* when that of its connection is still being assembled.
Refresh(s) ==
    /\ s \in on \cap Watching /\ asks < MaxAsks
    /\ asks' = asks + 1
    /\ tasks' = tasks \cup {Reading(s, "get", Zero)}
    /\ UNCHANGED <<on, wire, shown, epoch, told, newest, torn, unsaid, blind, visits, faults>>

\* getOnlineUserIds asks for one friend after the other.
ReadFriend(t, u) ==
    /\ t.pc = "reading" /\ t.rest = {} /\ u \in t.todo
    /\ LET asked == [t EXCEPT !.at[u] = epoch[u], !.rest = {u} \X Instance]
       IN  tasks' = (tasks \ {t}) \cup {Counted(asked, u, Home[t.socket], on, epoch)}
    /\ UNCHANGED <<on, wire, shown, epoch, told, newest, torn, unsaid, blind, visits, asks, faults>>

\* The answer of another process to fetchSockets.
Answer(t, u, i) ==
    /\ <<u, i>> \in t.rest
    /\ tasks' = (tasks \ {t}) \cup Going(Counted(t, u, i, on, epoch))
    /\ UNCHANGED <<on, wire, shown, epoch, told, newest, torn, unsaid, blind, visits, asks, faults>>

SendSnapshot(t) ==
    /\ t.pc = "reading" /\ t.todo = {}
    /\ wire' = [wire EXCEPT ![t.socket] = Append(@,
                   [snapshot |-> TRUE, about |-> Friends[Owner[t.socket]],
                    online |-> t.found, torn |-> t.torn, at |-> t.at])]
    /\ tasks' = (tasks \ {t}) \cup Followed(AfterSnapshot(t), Watching)
    /\ UNCHANGED <<on, shown, epoch, told, newest, torn, unsaid, blind, visits, asks, faults>>

\* fetchSockets or getAcceptedFriendIds rejects; that of a refresh changes nothing.
SnapshotFails(t) ==
    /\ t.pc = "reading" /\ Fault
    /\ blind' = IF t.kind = "connect" THEN blind \cup {t.socket} ELSE blind
    /\ tasks' = (tasks \ {t}) \cup Followed(AfterSnapshot(t), Watching)
    /\ UNCHANGED <<on, wire, shown, epoch, told, newest, torn, unsaid, visits, asks>>

\* fetchSockets or getAcceptedFriendIds rejects: nobody is told.
AnnouncementFails(t) ==
    /\ t.pc \in {"looking", "announcing"} /\ Fault
    /\ tasks' = tasks \ {t}
    /\ unsaid' = IF Telling(t) THEN [unsaid EXCEPT ![Owner[t.socket]] = epoch[Owner[t.socket]]]
                 ELSE unsaid
    /\ UNCHANGED <<on, wire, shown, epoch, told, newest, torn, blind, visits, asks>>

\* One presence.changed to every socket in the rooms of the friends.
Announce(t) ==
    /\ t.pc = "announcing"
    /\ LET u == Owner[t.socket]
           e == [snapshot |-> FALSE, about |-> {u}, torn |-> t.torn, at |-> t.at,
                 online |-> IF t.kind = "connect" THEN {u} ELSE {}]
       IN  wire' = [s \in Socket |-> IF s \in on \cap Watching /\ Owner[s] \in Friends[u]
                                     THEN Append(wire[s], e) ELSE wire[s]]
    /\ tasks' = tasks \ {t}
    /\ UNCHANGED <<on, shown, epoch, told, newest, torn, unsaid, blind, visits, asks, faults>>

\* The app applies the events in the order they come: a snapshot replaces what
\* is shown, a change adds or removes one user.
Receive(s) ==
    /\ wire[s] # <<>>
    /\ LET e == Head(wire[s])
           rest == IF e.snapshot THEN {} ELSE shown[s] \ e.about
       IN  /\ shown' = [shown EXCEPT ![s] = rest \cup e.online]
           /\ told' = [told EXCEPT ![s] =
                  [u \in User |-> IF u \in e.about THEN e.at[u] ELSE @[u]]]
           /\ newest' = [newest EXCEPT ![s] =
                  [u \in User |-> IF told'[s][u] > @[u] THEN told'[s][u] ELSE @[u]]]
           /\ torn' = [torn EXCEPT ![s] = (@ \ e.about) \cup e.torn]
           /\ blind' = IF e.snapshot THEN blind \ {s} ELSE blind
    /\ wire' = [wire EXCEPT ![s] = Tail(@)]
    /\ UNCHANGED <<on, tasks, epoch, unsaid, visits, asks, faults>>

Handler(t) ==
    \/ \E u \in User : ReadFriend(t, u) \/ \E i \in Instance : Answer(t, u, i)
    \/ SendSnapshot(t) \/ SnapshotFails(t)
    \/ AnnouncementFails(t) \/ Announce(t)

Next ==
    \/ \E s \in Socket :
         Connect(s) \/ Refresh(s) \/ Receive(s) \/ \E kept \in BOOLEAN : Disconnect(s, kept)
    \/ \E i \in Instance : Crash(i)
    \/ \E t \in tasks : Handler(t)

Spec == Init /\ [][Next]_vars

------------------------------------------------------------------------------
(* Properties *)

\* The state has its shape; nothing is under way to a socket that is gone, and
\* what a device was told is never newer than what happened.
TypeOK ==
    /\ on \subseteq Socket /\ blind \subseteq on
    /\ tasks \subseteq Task
    /\ wire \in [Socket -> Seq(Event)]
    /\ shown \in [Socket -> SUBSET User]
    /\ epoch \in Epochs /\ unsaid \in Epochs
    /\ told \in [Socket -> Epochs] /\ newest \in [Socket -> Epochs]
    /\ torn \in [Socket -> SUBSET User]
    /\ visits \in [Socket -> Nat] /\ asks \in Nat /\ faults \in Nat
    /\ \A s \in Socket \ on : wire[s] = <<>>
    /\ \A s \in Socket, u \in User :
         told[s][u] <= newest[s][u] /\ newest[s][u] <= epoch[u]

\* Nothing that concerns device s is under way.
Quiet(s) ==
    /\ s \in on \cap Watching /\ wire[s] = <<>>
    /\ \A t \in tasks :
         t.socket # s /\ (Owner[t.socket] \in Friends[Owner[s]] => t.kind = "get")

\* When everything about a device has settled it shows each friend as the friend
\* is, but in three cases: the last thing it was told is older than something it had
\* been told before; the friend's last coming or going could not be announced, and the
\* device was told nothing since; or the friend moved between processes while a read
\* collected their answers, and passes for offline.  So every coming and going is
\* announced to, or read by, everybody it concerns, snapshots that overlap included,
\* and an answer to refreshPresence mends what the three cases have left.
SettledIsRight ==
    \A s \in Socket : Quiet(s) /\ s \notin blind =>
        \A u \in Friends[Owner[s]] :
            \/ u \in shown[s] <=> Room(u) # {}
            \/ told[s][u] < newest[s][u]
            \/ unsaid[u] = epoch[u] /\ told[s][u] < epoch[u]
            \/ u \in torn[s] /\ told[s][u] = epoch[u] /\ Room(u) # {}
==============================================================================
