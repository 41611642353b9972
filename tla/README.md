# Chatly in TLA+

Chatly is a messenger: a NestJS backend (`src/apps/backend`: an API over PostgreSQL,
MinIO and a socket gateway, and a mail service behind RabbitMQ) and a Flutter app
(`src/apps/mobile`).  This directory holds models of its concurrent parts, the TLC
configurations that check them on small instances, and theorems about them that TLAPS
proves for every size.  Paths below are relative to `src/apps`; `api/` stands for
`backend/apps/api/src/`, `mail/` for `backend/apps/mail-service/src/`.

## 1. The system

| Component | State | Operations | Talks to |
|---|---|---|---|
| Transactional outbox (`api/auth/outbox-dispatcher.service.ts`) | table `outbox_events`; per instance the poll, the dispatches in flight | commit of an event, dispatchNow, poll, dispatch, reschedule, markDead, expire, shutdown | RabbitMQ, other instances through the table |
| Mail service (`mail/mail-events.controller.ts`, `rabbit-topology.ts`) | messages in the main, retry and dead-letter queues | handle, retry, dead-letter, acknowledge | SMTP, RabbitMQ |
| Redrive (`mail/dlq-redrive.ts`) | the run: messages held, scanned, redriven | select, hold, discard, publish and confirm | dead-letter and main queues |
| Friendships (`api/friendships/friends.service.ts`) | table `friendships` | send, accept, reject, remove | chats, socket events |
| Direct chats (`api/chats/chats.service.ts`, `getOrCreateDirectChat`) | `chats`, `chat_participants` | get or create | friendships (a row lock) |
| Messages (`api/chats/chats.service.ts`) | `messages`, last message, read cursors | send, markRead, getMessages, unread count | gateway |
| Chat screen (`mobile/lib/screens/chat_screen.dart`, `services/chat_realtime_service.dart`) | list of messages, flags of the fetch under way, socket | first load, catch-up, live message, send, mark as read | API over HTTP and socket |
| Socket gateway and presence (`api/chats/chats.gateway.ts`, `api/realtime`) | rooms of sockets, shared through Redis | connect, disconnect, snapshots, typing, publishing | friendships, chats, the app |
| Authentication and sessions (`api/auth/auth.service.ts`) | users, sessions, verification tokens | signup, verify, resend, sign in, refresh, sign out | outbox, the app |
| Session of the app (`mobile/lib/services/auth_service.dart`, `api_service.dart`) | stored tokens, the shared refresh | refresh once, retry after 401, sign out | API |
| Avatars (`api/avatars/avatars.service.ts`) | table `avatars`, objects in MinIO | upload, select, delete | MinIO |
| Lists of the app (`mobile/lib/screens/chats_screen.dart`, `services/friend_requests_controller.dart`) | last answers, flags | coalesced or overlapping reloads | API |
| Users, controllers, widgets | none, or layout | queries, routing, rendering | all |

How a verification mail travels: signup commits a user, a token and an outbox row in one
transaction; an instance claims the row under a lease and publishes it; the mail
service sends it, retries it through three delayed queues, or leaves it in the
dead-letter queue, from where an operator redrives it.  How a message travels: its
sender's request commits it under the lock of the chat row, then the gateway pushes it
to the rooms of both participants; a device that missed the push gets it by the
catch-up it makes at its next connection.

What is hard here, and which property watches it, is listed line by line under `hazards`
in `PROJECT.json`.  The recurring patterns:

- *leases and clocks*: claims run out under their holder, and late workers write to rows
  that others hold by then (outbox);
- *two systems, no common transaction*: PostgreSQL and RabbitMQ, RabbitMQ and SMTP, a
  commit and the push that follows it, a table and the object store;
- *read, then write*: a SELECT outside the transaction of the UPDATE (friend requests,
  refresh tokens, avatars);
- *state used after an await*: presence, the screens and the session of the app;
- *two orders of the same thing*: microseconds in SQL, milliseconds in JavaScript and Dart;
- *limits*: retries against the header, batches against the lease, expiry against the
  next retry.

What makes each component correct, in a sentence:

- Hand-over: each station a mail passes owes it until a copy was handed on or it was openly
  dropped; outbox and mail queues both keep this promise (`Handoff`).
- Outbox: every committed event is published at least once or buried at its expiry;
  twice only after a fault, a shutdown in the middle of its dispatch or a lease that ran out;
  two holders of a valid lease never meet.
- Mail service: an event taken from the API is mailed, quarantined or thrown away on
  order, never lost; it does not circle for ever.
- Friendships and chats: only the receiver makes a request a friendship, one chat per pair, no chat without
  friendship.
- Messages: what was read stays read; a catch-up returns everything newer.
- Chat screen: every message gets to the screen, by the push or by the catch-up after it.
- Presence: once everything has settled, friends see the truth, unless an event was overtaken,
  telling them failed, or a reading of several instances was torn; asking again mends it.
- Verification: one mail per cooldown, none to a verified user.
- Sessions: callers share one refresh, nothing that happens elsewhere ends the session of the app,
  and nobody stays inside the app without one unnoticed.
- Avatars: at most one selected, every row has its object, every object its row.

## 2. Modules

| Module | Models | Checked by | Proved in |
|---|---|---|---|
| `Handoff` | abstract: what a station owes the items it takes over | through `Outbox`, `MailQueue` | the same |
| `Outbox` | outbox dispatcher on several instances; implements `Handoff` | `MCOutbox` (2 runs) | `OutboxProofs` |
| `MailQueue` | mail consumer, retry queues, dead-letter queue, redrive; implements `Handoff` | `MCMailQueue` (1 run) | `MailQueueProofs` |
| `Friendships` | friend requests and creation of direct chats | `MCFriendships` (2 runs) | `FriendshipsProofs` |
| `ChatLog` | the messages of one chat in the API | `MCChatLog` (2 runs) | `ChatLogProofs` |
| `ChatScreen` | the open chat on a device; extends `ChatLog` | `MCChatScreen` (2 runs) | `ChatScreenProofs` |
| `Presence` | presence in the socket gateway, and in the app | `MCPresence` (1 run) | `PresenceProofs` |
| `Account` | one account in the API: signup, verification, sign-in, refresh | through `AppSession` | `AppSessionProofs` |
| `AppSession` | the session of the app on one device; extends `Account` | `MCAppSession` (1 run) | `AppSessionProofs` |
| `Avatars` | avatars of a user, table and bucket | `MCAvatars` (1 run) | `AvatarsProofs` |

`map` in `PROJECT.json` names, for every definition, the lines it stands for.  Operators
commented `mutant` are broken variants of the definition that follows them; putting
one in its place must break a property.

### Handoff

The abstract specification.  `duty` says how a station stands to an item (nothing, owed, done, openly
dropped), `out` counts the copies it handed on.  An item becomes done only when a copy was handed
on; it cannot go from owed to nothing.  `Redo` says whether what was laid down may come back.
`Outbox` implements it with `duty` read off the status of the row and `out` the messages RabbitMQ took
(`Redo` false: a settled row stays settled); `MailQueue` with `duty` read off where the copies of an
event are and `out` the mails SMTP took (`Redo` true: a redrive, or a second publication, brings an
event back).  The refinement mappings are `Outbox!DutyOf` and `MailQueue!DutyOf`.

### Outbox

`row` is the table, `inst` the mode of each process and the await its poll is at,
`jobs` the calls of `dispatch` (and the `dispatchOne` before them), one record per event
and caller; a job's `pc` is its await.  Every `await` of the code is a step: `Create` (the
transaction of signup or resendVerification) to `NowStart`, `NowExpire`, `NowClaim`; `PollStart`,
`PollExpire`, `PollClaim`, `PollSlice`, `PollDone`; `Dispatch`, `Accept`, `PublishOk`,
`PublishFail`, `MarkPublished`, `Reschedule`, `MarkDead`.  A database call ends in one of three ways
(`Outcome`): done, done with the answer lost, not done; the last two are faults.
`Promise.all` rejecting (`PollSlice`, `Settle`) drops the slices that had not started and
detaches those that had, as in `runPoll`.

The life of a process is `Crash`, `Restart` and the phases of a graceful shutdown.  `main.ts` enables the
shutdown hooks, and Nest runs every `onModuleDestroy` before any `onApplicationShutdown`.  So `Shutdown`
puts the instance into `closing`, where `DatabaseService.onModuleDestroy` ends the pool: statements
that hold a client finish, later ones are refused (`Query`), and new work still comes in.  `PoolEnded` comes when
no statement holds a client (`InStatement`); only then, in `stopping`, does
`OutboxDispatcherService.onApplicationShutdown` refuse new work and wait for the poll and for `inFlight`
(`Drained`), and `ShutdownDone` ends the process.  A dispatch that meets the ended pool is `cut`: its
publication may have gone out, its UPDATE does not, nor the `reschedule` after it, and it settles with its
row in processing (`Reject`).  Such events are put in `doubt`.

Abstractions: the clocks of the database and of the processes are one clock; the payload
of a row is a Boolean (present or nulled); `reschedule`'s reading of the clock and its
UPDATE are one step; jitter is the set `Delays(n)` of the ticks it can reach.  Every await
settles: a publish whose confirm never comes is outside the model.

### MailQueue

`copy` is the messages RabbitMQ has, each at a queue or at an await of the handler that
holds it unacknowledged.  `Publish` is the API's publication; `Deliver` to `RetryAck` the body of
`handleMailSend`; `RetryDue` the TTL of a retry queue; `Disconnect` the loss of a
channel, which requeues what it had not acknowledged.  `RedriveStart` to `RedriveAbort`
is `redriveDlq`: scanning, holding back, discarding, publishing with confirm, the end and
death half way.

Abstractions: queues have no order (the consumer sets no prefetch, so order promises
nothing); the API's own duplicates come in as `MaxHanded`.  Nest acknowledges on the same
channel the retry was published on, so RabbitMQ sees the two in that order.  `FailRequeue` takes the promise
of `sendToQueue` at its word, as the handler does (the `RetryChannel` interface of `mail-events.controller.ts`
declares it, and its `catch` block requeues the original): a broker that refused a retry copy after that promise
resolved would lose the mail, and is outside the model.

### Friendships

`row` is `friendships` by id, `chat` the pair each chat belongs to, `call` the requests under
way.  Statements outside a transaction (`RequestNew`/`RequestAgain` then `Insert`/`Reopen`) are
separate steps; the transactions of `removeFriend` and `getOrCreateDirectChat` are one step
per statement that locks or that reads what is used later.  Row locks last until the
commit; `SELECT ... FOR UPDATE LIMIT 1` without an order locks any one of the matching rows.
`AnswerAsk` is an acceptRequest or rejectRequest of either user for a request of the pair, and `Answer` its one
guarded UPDATE, which may find the row turned round, answered or gone by then.
A request may die at every step (`Abort`) and then rolls back.

### ChatLog

`msg` is the table `messages`: who sent it and `createdAt`, in steps of which `PerMs` make a
millisecond.  `createdAt` is `now()` of PostgreSQL, which is the start of the transaction:
`SendBegin` reads it, `SendLock` waits for the lock of the chat row, `SendCommit` writes.
So messages may be committed against the order of their `createdAt`.  Ids are random, so
any unused id may be next.  `MarkBegin`, `MarkLock`, `MarkCommit` are `markRead`; `Before` is the
order of SQL, `IsMessageAfter` that of JavaScript; `After` is the condition of `getMessages`, whose
bound has been through a `Date`.  `Publish` is what follows the commit, `Abort` a death before
it.

### ChatScreen

`screen` is `_ChatScreenState`: the list (`view`, a set, since the code sorts it), the fetch
under way (`fetch`, `first`, `after`, `answer`), `_catchUpRequested` (`again`), the error of the first load,
`_isSending` and the answer to the own send (`reply`).  `socket` is the connection and the pushes
on their way.  The server side is `ChatLog`'s, the publication joined with the push to the
room of the device (`PublishTo`).  `FetchDone` is the whole success path of `_fetchMessages`,
`_appendMessages`, `_markLatestMessageRead` and the `finally` block included; `FetchFail` the `catch`
path.  `Fault` counts lost connections and failed requests and remembers which messages they
kept from the screen (`dropped`): pushes under way on a lost connection, what a failed fetch would have
brought, the message of a request that dies before its push or whose answer is lost.  `missed` are the
messages published while the socket of the open screen was offline, which takes no fault: they are left to the
catch-up.  `blind` says that a fault struck since the last fetch began.

Abstractions: one device and one peer that only sends; leaving the screen is not modelled
(a new one starts from nothing, which is `Open` with a longer history); a connection and its
`connect` callback are one step, so what is pushed between the two arrives by the catch-up
alone; pushes arrive in any order.  The answer to a fetch is read in one step.

### Presence

`on` is the sockets in the rooms of their owners, on all instances; `tasks` the handlers of the gateway, each
suspended at an await; `wire` the events on their way to a device; `shown` its `_onlineUserIds`.  `Connect`,
`Disconnect` and `Refresh` start the handlers.  `fetchSockets` of the Redis adapter reads no room at one
moment: it sees the sockets of its own process at once and those of every other process when that one answers.
So a read is a step for the own process (`ReadFriend` for one round of the loop in `getOnlineUserIds`, the first half of
`handleDisconnect` in `Disconnect`) and an `Answer` for each other process, both by `Counted`; `Going` is what
`handleDisconnect` makes of the result.  `SendSnapshot` and `Announce` are what follows; `SnapshotFails` and
`AnnouncementFails` the `catch` blocks; `Receive` the app's two listeners.  `Refresh` may come at any time while the
device is connected, also while the snapshot of its connection is being assembled, which is what the app does in
`onConnect`.  `Drop` is what a lost connection does to the app: `kept` is the socket that `_openSocket` replaces without
emptying the set.  `Crash` takes an instance with its sockets and handlers.

History only: `epoch` counts how often a user came and went, and everything that tells a device
about a user carries the epoch at which it was decided, so that `told`, `newest` and `unsaid` can
say how old it is.  The program has no such number; that is why an event that was overtaken
can win there, and `SettledIsRight` has to except it.  `torn` marks what comes from a read that took a
user for offline who was online from its beginning to its end: the user's sockets moved from a process that
had yet to answer to one that had.

Abstractions: who is a friend does not change; the displays in `Watching` are followed and
handlers nobody followed could notice are left out (`Followed`); an emit that Redis delays is an
announcement made late; a read stops at the first process that has a socket of the user, since one is enough;
of several handlers of one kind for one device, at most one more than the first is told apart (`twin`).

### Account and AppSession

`Account` is `auth.service.ts` for one account.  `req` is the requests under way, each at an await;
`user`, `mail` and `row` are the rows of `users`, `email_verification_tokens` and `refresh_tokens`.
`SignupCheck`, `SignupInsert`; `ResendLock` (the FOR UPDATE, the DELETE and the look for a recent token),
`ResendInsert` (the INSERTs and the commit); `VerifyRead`, `VerifyWrite`; `SigninRead`, `RefreshRead`,
`RefreshDelete`, `Issue`.  Time is the environment's: `Cooled`, `LinkExpires`, `RowExpires`, `TokenExpires`.
`Matches` is what `bcrypt.compare` does with a JWT: it sees its first 72 bytes, which are the header
and the start of the user's id, the same for every token of the user.

`AppSession` adds the app: `stored` and `access` are `TokenStorage`, `rf` is `_refreshInFlight`, `call` who has been
refused or waits for the refresh (API calls, the socket, the splash screen), `login` the
sign-in and `signup` the sign-up under way, `tried` the socket's `_refreshAttempted`.  `RefreshStart`, `RefreshAnswered`, `RefreshLost`
and `RefreshDone` are `refreshSession` and what each of those who waited does next.  `OtherSignin` and `OtherRefresh` are
another device of the same user.  `SignupSent` and `SignupAnswered` are the app's own sign-up, of this account or
another one, whose success clears what is stored by then.  `PutAway` is `didChangeAppLifecycleState`: the app goes to
the background and disconnects, and the socket that waited for the refresh minds its outcome no longer
(`_isCurrent`), as it does after a logout (`Disconnected`).  `causes` is history: what may rightly end the stored
session; `quiet` says that the refresh that ended the session had nobody left to tell, for only a socket that was
dropped so had waited for it.

Abstractions: the rows of expired tokens that are deleted free their number; the mails of a
verified user are `over`, since nothing reads them any more; a sign-in elsewhere starts at
`issueTokens`, and a refresh elsewhere is told apart from it only when it finds the row expired;
writes to the secure storage take effect in order.  As in the code, a refresh in flight at logout
stores its tokens again when it succeeds.

### Avatars

`row` is the user's rows of `avatars`, `object` the files in the bucket, `call` the requests under way.
`CreatePut`, `CreateLook`, `CreateInsert` with `CreateViolation`, `CreateError` and `CreateUndo` are `create` and
its `catch`; `SelectFind` and `SelectCommit` are `select`; `RemoveFind`, `RemoveObject`, then `RemovePlain` or
`RemoveDelete` and `RemoveCommit` are `remove`.  `SelectRollback` and `RemoveRollback` are transactions that
PostgreSQL ends, for the unique index or to break a deadlock.  `doubt` remembers the avatars whose
creation or removal ended half way, `raced` that a transaction wrote on a read that no longer held.

Abstractions: an avatar is its number in the order of `createdAt`, and its `objectKey`; DELETE and SELECT
of `remove` are one step, and so are the two UPDATEs of `select`, which may be rolled back whenever
another request of the user is about to write, more often than it is in reality and without effect.

## 3. Runs

Distinct states and times are those of two workers on a small machine.

| Run | Bounds | States | Shows |
|---|---|---|---|
| `outbox` | 1 event, 2 instances, lease 2, backoff 1, lifetime 3, 1 fault | 267 k, 95 s | the outbox implements `Handoff`; lease exclusion, duplicates only after faults, ended pools and ended leases, payload kept while needed, deaths only at expiry, every event settles |
| `outbox_batch` | 2 events, 1 instance, batch 2, one at a time, backoffs 1 and 3, 1 fault | 2.05 M, 85 s | slices of a batch, a rejected dispatch or a shutdown among them |
| `mail_queue` | 1 good and 1 invalid event, 3 messages, 1 retry, 1 fault, 1 redrive | 361 k, 95 s | the queues implement `Handoff`; nothing doubled, quarantine kept, every mail settles |
| `friendships` | 2 users, 3 rows, 2 chats, 3 requests | 26 k, 9 s | one chat per pair, none without friendship, only the receiver consents |
| `friendships_open` | the same | - | counterexample, see 6 |
| `chat_log` | 2 users, 2 messages, 3 requests, 2 steps per ms, 3 instants | 802 k, 40 s | cursors move forward, catch-ups are complete |
| `chat_log_rewind` | the same | - | counterexample, see 6 |
| `chat_screen` | 2 users, 2 messages, 2 requests, 1 fault | 3.30 M, 110 s | a missing message was lost by a fault or published while offline; nothing newer is missing |
| `chat_screen_catch_up` | the same, no fault | - | counterexample, see 6 |
| `presence` | 2 users, 3 devices on 2 instances, 1 display followed; each device connects once, 2 faults, nobody asks; or 2 devices without a fault, both connect twice, or one of them does and 1 snapshot is asked for | 662 k, 45 s | the settled display is right, up to overtaken events, failed announcements and torn reads |
| `session` | 1 account, 2 requests, 2 mails, 2 refresh tokens, 1 API call, socket, splash screen, 1 fault | 2.6 M, 130 s | one mail per cooldown, none to the verified, the session is kept, nobody inside without one |
| `avatars` | 3 avatars, 3 requests, 1 fault | 920 k, 40 s | table and bucket agree, at most one selected, one selected |

Why the bounds are enough for the questions asked.  `outbox`: a lease of two ticks inside a
lifetime of three lets a lease run out under its holder, the row be claimed again, and the
first holder come back, all before the expiry.  A third holder cannot come up within these bounds, for the
event is expired by then; `LeaseSafety` and `HandsOn` are proved for any number of holders.  `outbox_batch`: two events and a concurrency of one make the second a
slice that waits; one fault is what makes the first one reject.  One retry in `mail_queue` is
the first and the last one, and `AtLeastOnce` is proved for any number; the third message is the one a redrive or a retry adds while two exist.
Friendships of a pair never touch another pair, so two users are all; three requests let two
race while a third changes what they read.  Both orders of messages and the completeness
of a catch-up compare two messages at a time; three instants at two steps per millisecond give
every case: one millisecond with the ids against the clock, a millisecond boundary, equal
instants.  Three requests let two markRead of a user race while a third sends.  Two messages suffice for the screen: one missing,
one that hides it; `PerMs` is 1 there, since the finer order is `ChatLog`'s.  Three avatars are
one selected, one removed and one that takes its place; three requests overlap on them.
`presence`: a user goes offline with the last of two devices, which are on two instances, so that one
instance may die and the other must know, and a read may be torn between the two; what is shown of one user on one
device does not depend on other displays.  Everything at once is too much for one run, so `Bound` in `MCPresence`
takes two ways through it.  With faults, each of three devices connects once, and two faults let a failed announcement
and a failed snapshot meet.  Without a fault, and with one device of each user, both connect twice, or one of them does
and a snapshot is asked for: users come, go and come again against snapshots, and the one that is asked for overlaps
that of a connection.  Everything beyond is covered by `SettledShowsTruth` alone.
`session`: two requests are every pair that can race for the rows of one account (a resend with a resend, with a
link, a refresh with a sign-in elsewhere); two tokens are the one stored and the one that replaces it; further
callers of the refresh would do what the call, the socket and the splash screen do.  Three requests, mails or tokens
at once are covered by the theorems alone.

In `mail_queue`, three messages exist at most at a time; when none is
free, an outcome that needs a new one (a retry copy, a second publication) waits.

`CHECK_DEADLOCK FALSE` stands where the bounds end behaviours: ids, rows and messages run out, or
everything is done.  The runs of `MCOutbox` check deadlock: the poll never ends.

Symmetry is used on events, rows, users and requests, never in a
run that checks liveness, and never on the ids of chat messages, whose order matters.

## 4. Fairness

- `Outbox!FairSpec`: weak fairness of the clock, of each instance's poller (an interval timer), of
  the life of a process (a shutdown that has begun goes through its phases, and the deployment restarts what is stopped
  or dead), and of the steps of
  jobs per instance, event and caller (promises settle).  No fairness of `Create`, faults
  or of the beginning of a shutdown.  The run `outbox` checks safety and liveness under it, without symmetry.  With it every committed event ends published or dead: a publish may
  fail for ever, but the expiry is reached and some poll buries the row.
- `MailQueue!FairSpec`: weak fairness of the steps of each message's handler, which covers
  delivery by RabbitMQ, the TTL of retry queues and the settling of the handler's awaits.  No
  fairness of SMTP accepting: it may refuse every time, and the mail then ends in the
  dead-letter queue.

Faults are bounded in both, as they must be: a connection that is lost each time before
the acknowledgement keeps a mail circling for ever.

## 5. Proofs

All are checked by TLAPS for every value of the constants that satisfies the modules' `ASSUME`s: any number
of instances, events, users, devices, requests, connections and messages, and any counts of faults.  Every
invariant and action property of the passing runs, and every refinement, is a theorem.

`OutboxProofs`.  `TypeCorrect`: rows are well formed under every statement (`RowSteps`), so `TypeOK` is
inductive.  `LeaseSafety`: two jobs inside their lease never have one event, unless a job past
its lease rescheduled it (`late`).  `LeaseExclusive` alone is not inductive, since it does not say
what the row holds.  It is strengthened by `LeaseInv`: while an event is held by a job inside its
lease, and is not `late`, its row carries the end of that job's lease, or is settled; so it is not
claimable, and a second holder cannot arise.  `HandsOn`: the
outbox implements `Handoff`.  Initial states map to initial states, and each step, even one that
settles several rows, maps to one `ItemStep` per event.  The invariant `HandInv` says that a row a job
is about to mark published has a copy at RabbitMQ, and a job's event is committed.
`PayloadSafe`: `PayloadKept` is inductive together with the fact that every job carries a valid payload.
`OnlyExpiredDie`: `ExpiryInv` adds that a job about to bury its event found it expired.  That stays so
because the expiry of a row never moves and the clock does not go back, and an invalid payload,
the other reason to bury a row, is in no job's hands (`PayloadSafe`).
`WorkerPresent` and `PublishedOnce` share one invariant, `CleanInv`, since who works on a row decides how
often it is published.  `CleanRow` says of an event that no fault, no ended pool and no ended lease touched (not in
`doubt`): it has at most one worker; a row in processing has one, an absent or pending row has none and no
copy at RabbitMQ; and as long as its worker cannot have told the broker (`MayKnow` is where it may have, a dispatch `cut`
by the ended pool among them) there is no copy.  `Resting` says where workers can be
at all: a stopped or dead instance has none, an instance stops only when every dispatch it began has settled, and what waits in a batch belongs to a poll that still drains it.
Each action is then shown to carry the worker along (`Carry`), to make the first one (claim), or to put the
event in `doubt`.

`MailQueueProofs`.  `TypeCorrect` with the bookkeeping of messages (`CopyOK`: a message has an event
exactly while it exists).  `AtLeastOnce`: `NothingLost` is inductive over `TypeOK` because of
the order of the code's calls: the copy that replaces a message exists before the message
stops counting as carried.  `QueuesKeepPromise`: the queues implement `Handoff`.  `QueueInv` is `NothingLost`
and that a copy belongs to an event that was handed over; `DutyRange` then excludes the duty "lost", and each
action changes the duty of at most one event.  `OnlyDeadInQueue` is inductive over `TypeOK`; `QuarantineIsKept`
is an action property, one case per action that moves a message.  `ExactlyOnce` counts: for an event not in `doubt`, the
copies handed over equal the messages that carry it, the mails sent and the discards together (`Balanced`).
That is inductive over `TypeOK`; the work is in the cardinality of the carriers, which a step changes by one
message at most (`OneMore`, `OneLess`), so that each action leaves the books as they are, books a
message in or out, or swaps one for another (`BooksSame`, `BooksIn`, `BooksOut`, `BooksSwapped`).

`FriendshipsProofs`.  `TypeCorrect`, with the directional unique key.  `OnlyConsentBefriends`: `CallOK` says what each request knows
of the rows it found or locked, and `Apart` that a locked row is locked by one transaction; an accepted
row then only appears by an `acceptRequest` of the user whom the row names as its receiver when the UPDATE writes it
(`Consents`), although the request may have been turned round, or sent anew, since its id was seen.  `ChatNeedsFriends`: `Guarded` strengthens "a chat has an accepted
row" to "an accepted row that no `removeFriend` under its lock is about to delete without the chat".
That is what the code's order, to lock the row first and look for the chat second, buys on both sides.
`SingleChat`: while the pair has one row, whoever creates its chat holds the lock of that row, and found no
chat under it.

`ChatLogProofs`.  `LogTypeCorrect`, which includes that one request at a time is under the lock.
`CursorOnlyForward`: the cursor `markRead` compares with was read under the lock, and nobody else
writes while the lock is held.  The inductive invariant adds `CursorFresh`: the cursor a
request has read is still the stored one until it commits.  `AfterIsComplete`: a `Date` rounds down
(`DateRoundsDown`), so the bound of a catch-up is never later than the message it was made
from, whatever the resolution of the timestamps.

`ChatScreenProofs`.  `ScreenImplementsLog`: the module extends `ChatLog` with the device, and its steps are steps of
`ChatLog` or leave the log alone, so the theorems of `ChatLogProofs` hold under the screen.  `ScreenTypes` is the type
invariant.  `ShowsEveryMessage` and `CatchesUpOnNewer` are proved from `ScreenInv`: one send at a time, what an
answer that is under way was asked for and still holds, and that a connected screen whose last fetch
succeeded misses nothing newer than its newest message (`CaughtUpOn`).  Each step is reduced to
`KeepsReach`: what a message needed to reach the screen before, it still has, or it is excused by a fault of that
step, or it was just published while the socket was offline (`missed`).  That every non-empty part of the list has a newest message (`Tops`) is carried along as an invariant, since it
needs an induction over the messages otherwise.

`PresenceProofs`.  `TypeCorrect`, then `SettledShowsTruth`.  Presence is told by events that cross, so "what is shown
is true" is far from inductive.  `PresenceInv` compares by epochs, the number of times a user came or went:
whatever is said of a user, in a snapshot, an event, a handler or on a screen, was true at the epoch it carries
(`TasksOK`, `EventsOK`, `ShownOK`), so a claim that carries the present epoch is true now.  `Right` is that statement; it
allows one claim to be false, that of offline out of a torn read.  `Cover` says of each friend of a device that
the present epoch has been told to the device, could not be announced, is on its way or will be told by a
handler (`Said`); or that the friend has neither come nor gone since the device connected, and the snapshot of that
connection, which will carry the present epoch, is still to come or has failed (`Awaited`).  Once nothing is under way
only the first two and the failed snapshot are left.  What the sum of the
answers of a read is worth at each of them is `Counted`'s lemmas.  Steps that leave the sockets alone are settled by
one lemma (`Steady`); for those that make a user come or go, `EpochMoves` and `StillRight`
carry older claims over the change.

`AvatarsProofs`.  `AvatarsTypeCorrect` (with the unique index), `ListedHasFile` and `FileHasRow`: neither of
the last two is inductive alone.  `CallOK` adds what each request knows of its avatar at each await: before
the insert nobody else knows it and its file is there, once its file is removed no creation brings it
back, and a removal never selects the avatar it deletes.  `KeepsSelection`: every write that could leave the user without a selected
avatar selects one in the same transaction, or acts on a read that no longer holds and is then `raced`.

`AppSessionProofs`.  `TypeCorrect`: besides types, that the server keeps an answer for exactly the requests
the app waits for, so that every caller shares the one refresh.  `OneMail` and `VerifiedGetsNoMail` rest on
`MailInv`: at most one resend is past its lock (`HolderOK`), and while it is, the user is unverified
and no mail is recent; neither holds without the other, since the lock is what keeps a
second resend and the UPDATE of `verifyEmail` out.  `InsideWithSession`: `HomeHasSession` alone is not
inductive.  `HomeInv` adds what an answer that is waited for can carry (`Answers`), that a sign-in is only
awaited outside (`Outside`), and a sign-up too, or is on record as overlapping the session (`SignsUp`), that the splash screen waits where it is (`SplashWaits`), that a
refresh that succeeded leaves a session (`Refreshed`), and that a refresh under way while the
user is inside has somebody who will learn how it ends, or the socket of an app put away (`Watched`).  `KeepsSession` (an action property), which allows a logout and a sign-up outside the app, rests on `EndInv`: a refresh that is
waited for was sent with the stored token, and is denied, fails or finds the row gone only after something on
record as a cause (`Excused`); and the server keeps the row, and the token valid, until then.

Only model-checked: liveness (`EveryEventSettles`, `EveryMailSettles`).  Leads-to under weak fairness needs
`ENABLED` of the fair actions, and a bound on the faults that are left as a measure; both are beyond the
prover, so the runs `outbox` and `mail_queue` are the evidence.  The runs that expect a violation
state what does not hold, and have no theorem.

## 6. What the runs found

- **A request that exists is not refused** (`friendships_open`).  `sendRequest` refuses a request when
  the pair has one in either direction, but looks and writes in two statements.  The unique
  key is directional, so two users who ask each other at once get two rows.  And the
  UPDATE that reuses a rejected row asks for its id alone: of two requests that both read it as
  rejected, the later one turns a friendship that was accepted meanwhile back to pending.
  `OneChatPerPair` and `ChatOnlyOfFriends` have to exclude such pairs.
- **Read becomes unread** (`chat_log_rewind`).  `isMessageAfter` compares milliseconds, then ids; the
  unread count compares microseconds.  Of two messages of one millisecond, marking the one with
  the larger id may move the cursor back.
- **A catch-up that does not** (`chat_screen_catch_up`).  The screen asks for what follows its newest
  message.  A message missing below it is never asked for: it was committed later with an
  earlier `createdAt`, or the newest is an own send or a live message that came while the other was
  missed.  What does hold is `NothingNewerMissing`.

The `late` jobs of the outbox are real too: `reschedule` asks for status `processing`, not for the
lease being its own, so a job that outlived its lease can put back to pending a row that
another works on.  No text of the repository promises otherwise; `LeaseExclusive` states what holds.  So is `raced` of the avatars: an avatar selected while
its removal is under way leaves the user without a selected one, since `remove` goes by what it read
before its transaction.  And `SettledIsRight` excepts three things that do happen: a presence event decided
earlier that arrives later wins; an announcement that fails is not made again; and a friend whose connection moves
from one instance to another while a read collects their answers is shown offline.  All last until the
friend's next change or until the app asks again.

The graceful shutdown of the API ends the pool of the database before it waits for the dispatches under way.  A dispatch
whose mail RabbitMQ accepts in between cannot write `published`, nor put the row back: the row stays `processing` until
its lease runs out, and the mail is published once more.  No text of the repository promises otherwise, and
at-least-once holds (`OutboxHandsOn`), but it takes no fault; `ProcessingHasWorker` and `NoSpuriousDuplicate` therefore
except the events whose dispatch the ended pool refused.

In the app, two cases are excepted by `HomeHasSession`.  An app put away while only its socket waits for a
refresh drops that wait; if the refresh then ends the session, nobody sends the user out, and the app stays inside
until the next call is refused.  And a refresh or sign-up that was under way when a session was
stored may clear that session.

## 7. Not modelled, and the plan

Not modelled, since they change no state that the program reads again: the reading queries (search of
users, lists of friends, requests and chats, summaries), routing, forms and layout, the forwarding of
`typing.changed`, `message.read` and `friendship.changed`, the contents of mails and messages, password
hashing.  Not modelled, since they are external: SMTP, the inside of MinIO, Redis and RabbitMQ beyond
what the code asks of them.  Not covered although real: a publish whose confirm never comes
(every await settles in `Outbox`), and the overlapping reloads of `chats_screen.dart`, whose
last answer wins whatever it was asked for.

Left to do, in this order:

1. `MailPipeline`: `Outbox` and `MailQueue` over one broker, as two stations of `Handoff` in a row.
2. `SyncLoop`: the coalesced refresh of `friend_requests_controller.dart` against the overlapping
   reloads of `chats_screen.dart`; read receipts in `ChatScreen`.
3. Liveness of `Presence`: under fairness of the handlers every device settles.
