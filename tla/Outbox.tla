-------------------------------- MODULE Outbox --------------------------------
(****************************************************************************)
(* The transactional outbox of the API: signup and resend commit a mail     *)
(* event as a row of outbox_events, and every API instance hands the rows   *)
(* to RabbitMQ, at once through dispatchNow and again from its poller       *)
(* (auth/outbox-dispatcher.service.ts).  Rows are claimed under a lease,    *)
(* several instances work on one table, and each await is a step of its     *)
(* own.                                                                     *)
(*                                                                          *)
(* A job is one claimed (or about to be claimed) event on its way through   *)
(* dispatch(); its pc is the await it is suspended at:                      *)
(*   created    the row is committed, dispatchNow has not been called yet   *)
(*   expire     in expireEvents          claim       in claimEvents         *)
(*   leased     claimed by dispatchNow   queued      claimed by the poller, *)
(*                                       its slice has not started          *)
(*   publishing in publish()             accepted    RabbitMQ has the       *)
(*                                       message, the confirm is under way  *)
(*   sent       confirmed, marking the row           failed  to reschedule  *)
(*   killing    in markDead      cut        its statement was refused by    *)
(*                                       the pool that a shutdown has ended *)
(* Clocks of the database and of the instances are one clock, now.          *)
(****************************************************************************)
EXTENDS Integers, FiniteSets, Sequences

CONSTANTS
    Event,        \* outbox rows that may be committed
    Instance,     \* API processes that share the database
    BatchSize,    \* BATCH_SIZE: rows one poll claims
    Concurrency,  \* CONCURRENCY: dispatches one poll runs at a time
    Lease,        \* LEASE_MS, in ticks
    Backoff,      \* BACKOFF_MS, in ticks: delay before the n-th retry
    Lifetime,     \* TOKEN_LIFETIME_MS, in ticks: createdAt to expiresAt
    MaxTime,      \* bound: the last tick of the clock
    MaxFaults     \* bound: crashes, shutdowns and failed database calls

ASSUME OutboxAssumption ==
    /\ BatchSize \in Nat \ {0}
    /\ Concurrency \in Nat \ {0}
    /\ Lease \in Nat \ {0}
    /\ Lifetime \in Nat \ {0}
    /\ MaxTime \in Nat
    /\ MaxFaults \in Nat
    /\ Backoff \in Seq(Nat \ {0}) /\ Backoff # <<>>

VARIABLES
    now,     \* the clock
    row,     \* outbox_events, one record per event
    jobs,    \* the dispatches under way in the instances
    inst,    \* each instance: its mode and the state of its poller
    broker,  \* copies of the event that RabbitMQ accepted
    doubt,   \* history: events touched by a fault, by the ended pool of a
             \* shutdown, or whose lease ran out
    late,    \* history: events rescheduled by a job past its own lease
    faults   \* faults injected so far

vars == <<now, row, jobs, inst, broker, doubt, late, faults>>

Status == {"absent", "pending", "processing", "published", "dead"}
Live == {"pending", "processing"}
Row == [status: Status, payload: BOOLEAN, attempts: Nat,
        availableAt: Nat, lockedUntil: Nat, expiresAt: Nat]
Kind == {"now", "poll", "detached"}
Unclaimed == {"created", "expire", "claim"}
Pc == Unclaimed \cup {"leased", "queued", "publishing", "accepted", "sent",
                      "failed", "killing", "cut"}
Job == [inst: Instance, event: Event, kind: Kind, pc: Pc,
        valid: BOOLEAN, attempts: Nat, until: Nat]
Process == [mode: {"up", "closing", "stopping", "stopped", "down"},
            poll: {"idle", "expire", "claim", "drain"}]

\* How a database call ends: done; done, but the answer is lost; not done.
Outcome == {"ok", "lost", "refused"}
Applied(o) == o # "refused"
Fault(o) == faults' = IF o = "ok" THEN faults ELSE faults + 1
MayFault(o) == o = "ok" \/ faults < MaxFaults

------------------------------------------------------------------------------
(* Rows and what the SQL statements make of them *)

Absent == [status |-> "absent", payload |-> FALSE, attempts |-> 0,
           availableAt |-> 0, lockedUntil |-> 0, expiresAt |-> 0]

NewRow == [status |-> "pending", payload |-> TRUE, attempts |-> 0,
           availableAt |-> now, lockedUntil |-> 0, expiresAt |-> now + Lifetime]

ClaimableWhileLeased(r) ==  \* mutant: the lease is not looked at
    /\ r.status \in Live /\ r.availableAt <= now
    /\ r.expiresAt > now

Claimable(r) ==
    /\ \/ r.status = "pending" /\ r.availableAt <= now
       \/ r.status = "processing" /\ r.lockedUntil <= now
    /\ r.expiresAt > now

Leased(r) == [r EXCEPT !.status = "processing", !.lockedUntil = now + Lease]

ExpirableIfPending(r) == r.status = "pending" /\ r.expiresAt <= now  \* mutant

ExpirableEarly(r) == r.status \in Live /\ r.expiresAt <= now + 1  \* mutant

Expirable(r) == r.status \in Live /\ r.expiresAt <= now

Dead(r) == [r EXCEPT !.status = "dead", !.payload = FALSE, !.lockedUntil = 0]

PublishedKeepsLock(r) ==  \* mutant: the lock is left on the row
    IF r.status = "processing"
    THEN [r EXCEPT !.status = "published", !.payload = FALSE] ELSE r

PublishedKeepsPayload(r) ==  \* mutant: the payload is left in the row
    IF r.status = "processing"
    THEN [r EXCEPT !.status = "published", !.lockedUntil = 0] ELSE r

Published(r) ==
    IF r.status = "processing"
    THEN [r EXCEPT !.status = "published", !.payload = FALSE, !.lockedUntil = 0]
    ELSE r

\* outboxBackoffMs: the base delay of the attempt, times 0.8 to 1.2.
Delays(n) ==
    LET base == Backoff[IF n <= Len(Backoff) THEN n ELSE Len(Backoff)]
    IN  {d \in 1 .. 2 * base : 4 * base <= 5 * d /\ 5 * d <= 6 * base}

\* reschedule: the attempts and the payload are those the job claimed.
Rescheduled(r, j, d) ==
    LET expired == now + d >= r.expiresAt
    IN  IF r.status = "processing"
        THEN [r EXCEPT !.status = IF expired THEN "dead" ELSE "pending",
                       !.payload = ~expired /\ j.valid,
                       !.attempts = j.attempts + 1,
                       !.availableAt = now + d,
                       !.lockedUntil = 0]
        ELSE r

------------------------------------------------------------------------------
(* Jobs and the promises that wait for them *)

\* track(): the job is in inFlight.
Tracked(j) == j.pc \notin {"created", "queued"}

PollJobs(i) == {j \in jobs : j.inst = i /\ j.kind = "poll"}

Move(j, pc) == jobs' = (jobs \ {j}) \cup {[j EXCEPT !.pc = pc]}

ClaimedJob(i, e, kind, pc) ==
    [inst |-> i, event |-> e, kind |-> kind, pc |-> pc,
     valid |-> row[e].payload, attempts |-> row[e].attempts,
     until |-> now + Lease]

\* A dispatch issues its next statement: DatabaseService.onModuleDestroy has
\* ended the pool of an instance that is shutting down, and an ended pool
\* refuses every statement it is handed.
Query(j, pc) == IF inst[j.inst].mode = "up" THEN pc ELSE "cut"

\* The synchronous head of dispatch(): an event that is invalid or past its
\* expiry is marked dead, any other is published.
Begin(j) ==
    [j EXCEPT !.pc = IF ~j.valid \/ row[j.event].expiresAt <= now
                     THEN Query(j, "killing") ELSE "publishing"]

\* What Promise.all leaves of a poll one of whose dispatches rejects: the slices
\* not started are dropped and the running dispatches go on unobserved.
Abandoned(i) == {k \in PollJobs(i) : k.pc = "queued"}
Detached(i) == {[k EXCEPT !.kind = "detached"] : k \in PollJobs(i) \ Abandoned(i)}

\* The promise of job j settles: resolved if o is "ok", rejected otherwise.
Settle(j, o) ==
    IF o = "ok" \/ j.kind # "poll"
    THEN /\ jobs' = jobs \ {j}
         /\ doubt' = IF o = "ok" THEN doubt ELSE doubt \cup {j.event}
         /\ UNCHANGED inst
    ELSE /\ jobs' = (jobs \ PollJobs(j.inst))
                        \cup {k \in Detached(j.inst) : k.event # j.event}
         /\ doubt' = doubt \cup {j.event} \cup {k.event : k \in Abandoned(j.inst)}
         /\ inst' = [inst EXCEPT ![j.inst].poll = "idle"]

------------------------------------------------------------------------------
Init ==
    /\ now = 0
    /\ row = [e \in Event |-> Absent]
    /\ jobs = {}
    /\ inst = [i \in Instance |-> [mode |-> "up", poll |-> "idle"]]
    /\ broker = [e \in Event |-> 0]
    /\ doubt = {} /\ late = {} /\ faults = 0

\* signup and resendVerification commit the user, the token and the event in
\* one transaction; the request then goes on to dispatchNow.  The guard on the
\* clock keeps every expiry inside the bound.  A transaction that holds its
\* client when the pool is ended still commits.
Create(i, e) ==
    /\ inst[i].mode \in {"up", "closing"}
    /\ row[e].status = "absent"
    /\ now + Lifetime <= MaxTime
    /\ row' = [row EXCEPT ![e] = NewRow]
    /\ jobs' = jobs \cup
         {[inst |-> i, event |-> e, kind |-> "now", pc |-> "created",
           valid |-> TRUE, attempts |-> 0, until |-> 0]}
    /\ UNCHANGED <<now, inst, broker, doubt, late, faults>>

\* dispatchNow: refused once the instance is stopping, and before that, from
\* the end of the pool on, by its first statement.
NowStart(j) ==
    /\ j.pc = "created"
    /\ IF inst[j.inst].mode = "up" THEN Move(j, "expire") ELSE jobs' = jobs \ {j}
    /\ UNCHANGED <<now, row, inst, broker, doubt, late, faults>>

\* expireEvents over the events of S.
Expire(S, o) ==
    row' = [e \in Event |-> IF e \in S /\ Applied(o) /\ Expirable(row[e])
                            THEN Dead(row[e]) ELSE row[e]]

NowExpire(j, o) ==
    /\ j.pc = "expire" /\ MayFault(o) /\ Fault(o)
    /\ Expire({j.event}, o)
    /\ IF o = "ok" /\ inst[j.inst].mode = "up"
       THEN Move(j, "claim") ELSE jobs' = jobs \ {j}
    /\ UNCHANGED <<now, inst, broker, doubt, late>>

\* The UPDATE of claimEvents on the rows of S.
Claim(S, o) ==
    row' = [e \in Event |-> IF e \in S /\ Applied(o) THEN Leased(row[e]) ELSE row[e]]

\* The claims that take over a lease that ran out, and the claims whose answer
\* was lost, leave the event in doubt.
Doubted(S, o) ==
    {e \in S : \/ o = "lost"
               \/ o = "ok" /\ row[e].status = "processing" /\ row[e].lockedUntil <= now}

NowClaim(j, o) ==
    /\ j.pc = "claim" /\ MayFault(o) /\ Fault(o)
    /\ LET S == {e \in {j.event} : Claimable(row[e])}
       IN  /\ Claim(S, o)
           /\ doubt' = doubt \cup Doubted(S, o)
           /\ jobs' = (jobs \ {j}) \cup
                IF o = "ok" THEN {ClaimedJob(j.inst, e, "now", "leased") : e \in S}
                            ELSE {}
    /\ UNCHANGED <<now, inst, broker, late>>

\* startPoll: the timer fires; nothing happens while a poll runs.
PollStart(i) ==
    /\ inst[i].mode = "up" /\ inst[i].poll = "idle"
    /\ inst' = [inst EXCEPT ![i].poll = "expire"]
    /\ UNCHANGED <<now, row, jobs, broker, doubt, late, faults>>

PollExpire(i, o) ==
    /\ inst[i].poll = "expire" /\ MayFault(o) /\ Fault(o)
    /\ Expire(Event, o)
    /\ inst' = [inst EXCEPT ![i].poll =
                     IF o = "ok" /\ inst[i].mode = "up" THEN "claim" ELSE "idle"]
    /\ UNCHANGED <<now, jobs, broker, doubt, late>>

\* ORDER BY "createdAt" LIMIT BATCH_SIZE (createdAt is expiresAt - Lifetime).
OldestClaimable(S) ==
    LET all == {e \in Event : Claimable(row[e])}
    IN  /\ S \subseteq all
        /\ Cardinality(S) = IF Cardinality(all) < BatchSize
                            THEN Cardinality(all) ELSE BatchSize
        /\ \A e \in S, f \in all \ S : row[e].expiresAt <= row[f].expiresAt

PollClaim(i, S, o) ==
    /\ inst[i].poll = "claim" /\ MayFault(o) /\ Fault(o)
    /\ OldestClaimable(S)
    /\ Claim(S, o)
    /\ doubt' = doubt \cup Doubted(S, o)
    /\ jobs' = jobs \cup
         IF o = "ok" THEN {ClaimedJob(i, e, "poll", "queued") : e \in S} ELSE {}
    /\ inst' = [inst EXCEPT ![i].poll = IF o = "ok" THEN "drain" ELSE "idle"]
    /\ UNCHANGED <<now, broker, late>>

\* The loop of runPoll: the next slice starts when the one before has settled.
PollSlice(i, S) ==
    /\ inst[i].poll = "drain"
    /\ PollJobs(i) # {}
    /\ \A j \in PollJobs(i) : j.pc = "queued"
    /\ S \subseteq PollJobs(i)
    /\ Cardinality(S) = IF Cardinality(PollJobs(i)) < Concurrency
                        THEN Cardinality(PollJobs(i)) ELSE Concurrency
    /\ jobs' = (jobs \ S) \cup {Begin(j) : j \in S}
    /\ UNCHANGED <<now, row, inst, broker, doubt, late, faults>>

\* The loop is over: every event of the batch has settled.
PollDone(i) ==
    /\ inst[i].poll = "drain" /\ PollJobs(i) = {}
    /\ inst' = [inst EXCEPT ![i].poll = "idle"]
    /\ UNCHANGED <<now, row, jobs, broker, doubt, late, faults>>

\* dispatchOne goes on with the event it claimed.
Dispatch(j) ==
    /\ j.pc = "leased"
    /\ jobs' = (jobs \ {j}) \cup {Begin(j)}
    /\ UNCHANGED <<now, row, inst, broker, doubt, late, faults>>

\* markDead: by id, whatever the status of the row is by now.
MarkDead(j, o) ==
    /\ j.pc = "killing" /\ MayFault(o) /\ Fault(o)
    /\ row' = [row EXCEPT ![j.event] = IF Applied(o) THEN Dead(@) ELSE @]
    /\ Settle(j, o)
    /\ UNCHANGED <<now, broker, late>>

\* RabbitMQ takes the message; the publisher does not know it yet.
Accept(j) ==
    /\ j.pc = "publishing"
    /\ broker' = [broker EXCEPT ![j.event] = @ + 1]
    /\ Move(j, "accepted")
    /\ UNCHANGED <<now, row, inst, doubt, late, faults>>

PublishOkUnconfirmed(j) ==  \* mutant: the confirm is not awaited
    /\ j.pc \in {"publishing", "accepted"}
    /\ Move(j, Query(j, "sent"))
    /\ UNCHANGED <<now, row, inst, broker, doubt, late, faults>>

PublishOk(j) ==
    /\ j.pc = "accepted"
    /\ Move(j, Query(j, "sent"))
    /\ UNCHANGED <<now, row, inst, broker, doubt, late, faults>>

\* publish() rejects; if the message was accepted all the same, the event is
\* in doubt.
PublishFail(j) ==
    /\ j.pc \in {"publishing", "accepted"}
    /\ Move(j, Query(j, "failed"))
    /\ doubt' = IF j.pc = "accepted" THEN doubt \cup {j.event} ELSE doubt
    /\ UNCHANGED <<now, row, inst, broker, late, faults>>

\* The UPDATE to published is inside the try: its failure reschedules too.
MarkPublished(j, o) ==
    /\ j.pc = "sent" /\ MayFault(o) /\ Fault(o)
    /\ row' = [row EXCEPT ![j.event] = IF Applied(o) THEN Published(@) ELSE @]
    /\ IF o = "ok"
       THEN jobs' = jobs \ {j} /\ UNCHANGED doubt
       ELSE Move(j, Query(j, "failed")) /\ doubt' = doubt \cup {j.event}
    /\ UNCHANGED <<now, inst, broker, late>>

Reschedule(j, d, o) ==
    /\ j.pc = "failed" /\ MayFault(o) /\ Fault(o)
    /\ row' = [row EXCEPT ![j.event] =
                   IF Applied(o) THEN Rescheduled(@, j, d) ELSE @]
    /\ late' = IF j.until <= now THEN late \cup {j.event} ELSE late
    /\ Settle(j, o)
    /\ UNCHANGED <<now, broker>>

\* The ended pool refuses the statement of a dispatch: the UPDATE to published
\* and the reschedule after it, or markDead.  The promise rejects, and the row
\* stays in processing, its mail published or not.
Reject(j) ==
    /\ j.pc = "cut"
    /\ Settle(j, "refused")
    /\ UNCHANGED <<now, row, broker, late, faults>>

\* The process dies: its jobs vanish wherever they are.
Crash(i) ==
    /\ inst[i].mode \in {"up", "closing", "stopping"} /\ faults < MaxFaults
    /\ faults' = faults + 1
    /\ inst' = [inst EXCEPT ![i] = [mode |-> "down", poll |-> "idle"]]
    /\ jobs' = {j \in jobs : j.inst # i}
    /\ doubt' = doubt \cup
         {j.event : j \in {k \in jobs : k.inst = i /\ k.pc \notin Unclaimed}}
    /\ UNCHANGED <<now, row, broker, late>>

Restart(i) ==
    /\ inst[i].mode \in {"down", "stopped"}
    /\ inst' = [inst EXCEPT ![i] = [mode |-> "up", poll |-> "idle"]]
    /\ jobs' = {j \in jobs : j.inst # i}
    /\ UNCHANGED <<now, row, broker, doubt, late, faults>>

\* A signal shuts the instance down.  Every onModuleDestroy comes first, among
\* them the one that ends the pool: statements that hold a client finish, later
\* ones are refused.
Shutdown(i) ==
    /\ inst[i].mode = "up" /\ faults < MaxFaults
    /\ faults' = faults + 1
    /\ inst' = [inst EXCEPT ![i].mode = "closing"]
    /\ UNCHANGED <<now, row, jobs, broker, doubt, late>>

\* The pool has ended once no statement holds a client; onApplicationShutdown
\* follows: no new work, then wait for the poll and for inFlight.
InStatement == {"expire", "claim", "sent", "failed", "killing"}
PoolEnded(i) ==
    /\ inst[i].mode = "closing" /\ inst[i].poll \notin InStatement
    /\ \A j \in jobs : j.inst = i => j.pc \notin InStatement
    /\ inst' = [inst EXCEPT ![i].mode = "stopping"]
    /\ UNCHANGED <<now, row, jobs, broker, doubt, late, faults>>

DrainedPollOnly(i) == inst[i].poll = "idle"  \* mutant: inFlight is not awaited

Drained(i) ==
    /\ inst[i].poll = "idle"
    /\ \A j \in jobs : j.inst = i => ~Tracked(j)

ShutdownDone(i) ==
    /\ inst[i].mode = "stopping" /\ Drained(i)
    /\ inst' = [inst EXCEPT ![i].mode = "stopped"]
    /\ UNCHANGED <<now, row, jobs, broker, doubt, late, faults>>

Tick ==
    /\ now < MaxTime
    /\ now' = now + 1
    /\ UNCHANGED <<row, jobs, inst, broker, doubt, late, faults>>

Poller(i) ==
    \/ PollStart(i)
    \/ \E o \in Outcome : PollExpire(i, o)
    \/ \E S \in SUBSET Event, o \in Outcome : PollClaim(i, S, o)
    \/ \E S \in SUBSET jobs : PollSlice(i, S)
    \/ PollDone(i)

Step(j) ==
    \/ NowStart(j)
    \/ \E o \in Outcome : NowExpire(j, o)
    \/ \E o \in Outcome : NowClaim(j, o)
    \/ Dispatch(j)
    \/ \E o \in Outcome : MarkDead(j, o)
    \/ Accept(j)
    \/ PublishOk(j)
    \/ PublishFail(j)
    \/ \E o \in Outcome : MarkPublished(j, o)
    \/ \E d \in Delays(j.attempts + 1), o \in Outcome : Reschedule(j, d, o)
    \/ Reject(j)

Lifecycle(i) ==
    Crash(i) \/ Restart(i) \/ Shutdown(i) \/ PoolEnded(i) \/ ShutdownDone(i)

Next ==
    \/ \E i \in Instance, e \in Event : Create(i, e)
    \/ \E i \in Instance : Poller(i) \/ Lifecycle(i)
    \/ \E j \in jobs : Step(j)
    \/ Tick

Spec == Init /\ [][Next]_vars

\* Time passes, timers fire, every await settles one way or the other, a
\* shutdown goes through its phases, and an instance that is down or stopped is
\* started again.
Fairness ==
    /\ WF_vars(Tick)
    /\ \A i \in Instance :
         WF_vars(Poller(i)) /\ WF_vars(Restart(i) \/ PoolEnded(i) \/ ShutdownDone(i))
    /\ \A i \in Instance, e \in Event, k \in Kind :
         WF_vars(\E j \in jobs : j.inst = i /\ j.event = e /\ j.kind = k /\ Step(j))

FairSpec == Spec /\ Fairness

------------------------------------------------------------------------------
(* Properties *)

\* Every variable has its type; a row carries a lock exactly while it is being
\* processed, so a row left in processing always has an end of lease to wait for.
GoodRow(r) == r \in Row /\ (r.status = "processing" <=> r.lockedUntil > 0)
RowsOK == row \in [Event -> Row] /\ \A e \in Event : GoodRow(row[e])
TypeOK ==
    /\ now \in Nat
    /\ RowsOK
    /\ jobs \subseteq Job
    /\ inst \in [Instance -> Process]
    /\ broker \in [Event -> Nat]
    /\ doubt \subseteq Event /\ late \subseteq Event
    /\ faults \in Nat

\* The payload is kept exactly as long as the event may still have to be
\* published, whichever of several writers settles the row: no live row has lost
\* its mail, no settled row keeps the verification link.
PayloadKept == \A e \in Event : row[e].payload <=> row[e].status \in Live

\* Two jobs that both are inside their own lease never work on one event, in
\* one instance or in two, unless a job that had outlived its lease rescheduled
\* the event (the UPDATE of reschedule asks only for status processing, not for
\* the lease being its own).
Holds(j) == j.pc \notin Unclaimed /\ now < j.until
LeaseExclusive ==
    \A j, k \in jobs :
        (j.event = k.event /\ j.event \notin late /\ Holds(j) /\ Holds(k)) => j = k

\* RabbitMQ gets an event twice only if something went wrong with that event: a
\* crash, a failed or unanswered call, a lease that ran out under its holder, or
\* a shutdown that ended the pool under its dispatch (the mail is out, the row
\* stays in processing and is published again after the lease).
NoSpuriousDuplicate ==
    \A e \in Event : e \notin doubt => broker[e] <= 1

\* An event in processing is really being processed: some job has it, also
\* across the slices of a poll and across the takeovers of several instances,
\* until a fault hits the event itself or the ended pool of a shutdown refuses
\* its dispatch, which settles nothing.  A dispatch that a shutdown finds under
\* way is waited for, never left behind.  Otherwise the mail would wait for the
\* end of a lease that nobody holds.
ProcessingHasWorker ==
    \A e \in Event :
        (row[e].status = "processing" /\ e \notin doubt) =>
            \E j \in jobs : j.event = e /\ j.pc \notin Unclaimed

\* What the dispatcher promises of the table as a whole: the mail of a committed
\* event is owed until its row is settled, the row is settled as published only
\* after RabbitMQ took a copy, and a settled row is never taken up again, by
\* whatever instance, crash, retry or late writer.
DutyOf(r) ==
    CASE r.status = "absent"    -> "none"
      [] r.status \in Live      -> "owed"
      [] r.status = "published" -> "done"
      [] r.status = "dead"      -> "dropped"
Handed == INSTANCE Handoff WITH
    Item <- Event, Redo <- FALSE, duty <- [e \in Event |-> DutyOf(row[e])], out <- broker
OutboxHandsOn == Handed!Spec

\* An event is given up only when it has expired or when its next retry would
\* come after its expiry, never for the number of failures.
GivenUpInTime(r, s) ==
    (r.status \in Live /\ s.status = "dead") =>
        \/ r.expiresAt <= now
        \/ s.attempts > 0 /\ \E d \in Delays(s.attempts) : now + d >= r.expiresAt
DiesOnlyAtExpiry == [][\A e \in Event : GivenUpInTime(row[e], row'[e])]_vars

\* Every committed event is settled in the end, published or dead, through
\* crashes, restarts and failed calls: none stays in the table for ever.
EveryEventSettles ==
    \A e \in Event :
        row[e].status # "absent" ~> row[e].status \in {"published", "dead"}
==============================================================================
