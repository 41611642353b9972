----------------------------- MODULE OutboxProofs -----------------------------
(****************************************************************************)
(* Proofs about Outbox, for every number of events and instances, every     *)
(* batch size, lease, backoff and bound on the faults.                      *)
(****************************************************************************)
EXTENDS Outbox, TLAPS

USE OutboxAssumption

------------------------------------------------------------------------------
(* Lemmas about the row and job operators *)

\* The delays of outboxBackoffMs are positive numbers of ticks.
LEMMA DelaysAreNat ==
    ASSUME NEW n \in Nat, n > 0, NEW d \in Delays(n)
    PROVE  d \in Nat /\ d > 0
<1> DEFINE base == Backoff[IF n <= Len(Backoff) THEN n ELSE Len(Backoff)]
<1>1. Len(Backoff) \in Nat /\ Len(Backoff) > 0
  OBVIOUS
<1>2. base \in Nat \ {0}
  BY <1>1
<1>3. d \in 1 .. 2 * base
  BY DEF Delays
<1> QED BY <1>2, <1>3

\* Every statement on a row leaves a good row.
LEMMA RowSteps ==
    ASSUME NEW r, GoodRow(r), now \in Nat
    PROVE  /\ GoodRow(Dead(r)) /\ GoodRow(Published(r))
           /\ GoodRow(Leased(r)) /\ GoodRow(Absent) /\ GoodRow(NewRow)
<1> USE DEF Row, Status
<1>a. r \in Row /\ (r.status = "processing" <=> r.lockedUntil > 0)
  BY DEF GoodRow
<1>1. GoodRow(Dead(r))
  <2>1. Dead(r) \in Row
    BY <1>a DEF Dead
  <2>2. Dead(r).status = "dead" /\ Dead(r).lockedUntil = 0
    BY <1>a DEF Dead
  <2> QED BY <2>1, <2>2 DEF GoodRow
<1>2. GoodRow(Published(r))
  <2>1. CASE r.status = "processing"
    <3>1. Published(r) \in Row
      BY <1>a, <2>1 DEF Published
    <3>2. Published(r).status = "published" /\ Published(r).lockedUntil = 0
      BY <1>a, <2>1 DEF Published
    <3> QED BY <3>1, <3>2 DEF GoodRow
  <2>2. CASE r.status # "processing"
    BY <1>a, <2>2 DEF Published, GoodRow
  <2> QED BY <2>1, <2>2
<1>3. now + Lease \in Nat /\ now + Lease > 0
  OBVIOUS
<1>4. GoodRow(Leased(r))
  <2>1. Leased(r) \in Row
    BY <1>a, <1>3 DEF Leased
  <2>2. Leased(r).status = "processing" /\ Leased(r).lockedUntil = now + Lease
    BY <1>a DEF Leased
  <2> QED BY <2>1, <2>2, <1>3 DEF GoodRow
<1>5. GoodRow(Absent)
  BY DEF Absent, GoodRow
<1>6. GoodRow(NewRow)
  BY DEF NewRow, GoodRow
<1> QED BY <1>1, <1>2, <1>4, <1>5, <1>6

LEMMA RescheduledRow ==
    ASSUME NEW r, GoodRow(r), now \in Nat, NEW j \in Job,
           NEW d \in Delays(j.attempts + 1)
    PROVE  GoodRow(Rescheduled(r, j, d))
<1>1. j.attempts \in Nat /\ j.valid \in BOOLEAN
  BY DEF Job
<1>2. d \in Nat
  BY <1>1, DelaysAreNat
<1>3. r \in Row /\ (r.status = "processing" <=> r.lockedUntil > 0)
  BY DEF GoodRow
<1>4. CASE r.status # "processing"
  BY <1>4, <1>3 DEF Rescheduled, GoodRow
<1>5. CASE r.status = "processing"
  <2> DEFINE expired == now + d >= r.expiresAt
             s == [r EXCEPT !.status = IF expired THEN "dead" ELSE "pending",
                            !.payload = ~expired /\ j.valid,
                            !.attempts = j.attempts + 1,
                            !.availableAt = now + d,
                            !.lockedUntil = 0]
  <2>1. Rescheduled(r, j, d) = s
    BY <1>5 DEF Rescheduled
  <2>2. (~expired /\ j.valid) \in BOOLEAN
    OBVIOUS
  <2>3. s \in Row
    <3>1. j.attempts + 1 \in Nat /\ now + d \in Nat
      BY <1>1, <1>2
    <3>2. (IF expired THEN "dead" ELSE "pending") \in Status
      BY DEF Status
    <3> HIDE DEF expired
    <3> QED BY <1>3, <2>2, <3>1, <3>2 DEF Row
  <2>4. s.status # "processing" /\ s.lockedUntil = 0
    BY <1>3 DEF Row
  <2> QED BY <2>1, <2>3, <2>4 DEF GoodRow
<1> QED BY <1>4, <1>5

\* A statement is issued, or refused by the ended pool.
LEMMA QueryIs ==
    ASSUME NEW j, NEW pc
    PROVE  Query(j, pc) = pc \/ Query(j, pc) = "cut"
  BY DEF Query

LEMMA JobSteps ==
    ASSUME NEW j \in Job, NEW pc \in Pc
    PROVE  /\ [j EXCEPT !.pc = pc] \in Job
           /\ Begin(j) \in Job
           /\ [j EXCEPT !.kind = "detached"] \in Job
<1>1. Query(j, "killing") \in Pc /\ "publishing" \in Pc
  BY DEF Query, Pc
<1> QED BY <1>1 DEF Job, Begin, Kind

LEMMA ClaimedJobType ==
    ASSUME TypeOK, NEW i \in Instance, NEW e \in Event,
           NEW kind \in Kind, NEW pc \in Pc
    PROVE  ClaimedJob(i, e, kind, pc) \in Job
<1>1. row[e] \in Row /\ now \in Nat
  BY DEF TypeOK, RowsOK, GoodRow
<1>2. now + Lease \in Nat
  BY <1>1
<1> QED BY <1>1, <1>2 DEF Job, ClaimedJob, Row

------------------------------------------------------------------------------
(* Type correctness *)

\* One row replaced by a good one, or every row by a good one.
LEMMA PutRow ==
    ASSUME RowsOK, NEW e \in Event, NEW r, GoodRow(r), row' = [row EXCEPT ![e] = r]
    PROVE  RowsOK'
  BY DEF RowsOK, GoodRow

LEMMA PutRows ==
    ASSUME RowsOK, now \in Nat, NEW S, NEW o,
           Expire(S, o) \/ Claim(S, o)
    PROVE  RowsOK'
<1>1. CASE Expire(S, o)
  <2>1. \A e \in Event : GoodRow(row'[e])
    BY <1>1, RowSteps DEF RowsOK, Expire
  <2> QED BY <2>1, <1>1 DEF RowsOK, GoodRow, Expire
<1>2. CASE Claim(S, o)
  <2>1. \A e \in Event : GoodRow(row'[e])
    BY <1>2, RowSteps DEF RowsOK, Claim
  <2> QED BY <2>1, <1>2 DEF RowsOK, GoodRow, Claim
<1> QED BY <1>1, <1>2

LEMMA MoveType ==
    ASSUME jobs \subseteq Job, NEW j \in jobs, NEW pc \in Pc, Move(j, pc)
    PROVE  jobs' \subseteq Job
  BY JobSteps DEF Move

LEMMA FaultType ==
    ASSUME faults \in Nat, NEW o, Fault(o)
    PROVE  faults' \in Nat
  BY DEF Fault

LEMMA PollStateType ==
    ASSUME inst \in [Instance -> Process], NEW i \in Instance,
           NEW s \in {"idle", "expire", "claim", "drain"}
    PROVE  [inst EXCEPT ![i].poll = s] \in [Instance -> Process]
  BY DEF Process

LEMMA SettleType ==
    ASSUME TypeOK, NEW j \in jobs, NEW o, Settle(j, o)
    PROVE  /\ jobs' \subseteq Job
           /\ inst' \in [Instance -> Process]
           /\ doubt' \subseteq Event
<1>1. jobs \subseteq Job /\ doubt \subseteq Event /\ inst \in [Instance -> Process]
  BY DEF TypeOK
<1>2. \A k \in jobs : k.event \in Event /\ k.inst \in Instance
  BY <1>1 DEF Job
<1>3. CASE o = "ok" \/ j.kind # "poll"
  BY <1>1, <1>2, <1>3 DEF Settle
<1>4. CASE ~(o = "ok" \/ j.kind # "poll")
  <2>1. Detached(j.inst) \subseteq Job
    BY <1>1, JobSteps DEF Detached, PollJobs, Pc
  <2>2. Abandoned(j.inst) \subseteq jobs
    BY DEF Abandoned, PollJobs
  <2>3. [inst EXCEPT ![j.inst].poll = "idle"] \in [Instance -> Process]
    BY <1>1, <1>2, PollStateType
  <2>4. jobs' \subseteq Job
    BY <1>1, <1>4, <2>1 DEF Settle
  <2>5. doubt' \subseteq Event
    BY <1>1, <1>2, <1>4, <2>2 DEF Settle
  <2>6. inst' \in [Instance -> Process]
    BY <1>4, <2>3 DEF Settle
  <2> QED BY <2>4, <2>5, <2>6
<1> QED BY <1>3, <1>4

LEMMA StepType ==
    ASSUME TypeOK, NEW j \in jobs, Step(j)
    PROVE  TypeOK'
<1>1. /\ j \in Job /\ j.inst \in Instance /\ j.event \in Event
      /\ jobs \subseteq Job /\ RowsOK /\ GoodRow(row[j.event]) /\ now \in Nat
  BY DEF Job, RowsOK, TypeOK
<1>2. CASE NowStart(j)
  <2>1. jobs' \subseteq Job
    BY <1>1, <1>2, MoveType DEF NowStart, Pc, Unclaimed
  <2> QED BY <1>2, <2>1 DEF NowStart, TypeOK, RowsOK
<1>3. ASSUME NEW o \in Outcome, NowExpire(j, o) PROVE TypeOK'
  <2>1. RowsOK'
    BY <1>1, <1>3, PutRows DEF NowExpire
  <2>2. jobs' \subseteq Job
    BY <1>1, <1>3, MoveType DEF NowExpire, Pc, Unclaimed
  <2>3. faults' \in Nat
    BY <1>3, FaultType DEF NowExpire, TypeOK
  <2> QED BY <1>3, <2>1, <2>2, <2>3 DEF NowExpire, TypeOK
<1>4. ASSUME NEW o \in Outcome, NowClaim(j, o) PROVE TypeOK'
  <2> DEFINE S == {e \in {j.event} : Claimable(row[e])}
  <2>1. RowsOK'
    BY <1>1, <1>4, PutRows DEF NowClaim
  <2>2. \A e \in S : ClaimedJob(j.inst, e, "now", "leased") \in Job
    BY <1>1, ClaimedJobType DEF Kind, Pc
  <2>3. jobs' \subseteq Job
    BY <1>1, <1>4, <2>2 DEF NowClaim
  <2>4. doubt' \subseteq Event
    BY <1>1, <1>4 DEF NowClaim, Doubted, TypeOK
  <2>5. faults' \in Nat
    BY <1>4, FaultType DEF NowClaim, TypeOK
  <2> QED BY <1>4, <2>1, <2>3, <2>4, <2>5 DEF NowClaim, TypeOK
<1>5. CASE Dispatch(j)
  <2>1. jobs' \subseteq Job
    BY <1>1, <1>5, JobSteps DEF Dispatch, Pc
  <2> QED BY <1>5, <2>1 DEF Dispatch, TypeOK, RowsOK
<1>6. ASSUME NEW o \in Outcome, MarkDead(j, o) PROVE TypeOK'
  <2>1. RowsOK'
    BY <1>1, <1>6, RowSteps, PutRow DEF MarkDead
  <2>2. faults' \in Nat
    BY <1>6, FaultType DEF MarkDead, TypeOK
  <2> QED BY <1>6, <2>1, <2>2, SettleType DEF MarkDead, TypeOK
<1>7. CASE Accept(j)
  <2>1. jobs' \subseteq Job
    BY <1>1, <1>7, MoveType DEF Accept, Pc
  <2>2. broker' \in [Event -> Nat]
    BY <1>1, <1>7 DEF Accept, TypeOK
  <2> QED BY <1>7, <2>1, <2>2 DEF Accept, TypeOK, RowsOK
<1>8. CASE PublishOk(j)
  <2>1. jobs' \subseteq Job
    BY <1>1, <1>8, MoveType, QueryIs DEF PublishOk, Pc
  <2> QED BY <1>8, <2>1 DEF PublishOk, TypeOK, RowsOK
<1>9. CASE PublishFail(j)
  <2>1. jobs' \subseteq Job
    BY <1>1, <1>9, MoveType, QueryIs DEF PublishFail, Pc
  <2> QED BY <1>1, <1>9, <2>1 DEF PublishFail, TypeOK, RowsOK
<1>10. ASSUME NEW o \in Outcome, MarkPublished(j, o) PROVE TypeOK'
  <2>1. RowsOK'
    BY <1>1, <1>10, RowSteps, PutRow DEF MarkPublished
  <2>2. jobs' \subseteq Job
    BY <1>1, <1>10, MoveType, QueryIs DEF MarkPublished, Pc
  <2>3. faults' \in Nat
    BY <1>10, FaultType DEF MarkPublished, TypeOK
  <2> QED BY <1>1, <1>10, <2>1, <2>2, <2>3 DEF MarkPublished, TypeOK
<1>11. ASSUME NEW d \in Delays(j.attempts + 1), NEW o \in Outcome, Reschedule(j, d, o)
       PROVE  TypeOK'
  <2>1. RowsOK'
    BY <1>1, <1>11, RescheduledRow, PutRow DEF Reschedule
  <2>2. faults' \in Nat
    BY <1>11, FaultType DEF Reschedule, TypeOK
  <2> QED BY <1>1, <1>11, <2>1, <2>2, SettleType DEF Reschedule, TypeOK
<1>12. CASE Reject(j)
  BY <1>1, <1>12, SettleType DEF Reject, TypeOK, RowsOK
<1> QED BY <1>2, <1>3, <1>4, <1>5, <1>6, <1>7, <1>8, <1>9, <1>10, <1>11, <1>12 DEF Step

LEMMA PollerType ==
    ASSUME TypeOK, NEW i \in Instance, Poller(i)
    PROVE  TypeOK'
<1>1. /\ now \in Nat /\ RowsOK /\ jobs \subseteq Job
      /\ inst \in [Instance -> Process]
  BY DEF TypeOK
<1>2. CASE PollStart(i)
  BY <1>1, <1>2, PollStateType DEF PollStart, TypeOK, RowsOK
<1>3. ASSUME NEW o \in Outcome, PollExpire(i, o) PROVE TypeOK'
  <2>1. RowsOK'
    BY <1>1, <1>3, PutRows DEF PollExpire
  <2>2. faults' \in Nat
    BY <1>3, FaultType DEF PollExpire, TypeOK
  <2>3. inst' \in [Instance -> Process]
    <3>1. PICK s \in {"claim", "idle"} : inst' = [inst EXCEPT ![i].poll = s]
      BY <1>3 DEF PollExpire
    <3> QED BY <1>1, <3>1, PollStateType
  <2> QED BY <1>3, <2>1, <2>2, <2>3 DEF PollExpire, TypeOK
<1>4. ASSUME NEW S \in SUBSET Event, NEW o \in Outcome, PollClaim(i, S, o)
      PROVE  TypeOK'
  <2>1. RowsOK'
    BY <1>1, <1>4, PutRows DEF PollClaim
  <2>2. \A e \in S : ClaimedJob(i, e, "poll", "queued") \in Job
    BY ClaimedJobType DEF Kind, Pc
  <2>3. jobs' \subseteq Job
    BY <1>1, <1>4, <2>2 DEF PollClaim
  <2>4. doubt' \subseteq Event
    BY <1>4 DEF PollClaim, Doubted, TypeOK
  <2>5. faults' \in Nat
    BY <1>4, FaultType DEF PollClaim, TypeOK
  <2>6. inst' \in [Instance -> Process]
    BY <1>1, <1>4, PollStateType DEF PollClaim
  <2> QED BY <1>4, <2>1, <2>3, <2>4, <2>5, <2>6 DEF PollClaim, TypeOK
<1>5. ASSUME NEW S \in SUBSET jobs, PollSlice(i, S) PROVE TypeOK'
  <2>1. jobs' \subseteq Job
    BY <1>1, <1>5, JobSteps DEF PollSlice, Pc
  <2> QED BY <1>5, <2>1 DEF PollSlice, TypeOK, RowsOK
<1>6. CASE PollDone(i)
  BY <1>1, <1>6, PollStateType DEF PollDone, TypeOK, RowsOK
<1> QED BY <1>2, <1>3, <1>4, <1>5, <1>6 DEF Poller

LEMMA LifecycleType ==
    ASSUME TypeOK, NEW i \in Instance, Lifecycle(i)
    PROVE  TypeOK'
<1>1. \A m \in {"up", "closing", "stopping", "stopped", "down"} :
          [inst EXCEPT ![i].mode = m] \in [Instance -> Process]
  BY DEF TypeOK, Process
<1>2. \A m \in {"up", "down"} :
          [inst EXCEPT ![i] = [mode |-> m, poll |-> "idle"]] \in [Instance -> Process]
  BY DEF TypeOK, Process
<1>3. \A j \in jobs : j.event \in Event
  BY DEF TypeOK, Job
<1>4. CASE Crash(i)
  BY <1>2, <1>3, <1>4 DEF Crash, TypeOK, RowsOK
<1>5. CASE Restart(i)
  BY <1>2, <1>5 DEF Restart, TypeOK, RowsOK
<1>6. CASE Shutdown(i)
  BY <1>1, <1>6 DEF Shutdown, TypeOK, RowsOK
<1>7. CASE ShutdownDone(i)
  BY <1>1, <1>7 DEF ShutdownDone, TypeOK, RowsOK
<1>8. CASE PoolEnded(i)
  BY <1>1, <1>8 DEF PoolEnded, TypeOK, RowsOK
<1> QED BY <1>4, <1>5, <1>6, <1>7, <1>8 DEF Lifecycle

LEMMA TypeInit == Init => TypeOK
<1>1. GoodRow(Absent)
  BY DEF GoodRow, Absent, Row, Status
<1> QED BY <1>1 DEF Init, TypeOK, RowsOK, GoodRow, Process

LEMMA CreateType ==
    ASSUME TypeOK, NEW i \in Instance, NEW e \in Event, Create(i, e)
    PROVE  TypeOK'
<1>1. GoodRow(row[e]) /\ now \in Nat /\ RowsOK
  BY DEF TypeOK, RowsOK
<1>2. RowsOK'
  BY <1>1, RowSteps, PutRow DEF Create
<1>3. [inst |-> i, event |-> e, kind |-> "now", pc |-> "created",
       valid |-> TRUE, attempts |-> 0, until |-> 0] \in Job
  BY DEF Job, Kind, Pc, Unclaimed
<1>4. jobs' \subseteq Job
  BY <1>3 DEF Create, TypeOK
<1> QED BY <1>2, <1>4 DEF Create, TypeOK

LEMMA TypeStep == TypeOK /\ [Next]_vars => TypeOK'
<1> SUFFICES ASSUME TypeOK, [Next]_vars PROVE TypeOK'
  OBVIOUS
<1>1. CASE Tick
  BY <1>1 DEF Tick, TypeOK, RowsOK
<1>2. CASE UNCHANGED vars
  BY <1>2 DEF vars, TypeOK, RowsOK
<1> QED BY <1>1, <1>2, CreateType, PollerType, LifecycleType, StepType DEF Next

\* Every reachable state is well typed, and a row is locked exactly while it is
\* being processed.
THEOREM TypeCorrect == Spec => []TypeOK
<1> QED BY TypeInit, TypeStep, PTL DEF Spec

------------------------------------------------------------------------------
(* The lease *)

\* The strengthening of LeaseExclusive: the row of an event whose worker is
\* inside its lease carries the end of that very lease, or is settled.  So no
\* claim finds it claimable.
Settled(r) == r.status \in {"published", "dead"}
LeaseHeld(j) ==
    \/ Settled(row[j.event])
    \/ row[j.event].status = "processing" /\ row[j.event].lockedUntil = j.until
LeaseInv ==
    \A j \in jobs : (Holds(j) /\ j.event \notin late) => LeaseHeld(j)

IInv == TypeOK /\ LeaseExclusive /\ LeaseInv

\* A step that makes no claim: every claimed job after it is the image under f of
\* a claimed job of D before it, for the same event, under the same lease.
SameLease(x, y) == x.event = y.event /\ x.until = y.until
Image(f, D) ==
    /\ D \subseteq jobs
    /\ \A x \in jobs' : x.pc \notin Unclaimed =>
         \E y \in D : x = f[y] /\ SameLease(x, y) /\ y.pc \notin Unclaimed

LEMMA ImageHolds ==
    ASSUME TypeOK, now' \in {now, now + 1}, late \subseteq late',
           NEW f, NEW D, Image(f, D),
           NEW x \in jobs', Holds(x)', x.event \notin late'
    PROVE  \E y \in D : /\ x = f[y] /\ x.event = y.event /\ x.until = y.until
                        /\ Holds(y) /\ y.event \notin late
<1>1. PICK y \in D : x = f[y] /\ SameLease(x, y) /\ y.pc \notin Unclaimed
  BY DEF Image, Holds
<1>2. y \in jobs /\ y.until \in Nat /\ now \in Nat
  BY <1>1 DEF Image, TypeOK, Job
<1>3. x.pc \notin Unclaimed /\ now' < x.until
  BY DEF Holds
<1> QED BY <1>1, <1>2, <1>3 DEF Holds, SameLease

LEMMA ImageExclusive ==
    ASSUME IInv, now' \in {now, now + 1}, late \subseteq late',
           NEW f, NEW D, Image(f, D)
    PROVE  LeaseExclusive'
<1> SUFFICES ASSUME NEW x \in jobs', NEW z \in jobs', x.event = z.event,
                    x.event \notin late', Holds(x)', Holds(z)'
             PROVE  x = z
  BY DEF LeaseExclusive, Holds
<1>1. PICK y \in D : x = f[y] /\ x.event = y.event /\ Holds(y) /\ y.event \notin late
  BY ImageHolds DEF IInv
<1>2. PICK w \in D : z = f[w] /\ z.event = w.event /\ Holds(w) /\ w.event \notin late
  BY ImageHolds DEF IInv
<1> QED BY <1>1, <1>2 DEF IInv, LeaseExclusive, Image

\* What a step may do to the row of an event that a surviving job holds.
Kept(r, s) ==
    \/ s = r
    \/ Settled(s)

LEMMA ImageLease ==
    ASSUME IInv, now' \in {now, now + 1}, late \subseteq late',
           NEW f, NEW D, Image(f, D),
           \A y \in D : (Holds(y) /\ y.event \notin late') =>
                            Kept(row[y.event], row'[y.event])
    PROVE  IInv' <=> TypeOK'
<1>1. LeaseInv'
  <2> SUFFICES ASSUME NEW x \in jobs', Holds(x)', x.event \notin late'
               PROVE  LeaseHeld(x)'
    BY DEF LeaseInv
  <2>1. PICK y \in D : /\ x = f[y] /\ x.event = y.event /\ x.until = y.until
                       /\ Holds(y) /\ y.event \notin late
    BY ImageHolds DEF IInv
  <2>2. LeaseHeld(y)
    BY <2>1 DEF IInv, LeaseInv, Image
  <2>3. Kept(row[y.event], row'[y.event])
    BY <2>1
  <2> QED BY <2>1, <2>2, <2>3 DEF LeaseHeld, Kept, Settled
<1>2. LeaseExclusive'
  BY ImageExclusive
<1> QED BY <1>1, <1>2 DEF IInv

\* A claim: jobs of claimable events join, each under the lease its row now has.
LEMMA ClaimLease ==
    ASSUME IInv, now' = now, late' = late, NEW S \in SUBSET Event,
           \A e \in S : Claimable(row[e]), NEW o, Claim(S, o),
           \A x \in jobs' \ jobs :
               /\ x.event \in S /\ x.until = now + Lease /\ Applied(o),
           \A x, z \in jobs' \ jobs : x.event = z.event => x = z
    PROVE  IInv' <=> TypeOK'
<1>1. \A y \in jobs : (Holds(y) /\ y.event \notin late) => y.event \notin S
  <2> SUFFICES ASSUME NEW y \in jobs, Holds(y), y.event \notin late, y.event \in S
               PROVE  FALSE
    OBVIOUS
  <2>1. LeaseHeld(y) /\ Claimable(row[y.event])
    BY DEF IInv, LeaseInv
  <2>2. y.until \in Nat /\ now \in Nat /\ now < y.until
    BY DEF IInv, TypeOK, Job, Holds
  <2> QED BY <2>1, <2>2 DEF LeaseHeld, Settled, Claimable
<1>2. \A y \in jobs : (Holds(y) /\ y.event \notin late) => row'[y.event] = row[y.event]
  BY <1>1 DEF Claim, IInv, TypeOK, Job
<1>3. \A x \in jobs : Holds(x)' <=> Holds(x)
  BY DEF Holds
<1>4. LeaseInv'
  <2> SUFFICES ASSUME NEW x \in jobs', Holds(x)', x.event \notin late'
               PROVE  LeaseHeld(x)'
    BY DEF LeaseInv
  <2>1. CASE x \in jobs
    BY <2>1, <1>2, <1>3 DEF IInv, LeaseInv, LeaseHeld, Settled
  <2>2. CASE x \notin jobs
    <3>1. row'[x.event] = Leased(row[x.event]) /\ row[x.event] \in Row
      BY <2>2 DEF Claim, IInv, TypeOK, RowsOK, GoodRow
    <3>2. Leased(row[x.event]).status = "processing"
      BY <3>1 DEF Leased, Row
    <3>3. Leased(row[x.event]).lockedUntil = now + Lease
      BY <3>1 DEF Leased, Row
    <3> QED BY <2>2, <3>1, <3>2, <3>3 DEF LeaseHeld
  <2> QED BY <2>1, <2>2
<1>5. LeaseExclusive'
  <2> SUFFICES ASSUME NEW x \in jobs', NEW z \in jobs', x.event = z.event,
                      x.event \notin late', Holds(x)', Holds(z)'
               PROVE  x = z
    BY DEF LeaseExclusive, Holds
  <2>1. CASE x \in jobs /\ z \in jobs
    BY <2>1, <1>3 DEF IInv, LeaseExclusive
  <2>2. CASE x \notin jobs /\ z \notin jobs
    BY <2>2
  <2>3. CASE x \in jobs /\ z \notin jobs
    BY <2>3, <1>1, <1>3
  <2>4. CASE x \notin jobs /\ z \in jobs
    BY <2>4, <1>1, <1>3
  <2> QED BY <2>1, <2>2, <2>3, <2>4
<1> QED BY <1>4, <1>5 DEF IInv

LEMMA MoveImage ==
    ASSUME jobs \subseteq Job, NEW j \in jobs, NEW pc \in Pc, Move(j, pc),
           pc \notin Unclaimed => j.pc \notin Unclaimed
    PROVE  \E f : Image(f, jobs)
<1> DEFINE f == [y \in jobs |-> IF y = j THEN [j EXCEPT !.pc = pc] ELSE y]
<1>1. [j EXCEPT !.pc = pc].pc = pc /\ SameLease([j EXCEPT !.pc = pc], j)
  BY DEF Job, SameLease
<1>2. Image(f, jobs)
  BY <1>1 DEF Image, Move, SameLease
<1> QED BY <1>2

LEMMA SubsetImage ==
    ASSUME NEW D \in SUBSET jobs, \A x \in jobs' : x \in D \/ x.pc \in Unclaimed
    PROVE  \E f : Image(f, D)
<1>1. Image([y \in D |-> y], D)
  BY DEF Image, SameLease
<1> QED BY <1>1

LEMMA BeginImage ==
    ASSUME jobs \subseteq Job, NEW S \in SUBSET jobs,
           \A j \in S : j.pc \notin Unclaimed,
           jobs' = (jobs \ S) \cup {Begin(j) : j \in S}
    PROVE  \E f : Image(f, jobs)
<1> DEFINE f == [y \in jobs |-> IF y \in S THEN Begin(y) ELSE y]
<1>1. \A y \in S : SameLease(Begin(y), y)
  BY DEF Job, SameLease, Begin
<1>2. Image(f, jobs)
  BY <1>1 DEF Image, SameLease
<1> QED BY <1>2

LEMMA SettleImage ==
    ASSUME jobs \subseteq Job, NEW j \in jobs, NEW o, Settle(j, o)
    PROVE  \E f : Image(f, jobs \ {j})
<1>1. CASE o = "ok" \/ j.kind # "poll"
  BY <1>1, SubsetImage DEF Settle
<1>2. CASE ~(o = "ok" \/ j.kind # "poll")
  <2> DEFINE D == jobs \ {j}
             g(k) == [k EXCEPT !.kind = "detached"]
             f == [y \in D |-> IF y \in PollJobs(j.inst) THEN g(y) ELSE y]
  <2>1. \A y \in jobs : SameLease(g(y), y) /\ g(y).pc = y.pc
    BY DEF Job, SameLease
  <2>2. j \in PollJobs(j.inst)
    BY <1>2 DEF PollJobs
  <2>3. \A x \in jobs' : \/ x \in jobs \ PollJobs(j.inst)
                         \/ \E k \in PollJobs(j.inst) : x = g(k) /\ x.event # j.event
    BY <1>2 DEF Settle, Detached
  <2>4. ASSUME NEW k \in PollJobs(j.inst), g(k).event # j.event PROVE k \in D
    BY <2>1, <2>4 DEF PollJobs, SameLease
  <2>5. \A k \in PollJobs(j.inst) : k \in jobs
    BY DEF PollJobs
  <2>6. Image(f, D)
    <3> SUFFICES ASSUME NEW x \in jobs', x.pc \notin Unclaimed
                 PROVE  \E y \in D : x = f[y] /\ SameLease(x, y) /\ y.pc \notin Unclaimed
      BY DEF Image
    <3>1. CASE x \in jobs \ PollJobs(j.inst)
      BY <3>1, <2>2 DEF SameLease
    <3>2. CASE \E k \in PollJobs(j.inst) : x = g(k) /\ x.event # j.event
      BY <3>2, <2>1, <2>4, <2>5
    <3> QED BY <2>3, <3>1, <3>2
  <2> QED BY <2>6
<1> QED BY <1>1, <1>2

LEMMA ExpireKeeps ==
    ASSUME NEW S, NEW o, Expire(S, o), RowsOK
    PROVE  \A e \in Event : Kept(row[e], row'[e])
<1>1. \A e \in Event : row[e] \in Row
  BY DEF RowsOK, GoodRow
<1>2. \A e \in Event : Settled(Dead(row[e]))
  BY <1>1 DEF Settled, Dead, Row
<1> QED BY <1>2 DEF Expire, Kept

LEMMA LeaseStep ==
    ASSUME IInv, TypeOK', NEW j \in jobs, Step(j)
    PROVE  IInv'
<1>1. /\ TypeOK /\ jobs \subseteq Job /\ RowsOK /\ j.event \in Event
      /\ row \in [Event -> Row] /\ now \in Nat /\ j \in Job
      /\ \A y \in jobs : y.event \in Event
  BY DEF IInv, TypeOK, RowsOK, Job
<1>2. ASSUME now' = now, late' = late, row' = row, \E f : Image(f, jobs) PROVE IInv'
  BY <1>2, ImageLease DEF Kept
<1>3. CASE NowStart(j)
  <2>1. CASE Move(j, "expire")
    BY <1>1, <1>3, <2>1, MoveImage, <1>2 DEF NowStart, Pc, Unclaimed
  <2>2. CASE jobs' = jobs \ {j}
    BY <1>3, <2>2, SubsetImage, <1>2 DEF NowStart
  <2> QED BY <1>3, <2>1, <2>2 DEF NowStart
<1>4. ASSUME NEW o \in Outcome, NowExpire(j, o) PROVE IInv'
  <2>1. \E f : Image(f, jobs)
    <3>1. CASE Move(j, "claim")
      BY <1>1, <3>1, MoveImage DEF Pc, Unclaimed
    <3>2. CASE jobs' = jobs \ {j}
      BY <3>2, SubsetImage
    <3> QED BY <1>4, <3>1, <3>2 DEF NowExpire
  <2>2. \A e \in Event : Kept(row[e], row'[e])
    BY <1>1, <1>4, ExpireKeeps DEF NowExpire
  <2> QED BY <1>1, <1>4, <2>1, <2>2, ImageLease DEF NowExpire
<1>5. ASSUME NEW o \in Outcome, NowClaim(j, o) PROVE IInv'
  <2> DEFINE S == {e \in {j.event} : Claimable(row[e])}
  <2>1. S \in SUBSET Event /\ Claim(S, o) /\ \A e \in S : Claimable(row[e])
    BY <1>1, <1>5 DEF NowClaim
  <2>2. \A x \in jobs' \ jobs : /\ x = ClaimedJob(j.inst, j.event, "now", "leased")
                                /\ o = "ok" /\ j.event \in S
    BY <1>5 DEF NowClaim
  <2>3. /\ ClaimedJob(j.inst, j.event, "now", "leased").event = j.event
        /\ ClaimedJob(j.inst, j.event, "now", "leased").until = now + Lease
    BY DEF ClaimedJob
  <2>4. now' = now /\ late' = late
    BY <1>5 DEF NowClaim
  <2>5. \A x \in jobs' \ jobs : x.event \in S /\ x.until = now + Lease /\ Applied(o)
    BY <2>2, <2>3 DEF Applied
  <2>6. \A x, z \in jobs' \ jobs : x.event = z.event => x = z
    BY <2>2
  <2> QED BY <2>1, <2>4, <2>5, <2>6, ClaimLease
<1>6. CASE Dispatch(j)
  <2> DEFINE S == {j}
  <2>1. S \in SUBSET jobs /\ jobs' = (jobs \ S) \cup {Begin(k) : k \in S}
    BY <1>6 DEF Dispatch
  <2>2. \A k \in S : k.pc \notin Unclaimed
    BY <1>6 DEF Dispatch, Unclaimed
  <2>3. \E f : Image(f, jobs)
    <3> HIDE DEF S
    <3> QED BY <1>1, <2>1, <2>2, BeginImage
  <2> QED BY <1>6, <2>3, <1>2 DEF Dispatch
<1>7. ASSUME NEW o \in Outcome, MarkDead(j, o) PROVE IInv'
  <2>1. PICK f : Image(f, jobs \ {j})
    BY <1>1, <1>7, SettleImage DEF MarkDead
  <2>2. Settled(Dead(row[j.event]))
    BY <1>1 DEF Settled, Dead, Row
  <2>3. \A e \in Event : Kept(row[e], row'[e])
    BY <1>1, <1>7, <2>2 DEF MarkDead, Kept
  <2> QED BY <1>1, <1>7, <2>1, <2>3, ImageLease DEF MarkDead
<1>8. CASE Accept(j)
  <2>1. \E f : Image(f, jobs)
    BY <1>1, <1>8, MoveImage DEF Accept, Pc, Unclaimed
  <2> QED BY <1>8, <2>1, <1>2 DEF Accept
<1>9. CASE PublishOk(j)
  <2>1. \E f : Image(f, jobs)
    BY <1>1, <1>9, MoveImage, QueryIs DEF PublishOk, Pc, Unclaimed
  <2> QED BY <1>9, <2>1, <1>2 DEF PublishOk
<1>10. CASE PublishFail(j)
  <2>1. \E f : Image(f, jobs)
    BY <1>1, <1>10, MoveImage, QueryIs DEF PublishFail, Pc, Unclaimed
  <2> QED BY <1>10, <2>1, <1>2 DEF PublishFail
<1>11. ASSUME NEW o \in Outcome, MarkPublished(j, o) PROVE IInv'
  <2>1. PICK f : Image(f, jobs)
    <3>1. CASE Move(j, Query(j, "failed"))
      BY <1>1, <1>11, <3>1, MoveImage, QueryIs DEF MarkPublished, Pc, Unclaimed
    <3>2. CASE jobs' = jobs \ {j}
      BY <3>2, SubsetImage
    <3> QED BY <1>11, <3>1, <3>2 DEF MarkPublished
  <2>2. Kept(row[j.event], Published(row[j.event]))
    BY <1>1 DEF Kept, Settled, Published, Row
  <2>3. \A e \in Event : Kept(row[e], row'[e])
    BY <1>1, <1>11, <2>2 DEF MarkPublished, Kept
  <2> QED BY <1>1, <1>11, <2>1, <2>3, ImageLease DEF MarkPublished
<1>12. ASSUME NEW d \in Delays(j.attempts + 1), NEW o \in Outcome, Reschedule(j, d, o)
       PROVE  IInv'
  <2>1. PICK f : Image(f, jobs \ {j})
    BY <1>1, <1>12, SettleImage DEF Reschedule
  <2>2. ASSUME NEW y \in jobs \ {j}, Holds(y), y.event \notin late'
        PROVE  Kept(row[y.event], row'[y.event])
    <3>1. CASE y.event # j.event
      BY <1>1, <1>12, <3>1 DEF Reschedule, Kept
    <3>2. CASE y.event = j.event
      <4>1. j.pc \notin Unclaimed /\ ~(j.until <= now) /\ j.event \notin late
        BY <1>12, <2>2, <3>2 DEF Reschedule, Unclaimed
      <4>2. Holds(j)
        BY <1>1, <4>1 DEF Holds, Job
      <4> QED BY <2>2, <3>2, <4>1, <4>2 DEF IInv, LeaseExclusive
    <3> QED BY <3>1, <3>2
  <2>3. now' = now /\ late \subseteq late'
    BY <1>12 DEF Reschedule
  <2> QED BY <1>1, <2>1, <2>2, <2>3, ImageLease
<1>13. CASE Reject(j)
  <2>1. PICK f : Image(f, jobs \ {j})
    BY <1>1, <1>13, SettleImage DEF Reject
  <2>2. row' = row /\ now' = now /\ late' = late
    BY <1>13 DEF Reject
  <2> QED BY <1>1, <2>1, <2>2, ImageLease DEF Kept
<1> QED BY <1>3, <1>4, <1>5, <1>6, <1>7, <1>8, <1>9, <1>10, <1>11, <1>12, <1>13 DEF Step

LEMMA PollerLease ==
    ASSUME IInv, TypeOK', NEW i \in Instance, Poller(i)
    PROVE  IInv'
<1>1. TypeOK /\ jobs \subseteq Job /\ RowsOK
  BY DEF IInv, TypeOK
<1>2. ASSUME now' = now, late' = late, row' = row, \E f : Image(f, jobs) PROVE IInv'
  BY <1>2, ImageLease DEF Kept
<1>3. CASE PollStart(i)
  BY <1>3, <1>2, SubsetImage DEF PollStart
<1>4. ASSUME NEW o \in Outcome, PollExpire(i, o) PROVE IInv'
  <2>0. jobs' = jobs
    BY <1>4 DEF PollExpire
  <2>1. \E f : Image(f, jobs)
    <3>1. \A x \in jobs' : x \in jobs \/ x.pc \in Unclaimed
      BY <2>0
    <3> QED BY <3>1, SubsetImage
  <2>2. \A y \in jobs : Kept(row[y.event], row'[y.event])
    BY <1>1, <1>4, ExpireKeeps DEF PollExpire, Job
  <2> QED BY <1>4, <2>1, <2>2, ImageLease DEF PollExpire
<1>5. ASSUME NEW S \in SUBSET Event, NEW o \in Outcome, PollClaim(i, S, o)
      PROVE  IInv'
  <2>1. Claim(S, o) /\ \A e \in S : Claimable(row[e])
    BY <1>5 DEF PollClaim, OldestClaimable
  <2>2. now' = now /\ late' = late
    BY <1>5 DEF PollClaim
  <2>3. \A x \in jobs' \ jobs : \E e \in S : x = ClaimedJob(i, e, "poll", "queued") /\ o = "ok"
    BY <1>5 DEF PollClaim
  <2>4. \A e \in S : /\ ClaimedJob(i, e, "poll", "queued").event = e
                     /\ ClaimedJob(i, e, "poll", "queued").until = now + Lease
    BY DEF ClaimedJob
  <2>5. \A x \in jobs' \ jobs : x.event \in S /\ x.until = now + Lease /\ Applied(o)
    BY <2>3, <2>4 DEF Applied
  <2>6. \A x, z \in jobs' \ jobs : x.event = z.event => x = z
    BY <2>3, <2>4
  <2> QED BY <2>1, <2>2, <2>5, <2>6, ClaimLease
<1>6. ASSUME NEW S \in SUBSET jobs, PollSlice(i, S) PROVE IInv'
  <2>1. \A j \in S : j.pc \notin Unclaimed
    BY <1>6 DEF PollSlice, Unclaimed
  <2>2. \E f : Image(f, jobs)
    BY <1>1, <1>6, <2>1, BeginImage DEF PollSlice
  <2> QED BY <1>6, <2>2, <1>2 DEF PollSlice
<1>7. CASE PollDone(i)
  BY <1>7, <1>2, SubsetImage DEF PollDone
<1> QED BY <1>3, <1>4, <1>5, <1>6, <1>7 DEF Poller

LEMMA LeaseNext == IInv /\ [Next]_vars => IInv'
<1> SUFFICES ASSUME IInv, [Next]_vars PROVE IInv'
  OBVIOUS
<1>1. TypeOK /\ TypeOK' /\ now \in Nat /\ RowsOK
  BY TypeStep DEF IInv, TypeOK
<1>2. ASSUME NEW D \in SUBSET jobs, \A x \in jobs' : x \in D \/ x.pc \in Unclaimed,
             now' \in {now, now + 1}, late' = late,
             \A y \in D : (Holds(y) /\ y.event \notin late) => row'[y.event] = row[y.event]
      PROVE  IInv'
  BY <1>1, <1>2, SubsetImage, ImageLease DEF Kept
<1>3. ASSUME NEW i \in Instance, NEW e \in Event, Create(i, e) PROVE IInv'
  <2>1. \A y \in jobs : (Holds(y) /\ y.event \notin late) => y.event # e
    BY <1>3 DEF Create, IInv, LeaseInv, LeaseHeld, Settled
  <2>2. \A y \in jobs : y.event # e => row'[y.event] = row[y.event]
    BY <1>1, <1>3 DEF Create, RowsOK, TypeOK, Job
  <2>3. \A x \in jobs' : x \in jobs \/ x.pc \in Unclaimed
    BY <1>3 DEF Create, Unclaimed
  <2> QED BY <1>3, <2>1, <2>2, <2>3, <1>2 DEF Create
<1>4. ASSUME NEW i \in Instance, Lifecycle(i) PROVE IInv'
  <2>1. now' = now /\ late' = late /\ row' = row /\ jobs' \subseteq jobs
    BY <1>4 DEF Lifecycle, Crash, Restart, Shutdown, PoolEnded, ShutdownDone
  <2> QED BY <2>1, <1>2
<1>5. CASE Tick
  BY <1>5, <1>2 DEF Tick
<1>6. CASE UNCHANGED vars
  BY <1>6, <1>2 DEF vars
<1> QED BY <1>1, <1>3, <1>4, <1>5, <1>6, PollerLease, LeaseStep DEF Next

\* Two jobs inside their leases never work on one event, unless a job past its
\* own lease rescheduled that event: for any number of instances and events and
\* any lease, batch and backoff, through crashes and failed calls.
THEOREM LeaseSafety == Spec => []LeaseExclusive
<1>1. Init => IInv
  <2>1. Init => LeaseExclusive /\ LeaseInv
    BY DEF Init, LeaseExclusive, LeaseInv
  <2> QED BY <2>1, TypeInit DEF IInv
<1>2. IInv => LeaseExclusive
  BY DEF IInv
<1> QED BY <1>1, <1>2, LeaseNext, PTL DEF Spec

------------------------------------------------------------------------------
(* The outbox hands on *)

\* Every job is about a committed event, and a job that knows, or soon will, that
\* RabbitMQ accepted its event is right.
Told == {"accepted", "sent"}
Committed == \A j \in jobs : row[j.event].status # "absent"
Confirmed == \A j \in jobs : j.pc \in Told => broker[j.event] > 0
HandInv == TypeOK /\ Committed /\ Confirmed

\* The moves Handoff allows an event of which n copies were handed on.
DutyMove(a, b, n) ==
    \/ b = a
    \/ a = "none" /\ b = "owed"
    \/ a = "owed" /\ b = "done" /\ n > 0
    \/ a \in {"owed", "done"} /\ b = "dropped"

\* Every statement on a row makes one of these moves.
LEMMA RowDuties ==
    ASSUME NEW r \in Row, NEW n
    PROVE  /\ DutyMove(DutyOf(r), DutyOf(r), n)
           /\ r.status # "absent" => DutyMove(DutyOf(r), DutyOf(Dead(r)), n)
           /\ n > 0 => DutyMove(DutyOf(r), DutyOf(Published(r)), n)
           /\ Claimable(r) => DutyMove(DutyOf(r), DutyOf(Leased(r)), n)
           /\ r.status = "absent" => DutyMove(DutyOf(r), DutyOf(NewRow), n)
           /\ \A j, d : DutyMove(DutyOf(r), DutyOf(Rescheduled(r, j, d)), n)
<1> USE DEF DutyMove, DutyOf, Live
<1>1. r.status \in Status
  BY DEF Row
<1>2. Dead(r).status = "dead"
  BY DEF Dead, Row
<1>3. r.status = "processing" => Published(r).status = "published"
  BY DEF Published, Row
<1>4. r.status # "processing" => Published(r) = r
  BY DEF Published
<1>5. Leased(r).status = "processing"
  BY DEF Leased, Row
<1>6. NewRow.status = "pending"
  BY DEF NewRow
<1>7. ASSUME NEW j, NEW d PROVE DutyMove(DutyOf(r), DutyOf(Rescheduled(r, j, d)), n)
  <2>1. r.status # "processing" => Rescheduled(r, j, d) = r
    BY DEF Rescheduled
  <2>2. r.status = "processing" => Rescheduled(r, j, d).status \in {"dead", "pending"}
    BY DEF Rescheduled, Row
  <2> QED BY <1>1, <2>1, <2>2 DEF Status
<1>8. r.status # "absent" => DutyMove(DutyOf(r), DutyOf(Dead(r)), n)
  BY <1>1, <1>2 DEF Status
<1>9. n > 0 => DutyMove(DutyOf(r), DutyOf(Published(r)), n)
  BY <1>1, <1>3, <1>4 DEF Status
<1>10. Claimable(r) => DutyMove(DutyOf(r), DutyOf(Leased(r)), n)
  BY <1>1, <1>5 DEF Claimable, Status
<1>11. r.status = "absent" => DutyMove(DutyOf(r), DutyOf(NewRow), n)
  BY <1>6
<1> QED BY <1>7, <1>8, <1>9, <1>10, <1>11

DutiesMove == \A e \in Event : DutyMove(DutyOf(row[e]), DutyOf(row'[e]), broker[e])

LEMMA StatementDuties ==
    ASSUME TypeOK, NEW S, NEW o,
           Expire(S, o) \/ (Claim(S, o) /\ \A e \in S : Claimable(row[e]))
    PROVE  DutiesMove
<1> SUFFICES ASSUME NEW e \in Event
             PROVE  DutyMove(DutyOf(row[e]), DutyOf(row'[e]), broker[e])
  BY DEF DutiesMove
<1>1. row[e] \in Row
  BY DEF TypeOK, RowsOK, GoodRow
<1>2. CASE Expire(S, o)
  <2>1. row'[e] = row[e] \/ (row'[e] = Dead(row[e]) /\ row[e].status # "absent")
    BY <1>2 DEF Expire, Expirable, Live
  <2> QED BY <1>1, <2>1, RowDuties
<1>3. CASE Claim(S, o) /\ \A x \in S : Claimable(row[x])
  <2>1. row'[e] = row[e] \/ (row'[e] = Leased(row[e]) /\ Claimable(row[e]))
    BY <1>3 DEF Claim
  <2> QED BY <1>1, <2>1, RowDuties
<1> QED BY <1>2, <1>3

LEMMA DutyStep == HandInv /\ [Next]_vars => DutiesMove
<1> SUFFICES ASSUME HandInv, [Next]_vars PROVE DutiesMove
  OBVIOUS
<1>0. /\ TypeOK /\ row \in [Event -> Row]
      /\ \A j \in jobs : j.event \in Event /\ row[j.event].status # "absent"
  BY DEF HandInv, TypeOK, RowsOK, Job, Committed
<1>1. ASSUME row' = row PROVE DutiesMove
  BY <1>0, <1>1, RowDuties DEF DutiesMove
<1>2. ASSUME NEW x \in Event, NEW r, row' = [row EXCEPT ![x] = r],
             DutyMove(DutyOf(row[x]), DutyOf(r), broker[x])
      PROVE  DutiesMove
  BY <1>0, <1>2, RowDuties DEF DutiesMove
<1>3. ASSUME NEW i \in Instance, NEW x \in Event, Create(i, x) PROVE DutiesMove
  BY <1>0, <1>2, <1>3, RowDuties DEF Create
<1>4. ASSUME NEW i \in Instance, Poller(i) PROVE DutiesMove
  <2>1. CASE PollStart(i) \/ PollDone(i) \/ \E S \in SUBSET jobs : PollSlice(i, S)
    BY <2>1, <1>1 DEF PollStart, PollDone, PollSlice
  <2>2. ASSUME NEW o \in Outcome, PollExpire(i, o) PROVE DutiesMove
    BY <1>0, <2>2, StatementDuties DEF PollExpire
  <2>3. ASSUME NEW S \in SUBSET Event, NEW o \in Outcome, PollClaim(i, S, o)
        PROVE  DutiesMove
    BY <1>0, <2>3, StatementDuties DEF PollClaim, OldestClaimable
  <2> QED BY <1>4, <2>1, <2>2, <2>3 DEF Poller
<1>5. ASSUME NEW j \in jobs, Step(j) PROVE DutiesMove
  <2>1. CASE \/ NowStart(j) \/ Dispatch(j) \/ Accept(j) \/ PublishOk(j)
             \/ PublishFail(j) \/ Reject(j)
    BY <2>1, <1>1 DEF NowStart, Dispatch, Accept, PublishOk, PublishFail, Reject
  <2>2. ASSUME NEW o \in Outcome, NowExpire(j, o) PROVE DutiesMove
    BY <1>0, <2>2, StatementDuties DEF NowExpire
  <2>3. ASSUME NEW o \in Outcome, NowClaim(j, o) PROVE DutiesMove
    BY <1>0, <2>3, StatementDuties DEF NowClaim
  <2>4. ASSUME NEW o \in Outcome, MarkDead(j, o) PROVE DutiesMove
    BY <1>0, <1>2, <2>4, RowDuties DEF MarkDead
  <2>5. ASSUME NEW o \in Outcome, MarkPublished(j, o) PROVE DutiesMove
    <3>1. broker[j.event] > 0
      BY <2>5 DEF MarkPublished, HandInv, Confirmed, Told
    <3> QED BY <1>0, <1>2, <2>5, <3>1, RowDuties DEF MarkPublished
  <2>6. ASSUME NEW d \in Delays(j.attempts + 1), NEW o \in Outcome, Reschedule(j, d, o)
        PROVE  DutiesMove
    BY <1>0, <1>2, <2>6, RowDuties DEF Reschedule
  <2> QED BY <1>5, <2>1, <2>2, <2>3, <2>4, <2>5, <2>6 DEF Step
<1>6. ASSUME NEW i \in Instance, Lifecycle(i) PROVE DutiesMove
  BY <1>6, <1>1 DEF Lifecycle, Crash, Restart, Shutdown, PoolEnded, ShutdownDone
<1>7. CASE Tick \/ UNCHANGED vars
  BY <1>7, <1>1 DEF Tick, vars
<1> QED BY <1>3, <1>4, <1>5, <1>6, <1>7 DEF Next

\* A job after a step is new and of a committed event, or stands for a job before
\* it, and knows of RabbitMQ only what that one knew or what has just happened.
Follows(x) ==
    \/ x.pc \notin Told /\ row'[x.event].status # "absent"
    \/ \E y \in jobs : /\ y.event = x.event
                       /\ x.pc \in Told => y.pc \in Told \/ broker'[x.event] > 0

LEMMA HandJobs ==
    ASSUME HandInv, TypeOK', DutiesMove,
           \A e \in Event : broker'[e] >= broker[e],
           \A x \in jobs' : Follows(x)
    PROVE  HandInv'
<1> SUFFICES ASSUME NEW x \in jobs'
             PROVE  /\ row'[x.event].status # "absent"
                    /\ x.pc \in Told => broker'[x.event] > 0
  BY DEF HandInv, Committed, Confirmed
<1>1. CASE x.pc \notin Told /\ row'[x.event].status # "absent"
  BY <1>1
<1>2. ASSUME NEW y \in jobs, y.event = x.event,
             x.pc \in Told => y.pc \in Told \/ broker'[x.event] > 0
      PROVE  /\ row'[x.event].status # "absent"
             /\ x.pc \in Told => broker'[x.event] > 0
  <2>1. /\ x.event \in Event /\ row[x.event].status # "absent"
        /\ row[x.event].status \in Status
    BY <1>2 DEF HandInv, Committed, TypeOK, RowsOK, GoodRow, Row, Job
  <2>2. DutyOf(row[x.event]) # "none"
    BY <2>1 DEF DutyOf, Status, Live
  <2>3. DutyOf(row'[x.event]) # "none"
    BY <2>1, <2>2 DEF DutiesMove, DutyMove
  <2>4. row'[x.event].status # "absent"
    BY <2>3 DEF DutyOf, Live
  <2>5. y.pc \in Told => broker[x.event] > 0
    BY <1>2 DEF HandInv, Confirmed
  <2>6. broker[x.event] \in Nat /\ broker'[x.event] \in Nat
    BY <2>1 DEF HandInv, TypeOK
  <2> QED BY <1>2, <2>1, <2>4, <2>5, <2>6
<1> QED BY <1>1, <1>2 DEF Follows

LEMMA BrokerStep ==
    HandInv /\ [Next]_vars =>
        \A e \in Event : broker'[e] = broker[e]
                         \/ (row[e].status # "absent" /\ broker'[e] > broker[e])
<1> SUFFICES ASSUME HandInv, [Next]_vars, NEW e \in Event
             PROVE  broker'[e] = broker[e]
                    \/ (row[e].status # "absent" /\ broker'[e] > broker[e])
  OBVIOUS
<1>1. CASE broker' = broker
  BY <1>1
<1>2. ASSUME NEW j \in jobs, Accept(j)
      PROVE  broker'[e] = broker[e] \/ (row[e].status # "absent" /\ broker'[e] > broker[e])
  BY <1>2 DEF Accept, HandInv, TypeOK, Committed
<1>3. ASSUME NEW j \in jobs, Step(j), ~Accept(j) PROVE broker' = broker
  BY <1>3 DEF Step, NowStart, NowExpire, NowClaim, Dispatch, MarkDead, PublishOk,
              PublishFail, MarkPublished, Reschedule, Reject
<1>4. ASSUME NEW i \in Instance, Poller(i) \/ Lifecycle(i) PROVE broker' = broker
  BY <1>4 DEF Poller, PollStart, PollExpire, PollClaim, PollSlice, PollDone,
              Lifecycle, Crash, Restart, Shutdown, PoolEnded, ShutdownDone
<1>5. CASE Tick \/ UNCHANGED vars \/ \E i \in Instance, x \in Event : Create(i, x)
  BY <1>5, <1>1 DEF Tick, vars, Create
<1> QED BY <1>1, <1>2, <1>3, <1>4, <1>5 DEF Next

LEMMA SettleFollows ==
    ASSUME HandInv, NEW j \in jobs, NEW o, Settle(j, o)
    PROVE  \A x \in jobs' : Follows(x)
<1>1. CASE o = "ok" \/ j.kind # "poll"
  BY <1>1 DEF Settle, Follows
<1>2. CASE ~(o = "ok" \/ j.kind # "poll")
  <2> DEFINE g(y) == [y EXCEPT !.kind = "detached"]
  <2>1. \A y \in jobs : g(y).event = y.event /\ g(y).pc = y.pc
    BY DEF HandInv, TypeOK, Job
  <2>2. \A x \in jobs' : \/ x \in jobs
                         \/ \E y \in PollJobs(j.inst) : x = g(y)
    BY <1>2 DEF Settle, Detached
  <2>3. PollJobs(j.inst) \subseteq jobs
    BY DEF PollJobs
  <2> HIDE DEF g
  <2>4. \A x \in jobs' : \E y \in jobs : x.event = y.event /\ x.pc = y.pc
    BY <2>1, <2>2, <2>3
  <2> QED BY <2>4 DEF Follows
<1> QED BY <1>1, <1>2

LEMMA MoveFollows ==
    ASSUME HandInv, NEW j \in jobs, NEW pc, Move(j, pc),
           pc \in Told => j.pc \in Told \/ broker'[j.event] > 0
    PROVE  \A x \in jobs' : Follows(x)
<1>1. [j EXCEPT !.pc = pc].event = j.event /\ [j EXCEPT !.pc = pc].pc = pc
  BY DEF HandInv, TypeOK, Job
<1> QED BY <1>1 DEF Move, Follows

LEMMA BeginFollows ==
    ASSUME HandInv, NEW S \in SUBSET jobs,
           jobs' = (jobs \ S) \cup {Begin(j) : j \in S}
    PROVE  \A x \in jobs' : Follows(x)
<1>1. \A j \in S : Begin(j).event = j.event /\ Begin(j).pc \notin Told
  BY DEF HandInv, TypeOK, Job, Begin, Query, Told
<1> QED BY <1>1 DEF Follows

LEMMA ClaimFollows ==
    ASSUME HandInv, NEW S \in SUBSET Event, NEW o, Claim(S, o), Applied(o),
           \A x \in jobs' : x \in jobs \/ (x.event \in S /\ x.pc \notin Told)
    PROVE  \A x \in jobs' : Follows(x)
<1>1. \A e \in S : row'[e].status = "processing"
  BY DEF HandInv, TypeOK, RowsOK, GoodRow, Row, Claim, Leased
<1> QED BY <1>1 DEF Follows

LEMMA JobsFollow == HandInv /\ [Next]_vars => \A x \in jobs' : Follows(x)
<1> SUFFICES ASSUME HandInv, [Next]_vars PROVE \A x \in jobs' : Follows(x)
  OBVIOUS
<1>1. ASSUME jobs' \subseteq jobs PROVE \A x \in jobs' : Follows(x)
  BY <1>1 DEF Follows
<1>2. ASSUME NEW i \in Instance, NEW e \in Event, Create(i, e)
      PROVE  \A x \in jobs' : Follows(x)
  <2>1. row'[e].status = "pending"
    BY <1>2 DEF Create, NewRow, HandInv, TypeOK, RowsOK
  <2> QED BY <1>2, <2>1 DEF Create, Follows, Told
<1>3. ASSUME NEW i \in Instance, Poller(i) PROVE \A x \in jobs' : Follows(x)
  <2>1. CASE PollStart(i) \/ PollDone(i) \/ \E o \in Outcome : PollExpire(i, o)
    BY <2>1, <1>1 DEF PollStart, PollDone, PollExpire
  <2>2. ASSUME NEW S \in SUBSET Event, NEW o \in Outcome, PollClaim(i, S, o)
        PROVE  \A x \in jobs' : Follows(x)
    <3>1. CASE o = "ok"
      <4>1. Claim(S, o) /\ Applied(o)
        BY <2>2, <3>1 DEF PollClaim, Applied
      <4>2. \A e \in S : /\ ClaimedJob(i, e, "poll", "queued").event = e
                         /\ ClaimedJob(i, e, "poll", "queued").pc \notin Told
        BY DEF ClaimedJob, Told
      <4>3. \A x \in jobs' : x \in jobs \/ (x.event \in S /\ x.pc \notin Told)
        BY <2>2, <3>1, <4>2 DEF PollClaim
      <4> QED BY <4>1, <4>3, ClaimFollows
    <3>2. CASE o # "ok"
      BY <2>2, <3>2, <1>1 DEF PollClaim
    <3> QED BY <3>1, <3>2
  <2>3. ASSUME NEW S \in SUBSET jobs, PollSlice(i, S) PROVE \A x \in jobs' : Follows(x)
    BY <2>3, BeginFollows DEF PollSlice
  <2> QED BY <1>3, <2>1, <2>2, <2>3 DEF Poller
<1>4. ASSUME NEW j \in jobs, Step(j) PROVE \A x \in jobs' : Follows(x)
  <2>1. CASE NowStart(j)
    BY <2>1, <1>1, MoveFollows DEF NowStart, Told
  <2>2. ASSUME NEW o \in Outcome, NowExpire(j, o) PROVE \A x \in jobs' : Follows(x)
    BY <2>2, <1>1, MoveFollows DEF NowExpire, Told
  <2>3. ASSUME NEW o \in Outcome, NowClaim(j, o) PROVE \A x \in jobs' : Follows(x)
    <3> DEFINE S == {e \in {j.event} : Claimable(row[e])}
    <3>1. S \in SUBSET Event
      BY DEF HandInv, TypeOK, Job
    <3>2. CASE o = "ok"
      <4>1. Claim(S, o) /\ Applied(o)
        BY <2>3, <3>2 DEF NowClaim, Applied
      <4>2. /\ ClaimedJob(j.inst, j.event, "now", "leased").event = j.event
            /\ ClaimedJob(j.inst, j.event, "now", "leased").pc \notin Told
        BY DEF ClaimedJob, Told
      <4>3. \A x \in jobs' : x \in jobs \/ (x.event \in S /\ x.pc \notin Told)
        BY <2>3, <3>2, <4>2 DEF NowClaim
      <4> HIDE DEF S
      <4> QED BY <3>1, <4>1, <4>3, ClaimFollows
    <3>3. CASE o # "ok"
      BY <2>3, <3>3, <1>1 DEF NowClaim
    <3> QED BY <3>2, <3>3
  <2>4. CASE Dispatch(j)
    <3> DEFINE S == {j}
    <3>1. S \in SUBSET jobs /\ jobs' = (jobs \ S) \cup {Begin(k) : k \in S}
      BY <2>4 DEF Dispatch
    <3> HIDE DEF S
    <3> QED BY <3>1, BeginFollows
  <2>5. CASE Accept(j)
    <3>1. broker'[j.event] > 0
      BY <2>5 DEF Accept, HandInv, TypeOK, Job
    <3> QED BY <2>5, <3>1, MoveFollows DEF Accept
  <2>6. CASE PublishOk(j) \/ PublishFail(j)
    BY <2>6, MoveFollows, QueryIs DEF PublishOk, PublishFail, Told
  <2>7. ASSUME NEW o \in Outcome, MarkPublished(j, o) PROVE \A x \in jobs' : Follows(x)
    BY <2>7, <1>1, MoveFollows, QueryIs DEF MarkPublished, Told
  <2>8. ASSUME NEW o \in Outcome, MarkDead(j, o) \/ \E d \in Delays(j.attempts + 1) : Reschedule(j, d, o)
        PROVE  \A x \in jobs' : Follows(x)
    BY <2>8, SettleFollows DEF MarkDead, Reschedule
  <2>9. CASE Reject(j)
    BY <2>9, SettleFollows DEF Reject
  <2> QED BY <1>4, <2>1, <2>2, <2>3, <2>4, <2>5, <2>6, <2>7, <2>8, <2>9 DEF Step
<1>5. ASSUME NEW i \in Instance, Lifecycle(i) PROVE \A x \in jobs' : Follows(x)
  BY <1>5, <1>1 DEF Lifecycle, Crash, Restart, Shutdown, PoolEnded, ShutdownDone
<1>6. CASE Tick \/ UNCHANGED vars
  BY <1>6, <1>1 DEF Tick, vars
<1> QED BY <1>2, <1>3, <1>4, <1>5, <1>6 DEF Next

LEMMA HandNext == HandInv /\ [Next]_vars => HandInv'
<1> SUFFICES ASSUME HandInv, [Next]_vars PROVE HandInv'
  OBVIOUS
<1>1. TypeOK /\ TypeOK'
  BY TypeStep DEF HandInv
<1>2. \A e \in Event : broker'[e] >= broker[e]
  BY <1>1, BrokerStep DEF TypeOK
<1> QED BY <1>1, <1>2, DutyStep, JobsFollow, HandJobs

LEMMA HandInit == Init => HandInv
  BY TypeInit DEF Init, HandInv, Committed, Confirmed

\* The outbox implements Handoff: a committed mail is owed until its row is
\* settled, it is reported published only after RabbitMQ took it, and no settled
\* row comes back, for any number of instances and events, any lease, batch and
\* backoff, through crashes, shutdowns and failed calls.
THEOREM HandsOn == Spec => OutboxHandsOn
<1>1. Init => Handed!Init
  <2>1. DutyOf(Absent) = "none"
    BY DEF DutyOf, Absent, Live
  <2> QED BY <2>1 DEF Init, Handed!Init
<1>2. HandInv /\ [Next]_vars => [Handed!Next]_<<[e \in Event |-> DutyOf(row[e])], broker>>
  <2> SUFFICES ASSUME HandInv, [Next]_vars PROVE Handed!Next
    OBVIOUS
  <2>1. broker \in [Event -> Nat] /\ broker' \in [Event -> Nat]
    BY TypeStep DEF HandInv, TypeOK
  <2>2. ASSUME NEW e \in Event PROVE Handed!ItemStep(e)
    <3>1. Handed!HandOn(e)
      <4>1. row[e].status # "absent" => DutyOf(row[e]) # "none"
        BY DEF DutyOf, Live, HandInv, TypeOK, RowsOK, GoodRow, Row, Status
      <4> QED BY <4>1, BrokerStep DEF Handed!HandOn
    <3>2. DutyMove(DutyOf(row[e]), DutyOf(row'[e]), broker[e])
      BY DutyStep DEF DutiesMove
    <3> QED BY <3>1, <3>2 DEF DutyMove, Handed!ItemStep, Handed!Becomes, Handed!Take,
                              Handed!TakeAgain, Handed!Discharge, Handed!Drop
  <2> QED BY <2>1, <2>2 DEF Handed!Next
<1> QED BY <1>1, <1>2, HandInit, HandNext, PTL DEF Spec, OutboxHandsOn, Handed!Spec

------------------------------------------------------------------------------
(* The payload *)

\* A job claims a row only while the row is live and so has its payload; that is
\* the payload a reschedule puts back.
GoodPayload(r) == r.payload <=> r.status \in Live
PayloadInv == TypeOK /\ PayloadKept /\ \A j \in jobs : j.valid

LEMMA RowPayloads ==
    ASSUME NEW r \in Row, GoodPayload(r), NEW j, j.valid, NEW d
    PROVE  /\ GoodPayload(Dead(r)) /\ GoodPayload(Published(r)) /\ GoodPayload(NewRow)
           /\ Claimable(r) => r.payload /\ GoodPayload(Leased(r))
           /\ GoodPayload(Rescheduled(r, j, d))
<1> USE DEF GoodPayload, Live
<1>1. GoodPayload(Dead(r))
  BY DEF Dead, Row
<1>2. GoodPayload(Published(r))
  BY DEF Published, Row
<1>3. GoodPayload(NewRow)
  BY DEF NewRow
<1>4. Claimable(r) => r.payload
  BY DEF Claimable
<1>5. Claimable(r) => GoodPayload(Leased(r))
  BY <1>4 DEF Leased, Row
<1>6. GoodPayload(Rescheduled(r, j, d))
  <2> DEFINE expired == now + d >= r.expiresAt
             s == [r EXCEPT !.status = IF expired THEN "dead" ELSE "pending",
                            !.payload = ~expired /\ j.valid,
                            !.attempts = j.attempts + 1,
                            !.availableAt = now + d,
                            !.lockedUntil = 0]
  <2>1. s.payload = (~expired /\ j.valid)
    BY DEF Row
  <2>2. s.status = IF expired THEN "dead" ELSE "pending"
    BY DEF Row
  <2>3. GoodPayload(s)
    <3> HIDE DEF s, expired
    <3> QED BY <2>1, <2>2
  <2>4. r.status = "processing" => Rescheduled(r, j, d) = s
    BY DEF Rescheduled
  <2>5. r.status # "processing" => Rescheduled(r, j, d) = r
    BY DEF Rescheduled
  <2> HIDE DEF s
  <2> QED BY <2>3, <2>4, <2>5
<1> QED BY <1>1, <1>2, <1>3, <1>4, <1>5, <1>6

PayloadNext == PayloadKept' /\ \A x \in jobs' : x.valid

\* Jobs that only move keep what they claimed.
LEMMA ValidJobs ==
    ASSUME PayloadInv
    PROVE  /\ \A j \in jobs : \A pc : Move(j, pc) => \A x \in jobs' : x.valid
           /\ \A j \in jobs : \A o : Settle(j, o) => \A x \in jobs' : x.valid
           /\ \A j \in jobs : Begin(j).valid
<1>1. \A j \in jobs : \A pc : [j EXCEPT !.pc = pc].valid
  BY DEF PayloadInv, TypeOK, Job
<1>2. \A j \in jobs : [j EXCEPT !.kind = "detached"].valid
  BY DEF PayloadInv, TypeOK, Job
<1>3. ASSUME NEW j \in jobs, NEW o, Settle(j, o) PROVE \A x \in jobs' : x.valid
  <2>1. \A x \in jobs' : x \in jobs \/ \E y \in jobs : x = [y EXCEPT !.kind = "detached"]
    BY <1>3 DEF Settle, Detached, PollJobs
  <2> QED BY <2>1, <1>2 DEF PayloadInv
<1>4. \A j \in jobs : \A pc : Move(j, pc) => \A x \in jobs' : x.valid
  BY <1>1 DEF Move, PayloadInv
<1> QED BY <1>1, <1>3, <1>4 DEF Begin

LEMMA PayloadStep ==
    ASSUME PayloadInv, NEW j \in jobs, Step(j)
    PROVE  PayloadNext
<1>0. /\ row \in [Event -> Row] /\ j.event \in Event /\ j.valid
      /\ \A e \in Event : row[e] \in Row /\ GoodPayload(row[e])
      /\ \A x \in jobs : x.valid
  BY DEF PayloadInv, TypeOK, RowsOK, GoodRow, Job, PayloadKept, GoodPayload
<1>1. ASSUME row' = row PROVE PayloadKept'
  BY <1>1 DEF PayloadInv, PayloadKept
<1>2. ASSUME NEW r, GoodPayload(r), row' = [row EXCEPT ![j.event] = r] PROVE PayloadKept'
  BY <1>0, <1>2 DEF PayloadKept, GoodPayload
<1>3. CASE NowStart(j) \/ Accept(j) \/ PublishOk(j) \/ PublishFail(j)
  BY <1>0, <1>1, <1>3, ValidJobs
     DEF NowStart, Accept, PublishOk, PublishFail, PayloadNext
<1>4. CASE Dispatch(j)
  BY <1>0, <1>1, <1>4, ValidJobs DEF Dispatch, PayloadNext
<1>5. ASSUME NEW o \in Outcome, NowExpire(j, o) PROVE PayloadNext
  <2>1. PayloadKept'
    BY <1>0, <1>5, RowPayloads DEF NowExpire, Expire, PayloadKept, GoodPayload
  <2> QED BY <1>0, <1>5, <2>1, ValidJobs DEF NowExpire, PayloadNext
<1>6. ASSUME NEW o \in Outcome, NowClaim(j, o) PROVE PayloadNext
  <2>1. PayloadKept'
    BY <1>0, <1>6, RowPayloads DEF NowClaim, Claim, PayloadKept, GoodPayload
  <2>2. Claimable(row[j.event]) => ClaimedJob(j.inst, j.event, "now", "leased").valid
    BY <1>0, RowPayloads DEF ClaimedJob
  <2> QED BY <1>0, <1>6, <2>1, <2>2 DEF NowClaim, PayloadNext
<1>7. ASSUME NEW o \in Outcome, MarkDead(j, o) PROVE PayloadNext
  <2>1. PayloadKept'
    BY <1>0, <1>2, <1>7, RowPayloads DEF MarkDead
  <2> QED BY <1>7, <2>1, ValidJobs DEF MarkDead, PayloadNext
<1>8. ASSUME NEW o \in Outcome, MarkPublished(j, o) PROVE PayloadNext
  <2>1. PayloadKept'
    BY <1>0, <1>2, <1>8, RowPayloads DEF MarkPublished
  <2> QED BY <1>0, <1>8, <2>1, ValidJobs DEF MarkPublished, PayloadNext
<1>9. ASSUME NEW d, NEW o \in Outcome, Reschedule(j, d, o) PROVE PayloadNext
  <2>1. PayloadKept'
    BY <1>0, <1>2, <1>9, RowPayloads DEF Reschedule
  <2> QED BY <1>9, <2>1, ValidJobs DEF Reschedule, PayloadNext
<1>10. CASE Reject(j)
  BY <1>1, <1>10, ValidJobs DEF Reject, PayloadNext
<1> QED BY <1>3, <1>4, <1>5, <1>6, <1>7, <1>8, <1>9, <1>10 DEF Step

LEMMA PayloadPoller ==
    ASSUME PayloadInv, NEW i \in Instance, Poller(i)
    PROVE  PayloadNext
<1>0. /\ \A e \in Event : row[e] \in Row /\ GoodPayload(row[e])
      /\ \A x \in jobs : x.valid
  BY DEF PayloadInv, TypeOK, RowsOK, GoodRow, PayloadKept, GoodPayload
<1>1. ASSUME row' = row PROVE PayloadKept'
  BY <1>1 DEF PayloadInv, PayloadKept
<1>2. CASE PollStart(i) \/ PollDone(i)
  BY <1>0, <1>1, <1>2 DEF PollStart, PollDone, PayloadNext
<1>3. ASSUME NEW o \in Outcome, PollExpire(i, o) PROVE PayloadNext
  <2>1. \A e \in Event : GoodPayload(Dead(row[e]))
    BY <1>0 DEF GoodPayload, Dead, Row, Live
  <2>2. PayloadKept'
    BY <1>0, <1>3, <2>1 DEF PollExpire, Expire, PayloadKept, GoodPayload
  <2> QED BY <1>0, <1>3, <2>2 DEF PollExpire, PayloadNext
<1>4. ASSUME NEW S \in SUBSET Event, NEW o \in Outcome, PollClaim(i, S, o)
      PROVE  PayloadNext
  <2>1. \A e \in S : row[e].payload /\ GoodPayload(Leased(row[e]))
    BY <1>0, <1>4 DEF PollClaim, OldestClaimable, Claimable, GoodPayload, Leased, Row, Live
  <2>2. PayloadKept'
    BY <1>0, <1>4, <2>1 DEF PollClaim, Claim, PayloadKept, GoodPayload
  <2>3. \A e \in S : ClaimedJob(i, e, "poll", "queued").valid
    BY <2>1 DEF ClaimedJob
  <2> QED BY <1>0, <1>4, <2>2, <2>3 DEF PollClaim, PayloadNext
<1>5. ASSUME NEW S \in SUBSET jobs, PollSlice(i, S) PROVE PayloadNext
  BY <1>0, <1>1, <1>5, ValidJobs DEF PollSlice, PayloadNext
<1> QED BY <1>2, <1>3, <1>4, <1>5 DEF Poller

LEMMA PayloadInvNext == PayloadInv /\ [Next]_vars => PayloadInv'
<1> SUFFICES ASSUME PayloadInv, [Next]_vars PROVE PayloadNext
  BY TypeStep DEF PayloadInv, PayloadNext
<1>1. ASSUME row' = row, jobs' \subseteq jobs PROVE PayloadNext
  BY <1>1 DEF PayloadInv, PayloadKept, PayloadNext
<1>2. ASSUME NEW i \in Instance, NEW e \in Event, Create(i, e) PROVE PayloadNext
  <2>1. GoodPayload(NewRow)
    BY DEF GoodPayload, NewRow, Live
  <2>2. PayloadKept'
    BY <1>2, <2>1 DEF Create, PayloadInv, PayloadKept, GoodPayload, TypeOK, RowsOK
  <2> QED BY <1>2, <2>2 DEF Create, PayloadInv, PayloadNext
<1>3. ASSUME NEW i \in Instance, Lifecycle(i) PROVE PayloadNext
  BY <1>1, <1>3 DEF Lifecycle, Crash, Restart, Shutdown, PoolEnded, ShutdownDone
<1>4. CASE Tick \/ UNCHANGED vars
  BY <1>1, <1>4 DEF Tick, vars
<1> QED BY <1>2, <1>3, <1>4, PayloadStep, PayloadPoller DEF Next

\* No live row ever loses its mail and no settled row keeps the link, whichever
\* workers, late or not, settle and reschedule it.
THEOREM PayloadSafe == Spec => []PayloadKept
<1>1. Init => PayloadInv
  BY TypeInit DEF Init, PayloadInv, PayloadKept, Absent, Live
<1>2. PayloadInv => PayloadKept
  BY DEF PayloadInv
<1> QED BY <1>1, <1>2, PayloadInvNext, PTL DEF Spec

------------------------------------------------------------------------------
(* Deaths *)

\* A job that is about to bury its event decided so because the event has expired:
\* no job ever holds an invalid payload, and the expiry of a row does not move.
Due(x) == x.pc = "killing" => row[x.event].expiresAt <= now
ExpiryInv == PayloadInv /\ HandInv /\ \A x \in jobs : Due(x)
ExpiryStays ==
    \A e \in Event : row[e].status # "absent" => row'[e].expiresAt = row[e].expiresAt

LEMMA RowExpiry ==
    ASSUME NEW r \in Row
    PROVE  /\ Dead(r).expiresAt = r.expiresAt /\ Published(r).expiresAt = r.expiresAt
           /\ Leased(r).expiresAt = r.expiresAt
           /\ \A j, d : Rescheduled(r, j, d).expiresAt = r.expiresAt
<1>1. Dead(r).expiresAt = r.expiresAt
  BY DEF Dead, Row
<1>2. Published(r).expiresAt = r.expiresAt
  BY DEF Published, Row
<1>3. Leased(r).expiresAt = r.expiresAt
  BY DEF Leased, Row
<1>4. ASSUME NEW j, NEW d PROVE Rescheduled(r, j, d).expiresAt = r.expiresAt
  <2>1. CASE r.status # "processing"
    BY <2>1 DEF Rescheduled
  <2>2. CASE r.status = "processing"
    BY <2>2 DEF Rescheduled, Row
  <2> QED BY <2>1, <2>2
<1> QED BY <1>1, <1>2, <1>3, <1>4

LEMMA ExpiryStep == TypeOK /\ [Next]_vars => ExpiryStays
<1> SUFFICES ASSUME TypeOK, [Next]_vars PROVE ExpiryStays
  OBVIOUS
<1>0. row \in [Event -> Row] /\ \A j \in jobs : j.event \in Event
  BY DEF TypeOK, RowsOK, Job
<1>1. ASSUME row' = row PROVE ExpiryStays
  BY <1>1 DEF ExpiryStays
<1>2. ASSUME NEW x \in Event, NEW r, row' = [row EXCEPT ![x] = r],
             row[x].status # "absent" => r.expiresAt = row[x].expiresAt
      PROVE  ExpiryStays
  BY <1>0, <1>2 DEF ExpiryStays
<1>3. ASSUME NEW S, NEW o, Expire(S, o) \/ Claim(S, o) PROVE ExpiryStays
  BY <1>0, <1>3, RowExpiry DEF Expire, Claim, ExpiryStays
<1>4. ASSUME NEW i \in Instance, NEW x \in Event, Create(i, x) PROVE ExpiryStays
  BY <1>2, <1>4 DEF Create
<1>5. ASSUME NEW i \in Instance, Poller(i) PROVE ExpiryStays
  BY <1>1, <1>3, <1>5 DEF Poller, PollStart, PollExpire, PollClaim, PollSlice, PollDone
<1>6. ASSUME NEW j \in jobs, Step(j) PROVE ExpiryStays
  <2>1. CASE \/ NowStart(j) \/ Dispatch(j) \/ Accept(j) \/ PublishOk(j)
             \/ PublishFail(j) \/ Reject(j)
    BY <2>1, <1>1 DEF NowStart, Dispatch, Accept, PublishOk, PublishFail, Reject
  <2>2. ASSUME NEW o \in Outcome, NowExpire(j, o) \/ NowClaim(j, o) PROVE ExpiryStays
    BY <2>2, <1>3 DEF NowExpire, NowClaim
  <2>3. ASSUME NEW o \in Outcome, MarkDead(j, o) PROVE ExpiryStays
    BY <1>0, <1>2, <2>3, RowExpiry DEF MarkDead
  <2>4. ASSUME NEW o \in Outcome, MarkPublished(j, o) PROVE ExpiryStays
    BY <1>0, <1>2, <2>4, RowExpiry DEF MarkPublished
  <2>5. ASSUME NEW d \in Delays(j.attempts + 1), NEW o \in Outcome, Reschedule(j, d, o)
        PROVE  ExpiryStays
    <3> DEFINE r == IF Applied(o) THEN Rescheduled(row[j.event], j, d) ELSE row[j.event]
    <3>1. row' = [row EXCEPT ![j.event] = r]
      BY <2>5 DEF Reschedule
    <3>2. r.expiresAt = row[j.event].expiresAt
      BY <1>0, RowExpiry
    <3> HIDE DEF r
    <3> QED BY <1>0, <1>2, <3>1, <3>2
  <2> QED BY <1>6, <2>1, <2>2, <2>3, <2>4, <2>5 DEF Step
<1>7. ASSUME NEW i \in Instance, Lifecycle(i) PROVE ExpiryStays
  BY <1>7, <1>1 DEF Lifecycle, Crash, Restart, Shutdown, PoolEnded, ShutdownDone
<1>8. CASE Tick \/ UNCHANGED vars
  BY <1>8, <1>1 DEF Tick, vars
<1> QED BY <1>4, <1>5, <1>6, <1>7, <1>8 DEF Next

\* A job that buries after a step did so before it, or has just found its event
\* expired.
Doomed(x) ==
    x.pc = "killing" => \E y \in jobs : /\ y.event = x.event
                                        /\ y.pc = "killing" \/ row[y.event].expiresAt <= now

LEMMA DoomedJobs ==
    ASSUME ExpiryInv
    PROVE  /\ \A x \in jobs : Doomed(x)
           /\ \A j \in jobs : \A pc : pc # "killing" /\ Move(j, pc) => \A x \in jobs' : Doomed(x)
           /\ \A j \in jobs : \A o : Settle(j, o) => \A x \in jobs' : Doomed(x)
           /\ \A j \in jobs : Doomed(Begin(j))
<1>0. jobs \subseteq Job
  BY DEF ExpiryInv, HandInv, TypeOK
<1>1. \A x \in jobs : Doomed(x)
  BY DEF Doomed
<1>2. \A j \in jobs : Doomed(Begin(j))
  <2> TAKE j \in jobs
  <2>1. j.valid
    BY DEF ExpiryInv, PayloadInv
  <2>2. Begin(j).event = j.event
        /\ (Begin(j).pc = "killing" => row[j.event].expiresAt <= now)
    BY <1>0, <2>1 DEF Begin, Query, Job
  <2> QED BY <2>2 DEF Doomed
<1>3. ASSUME NEW j \in jobs, NEW pc, pc # "killing", Move(j, pc)
      PROVE  \A x \in jobs' : Doomed(x)
  <2>1. [j EXCEPT !.pc = pc].pc = pc
    BY <1>0 DEF Job
  <2> QED BY <1>1, <1>3, <2>1 DEF Move, Doomed
<1>4. ASSUME NEW j \in jobs, NEW o, Settle(j, o) PROVE \A x \in jobs' : Doomed(x)
  <2> DEFINE g(y) == [y EXCEPT !.kind = "detached"]
  <2>1. \A y \in jobs : g(y).event = y.event /\ g(y).pc = y.pc
    BY <1>0 DEF Job
  <2>2. \A x \in jobs' : x \in jobs \/ \E y \in jobs : x = g(y)
    BY <1>4 DEF Settle, Detached, PollJobs
  <2> HIDE DEF g
  <2> QED BY <2>1, <2>2 DEF Doomed
<1> QED BY <1>1, <1>2, <1>3, <1>4

LEMMA DoomedStep == ExpiryInv /\ [Next]_vars => \A x \in jobs' : Doomed(x)
<1> SUFFICES ASSUME ExpiryInv, [Next]_vars PROVE \A x \in jobs' : Doomed(x)
  OBVIOUS
<1>1. ASSUME \A x \in jobs' : x \in jobs \/ x.pc # "killing"
      PROVE  \A x \in jobs' : Doomed(x)
  BY <1>1, DoomedJobs DEF Doomed
<1>2. ASSUME NEW i \in Instance, NEW e \in Event, Create(i, e) PROVE \A x \in jobs' : Doomed(x)
  BY <1>1, <1>2 DEF Create
<1>3. ASSUME NEW i \in Instance, Poller(i) PROVE \A x \in jobs' : Doomed(x)
  <2>1. CASE PollStart(i) \/ PollDone(i) \/ \E o \in Outcome : PollExpire(i, o)
    BY <1>1, <2>1 DEF PollStart, PollDone, PollExpire
  <2>2. ASSUME NEW S \in SUBSET Event, NEW o \in Outcome, PollClaim(i, S, o)
        PROVE  \A x \in jobs' : Doomed(x)
    BY <1>1, <2>2 DEF PollClaim, ClaimedJob
  <2>3. ASSUME NEW S \in SUBSET jobs, PollSlice(i, S) PROVE \A x \in jobs' : Doomed(x)
    BY <2>3, DoomedJobs DEF PollSlice
  <2> QED BY <1>3, <2>1, <2>2, <2>3 DEF Poller
<1>4. ASSUME NEW j \in jobs, Step(j) PROVE \A x \in jobs' : Doomed(x)
  <2>1. CASE NowStart(j)
    BY <2>1, DoomedJobs DEF NowStart
  <2>2. CASE Accept(j) \/ PublishOk(j) \/ PublishFail(j)
    BY <2>2, DoomedJobs, QueryIs DEF Accept, PublishOk, PublishFail
  <2>3. CASE Dispatch(j)
    BY <2>3, DoomedJobs DEF Dispatch
  <2>4. ASSUME NEW o \in Outcome, NowExpire(j, o) PROVE \A x \in jobs' : Doomed(x)
    BY <2>4, DoomedJobs DEF NowExpire
  <2>5. ASSUME NEW o \in Outcome, NowClaim(j, o) PROVE \A x \in jobs' : Doomed(x)
    BY <1>1, <2>5 DEF NowClaim, ClaimedJob
  <2>6. ASSUME NEW o \in Outcome, MarkDead(j, o) PROVE \A x \in jobs' : Doomed(x)
    BY <2>6, DoomedJobs DEF MarkDead
  <2>7. ASSUME NEW o \in Outcome, MarkPublished(j, o) PROVE \A x \in jobs' : Doomed(x)
    BY <2>7, DoomedJobs, QueryIs DEF MarkPublished
  <2>8. ASSUME NEW d, NEW o \in Outcome, Reschedule(j, d, o) PROVE \A x \in jobs' : Doomed(x)
    BY <2>8, DoomedJobs DEF Reschedule
  <2>9. CASE Reject(j)
    BY <2>9, DoomedJobs DEF Reject
  <2> QED BY <1>4, <2>1, <2>2, <2>3, <2>4, <2>5, <2>6, <2>7, <2>8, <2>9 DEF Step
<1>5. ASSUME NEW i \in Instance, Lifecycle(i) PROVE \A x \in jobs' : Doomed(x)
  BY <1>1, <1>5 DEF Lifecycle, Crash, Restart, Shutdown, PoolEnded, ShutdownDone
<1>6. CASE Tick \/ UNCHANGED vars
  BY <1>1, <1>6 DEF Tick, vars
<1> QED BY <1>2, <1>3, <1>4, <1>5, <1>6 DEF Next

LEMMA ExpiryInvNext == ExpiryInv /\ [Next]_vars => ExpiryInv'
<1> SUFFICES ASSUME ExpiryInv, [Next]_vars PROVE ExpiryInv'
  OBVIOUS
<1>1. PayloadInv' /\ HandInv' /\ ExpiryStays
  BY PayloadInvNext, HandNext, ExpiryStep DEF ExpiryInv, HandInv
<1>2. now \in Nat /\ now' \in Nat /\ now' >= now
  <2>1. now' = now \/ now' = now + 1
    BY DEF Next, vars, Create, Poller, PollStart, PollExpire, PollClaim, PollSlice, PollDone,
           Step, NowStart, NowExpire, NowClaim, Dispatch, MarkDead, Accept, PublishOk,
           PublishFail, MarkPublished, Reschedule, Reject, Lifecycle, Crash, Restart,
           Shutdown, PoolEnded, ShutdownDone, Tick
  <2> QED BY <2>1 DEF ExpiryInv, HandInv, TypeOK
<1>3. ASSUME NEW x \in jobs', x.pc = "killing" PROVE row'[x.event].expiresAt <= now'
  <2>1. PICK y \in jobs : /\ y.event = x.event
                          /\ y.pc = "killing" \/ row[y.event].expiresAt <= now
    BY <1>3, DoomedStep DEF Doomed
  <2>2. row[x.event].expiresAt <= now
    BY <2>1 DEF ExpiryInv, Due
  <2>3. x.event \in Event /\ row[x.event].status # "absent" /\ row[x.event].expiresAt \in Nat
    BY <2>1 DEF ExpiryInv, HandInv, Committed, TypeOK, RowsOK, Row, Job
  <2> QED BY <1>1, <1>2, <2>2, <2>3 DEF ExpiryStays
<1> QED BY <1>1, <1>3 DEF ExpiryInv, Due

\* An event dies only once it has expired, or when its next retry would come too
\* late, whichever of the three statements that write "dead" it was.
THEOREM OnlyExpiredDie == Spec => DiesOnlyAtExpiry
<1>1. Init => ExpiryInv
  BY TypeInit, HandInit DEF Init, ExpiryInv, PayloadInv, PayloadKept, Absent, Live
<1>2. ExpiryInv /\ [Next]_vars => [\A e \in Event : GivenUpInTime(row[e], row'[e])]_vars
  <2> SUFFICES ASSUME ExpiryInv, Next, NEW e \in Event,
                      row[e].status \in Live, row'[e].status = "dead"
               PROVE  \/ row[e].expiresAt <= now
                      \/ /\ row'[e].attempts > 0
                         /\ \E d \in Delays(row'[e].attempts) : now + d >= row[e].expiresAt
    BY DEF GivenUpInTime
  <2>0. /\ TypeOK /\ row \in [Event -> Row] /\ row[e].status # "dead"
        /\ \A j \in jobs : j.event \in Event /\ j.attempts \in Nat /\ Due(j)
    BY DEF ExpiryInv, HandInv, TypeOK, RowsOK, Job, Live
  <2>1. row'[e] # row[e]
    BY <2>0
  <2>2. ASSUME NEW S, NEW o, Expire(S, o) PROVE row[e].expiresAt <= now
    BY <2>1, <2>2 DEF Expire, Expirable
  <2>3. ASSUME NEW S, NEW o, Claim(S, o) PROVE FALSE
    BY <2>0, <2>1, <2>3 DEF Claim, Leased, Row
  <2>4. ASSUME NEW i \in Instance, NEW x \in Event, Create(i, x) PROVE FALSE
    BY <2>0, <2>1, <2>4 DEF Create, NewRow
  <2>5. ASSUME NEW i \in Instance, Poller(i) PROVE row[e].expiresAt <= now
    BY <2>1, <2>2, <2>3, <2>5
       DEF Poller, PollStart, PollExpire, PollClaim, PollSlice, PollDone
  <2>6. ASSUME NEW i \in Instance, Lifecycle(i) PROVE FALSE
    BY <2>1, <2>6 DEF Lifecycle, Crash, Restart, Shutdown, PoolEnded, ShutdownDone
  <2>7. ~Tick
    BY <2>1 DEF Tick
  <2>8. ASSUME NEW j \in jobs, NEW o \in Outcome, MarkDead(j, o)
        PROVE  row[e].expiresAt <= now
    BY <2>0, <2>1, <2>8 DEF MarkDead, Due
  <2>9. ASSUME NEW j \in jobs, NEW o \in Outcome, MarkPublished(j, o) PROVE FALSE
    BY <2>0, <2>1, <2>9 DEF MarkPublished, Published, Row
  <2>10. ASSUME NEW j \in jobs, NEW d \in Delays(j.attempts + 1), NEW o \in Outcome,
                Reschedule(j, d, o)
         PROVE  /\ row'[e].attempts > 0
                /\ \E x \in Delays(row'[e].attempts) : now + x >= row[e].expiresAt
    <3>1. j.event = e /\ row'[e] = Rescheduled(row[e], j, d) /\ j.attempts \in Nat
      BY <2>0, <2>1, <2>10 DEF Reschedule
    <3>2. row[e].status = "processing"
      BY <2>1, <3>1 DEF Rescheduled
    <3>3. row'[e].attempts = j.attempts + 1
      BY <2>0, <3>1, <3>2 DEF Rescheduled, Row
    <3>4. now + d >= row[e].expiresAt
      <4>1. row'[e].status = IF now + d >= row[e].expiresAt THEN "dead" ELSE "pending"
        BY <2>0, <3>1, <3>2 DEF Rescheduled, Row
      <4> QED BY <4>1
    <3> QED BY <3>1, <3>3, <3>4
  <2>11. ASSUME NEW j \in jobs,
                \/ NowStart(j) \/ Dispatch(j) \/ Accept(j) \/ PublishOk(j)
                \/ PublishFail(j) \/ Reject(j)
         PROVE  FALSE
    BY <2>1, <2>11 DEF NowStart, Dispatch, Accept, PublishOk, PublishFail, Reject
  <2>12. ASSUME NEW j \in jobs, NEW o \in Outcome, NowExpire(j, o) \/ NowClaim(j, o)
         PROVE  row[e].expiresAt <= now
    BY <2>2, <2>3, <2>12 DEF NowExpire, NowClaim
  <2> QED BY <2>4, <2>5, <2>6, <2>7, <2>8, <2>9, <2>10, <2>11, <2>12 DEF Next, Step
<1> QED BY <1>1, <1>2, ExpiryInvNext, PTL DEF Spec, DiesOnlyAtExpiry

------------------------------------------------------------------------------
(* Workers *)

Working(x) == x.pc \notin Unclaimed
WorksOn(x, e) == x.event = e /\ Working(x)

\* The jobs that RabbitMQ may have answered.
MayKnow == Told \cup {"cut"}

\* The row of an event that nothing went wrong with, the job that works on it and
\* the copies of RabbitMQ go together: there is one job exactly while the row is in
\* processing (it may live on when the row expires under it), and RabbitMQ has a
\* copy only while that job knows it or after the row is settled.
OneWorker(e) == \A x, y \in jobs : WorksOn(x, e) /\ WorksOn(y, e) => x = y
NoWorker(e) == \A x \in jobs : ~WorksOn(x, e)
CleanRow(e) ==
    /\ OneWorker(e)
    /\ row[e].status = "processing" => ~NoWorker(e)
    /\ row[e].status \in {"absent", "pending"} => NoWorker(e) /\ broker[e] = 0
    /\ \A x \in jobs : WorksOn(x, e) /\ x.pc \notin MayKnow => broker[e] = 0
    /\ broker[e] <= 1
CleanRows == \A e \in Event : e \notin doubt => CleanRow(e)

\* An instance that is down or stopped has no work left, and a slice that has not
\* started belongs to a poll that still runs.
RestsOf(i) ==
    inst[i].mode \in {"stopped", "down"} =>
        inst[i].poll = "idle" /\ \A x \in jobs : x.inst = i => x.pc = "created"
QueuedInPoll(x) == x.pc = "queued" => x.kind = "poll" /\ inst[x.inst].poll = "drain"
Resting == (\A i \in Instance : RestsOf(i)) /\ \A x \in jobs : QueuedInPoll(x)
CleanInv == TypeOK /\ CleanRows /\ Resting

\* A step that leaves the worker of e in place: the workers after it are the images
\* of those before it and know no less of RabbitMQ.
Carries(f, e) ==
    /\ \A x \in jobs' : WorksOn(x, e) =>
         \E y \in jobs : WorksOn(y, e) /\ x = f[y] /\ (x.pc \notin MayKnow => y.pc \notin MayKnow)
    /\ \A y \in jobs : WorksOn(y, e) => \E x \in jobs' : WorksOn(x, e)
Carry(e) == \E f : Carries(f, e)

\* What the statements of a step that makes no claim do to the status of a row.
StatusKept(r, s) == s.status = r.status \/ Settled(s)

LEMMA CarryClean ==
    ASSUME NEW e \in Event, CleanRow(e), Carry(e), broker'[e] = broker[e],
           StatusKept(row[e], row'[e])
    PROVE  CleanRow(e)'
<1>1. PICK f : Carries(f, e)
  BY DEF Carry
<1>2. OneWorker(e)'
  <2> SUFFICES ASSUME NEW x \in jobs', NEW z \in jobs', WorksOn(x, e), WorksOn(z, e)
               PROVE  x = z
    BY DEF OneWorker, WorksOn, Working
  <2>1. PICK y \in jobs : WorksOn(y, e) /\ x = f[y]
    BY <1>1 DEF Carries
  <2>2. PICK w \in jobs : WorksOn(w, e) /\ z = f[w]
    BY <1>1 DEF Carries
  <2> QED BY <2>1, <2>2 DEF CleanRow, OneWorker
<1>3. NoWorker(e) <=> NoWorker(e)'
  BY <1>1 DEF NoWorker, Carries, WorksOn, Working
<1>4. \A x \in jobs' : WorksOn(x, e) /\ x.pc \notin MayKnow => broker[e] = 0
  BY <1>1 DEF Carries, CleanRow
<1>5. row'[e].status \in {"processing", "absent", "pending"} => row'[e].status = row[e].status
  BY DEF StatusKept, Settled
<1> QED BY <1>2, <1>3, <1>4, <1>5 DEF CleanRow, WorksOn, Working

LEMMA GoneClean ==
    ASSUME NEW e \in Event, CleanRow(e), NoWorker(e)', broker'[e] = broker[e],
           row'[e].status # "processing",
           row'[e].status \in {"absent", "pending"} => broker[e] = 0
    PROVE  CleanRow(e)'
  BY DEF CleanRow, OneWorker, NoWorker

LEMMA TakenClean ==
    ASSUME NEW e \in Event, CleanRow(e), row[e].status = "pending",
           row'[e].status = "processing", broker'[e] = broker[e],
           NEW c \in jobs', WorksOn(c, e), \A x \in jobs' : WorksOn(x, e) => x = c
    PROVE  CleanRow(e)'
  BY DEF CleanRow, OneWorker, NoWorker, WorksOn, Working

\* The steps of jobs and the workers of e.
LEMMA SameCarry ==
    ASSUME NEW e \in Event,
           \A x \in jobs' : WorksOn(x, e) => x \in jobs,
           \A x \in jobs : WorksOn(x, e) => x \in jobs'
    PROVE  Carry(e)
<1>1. Carries([y \in jobs |-> y], e)
  BY DEF Carries
<1> QED BY <1>1 DEF Carry

LEMMA MoveCarry ==
    ASSUME NEW e \in Event, jobs \subseteq Job, NEW j \in jobs, NEW pc \in Pc, Move(j, pc),
           pc \in Unclaimed <=> j.pc \in Unclaimed,
           j.event = e /\ pc \notin MayKnow => j.pc \notin MayKnow
    PROVE  Carry(e)
<1> DEFINE h == [j EXCEPT !.pc = pc]
           f == [y \in jobs |-> IF y = j THEN h ELSE y]
<1>1. h.pc = pc /\ h.event = j.event
  BY DEF Job
<1>2. \A x \in jobs' : x = h \/ (x \in jobs /\ x # j)
  BY DEF Move
<1>3. h \in jobs' /\ \A x \in jobs : x # j => x \in jobs'
  BY DEF Move
<1>4. WorksOn(h, e) <=> WorksOn(j, e)
  BY <1>1 DEF WorksOn, Working
<1>5. WorksOn(h, e) /\ h.pc \notin MayKnow => j.pc \notin MayKnow
  BY <1>1 DEF WorksOn
<1>6. f[j] = h /\ \A y \in jobs : y # j => f[y] = y
  OBVIOUS
<1>7. Carries(f, e)
  <2> HIDE DEF f, h
  <2> QED BY <1>2, <1>3, <1>4, <1>5, <1>6 DEF Carries
<1> QED BY <1>7 DEF Carry

LEMMA BeginCarry ==
    ASSUME NEW e \in Event, jobs \subseteq Job, NEW S \in SUBSET jobs,
           \A j \in S : j.pc \in {"leased", "queued"},
           jobs' = (jobs \ S) \cup {Begin(j) : j \in S}
    PROVE  Carry(e)
<1> DEFINE f == [y \in jobs |-> IF y \in S THEN Begin(y) ELSE y]
<1>1. \A y \in S : /\ Begin(y).event = y.event /\ Working(y) /\ Working(Begin(y))
                   /\ y.pc \notin MayKnow
  BY DEF Begin, Query, Job, Working, Unclaimed, MayKnow, Told
<1>2. \A y \in S : f[y] = Begin(y) /\ f[y] \in jobs'
  OBVIOUS
<1>3. \A y \in jobs \ S : f[y] = y /\ f[y] \in jobs'
  OBVIOUS
<1>4. \A x \in jobs' : \E y \in jobs : x = f[y]
  BY <1>2, <1>3
<1>5. \A y \in jobs : WorksOn(f[y], e) <=> WorksOn(y, e)
  BY <1>1, <1>2, <1>3 DEF WorksOn
<1>6. \A y \in jobs : f[y].pc \notin MayKnow => y.pc \notin MayKnow
  BY <1>1, <1>2, <1>3
<1>7. Carries(f, e)
  <2> HIDE DEF f
  <2> QED BY <1>2, <1>3, <1>4, <1>5, <1>6 DEF Carries
<1> QED BY <1>7 DEF Carry

LEMMA SettleCarry ==
    ASSUME NEW e \in Event, jobs \subseteq Job, NEW j \in jobs, NEW o, Settle(j, o),
           j.event # e, e \notin doubt'
    PROVE  Carry(e)
<1>1. CASE o = "ok" \/ j.kind # "poll"
  BY <1>1, SameCarry DEF Settle, WorksOn
<1>2. CASE ~(o = "ok" \/ j.kind # "poll")
  <2> DEFINE g(k) == [k EXCEPT !.kind = "detached"]
             P == PollJobs(j.inst)
             f == [y \in jobs |-> IF y \in P THEN g(y) ELSE y]
  <2>1. \A y \in jobs : g(y).event = y.event /\ g(y).pc = y.pc
    BY DEF Job
  <2>2. P \subseteq jobs
    BY DEF PollJobs
  <2>3. \A x \in jobs' : x \in jobs \ P \/ \E k \in P : x = g(k)
    BY <1>2 DEF Settle, Detached
  <2>4. \A k \in P : k.event = e => k \notin Abandoned(j.inst)
    BY <1>2 DEF Settle
  <2>5. \A k \in P : k.event = e => g(k) \in jobs'
    BY <1>2, <2>1, <2>2, <2>4 DEF Settle, Detached
  <2>6. \A x \in jobs \ P : x \in jobs'
    BY <1>2 DEF Settle
  <2>7. /\ \A y \in P : f[y] = g(y)
        /\ \A y \in jobs \ P : f[y] = y
    BY <2>2
  <2>8. \A y \in jobs : f[y].pc = y.pc /\ f[y].event = y.event
    BY <2>1, <2>7
  <2>9. \A x \in jobs' : \E y \in jobs : x = f[y]
    BY <2>2, <2>3, <2>7
  <2>10. \A y \in jobs : y.event = e => f[y] \in jobs'
    BY <2>5, <2>6, <2>7
  <2>11. Carries(f, e)
    <3> HIDE DEF f, P
    <3> QED BY <2>8, <2>9, <2>10 DEF Carries, WorksOn, Working
  <2> QED BY <2>11 DEF Carry
<1> QED BY <1>1, <1>2

LEMMA SettleGone ==
    ASSUME NEW e \in Event, NEW j \in jobs, WorksOn(j, e), OneWorker(e), Settle(j, "ok")
    PROVE  NoWorker(e)'
  BY DEF Settle, NoWorker, OneWorker, WorksOn, Working

\* What the statements leave of the status of a row that was good.
LEMMA StatusSteps ==
    ASSUME NEW r \in Row
    PROVE  /\ StatusKept(r, r) /\ StatusKept(r, Dead(r)) /\ StatusKept(r, Published(r))
           /\ Dead(r).status = "dead" /\ Leased(r).status = "processing"
           /\ Published(r).status # "processing"
           /\ \A j, d : Rescheduled(r, j, d).status # "processing"
<1>1. Dead(r).status = "dead"
  BY DEF Dead, Row
<1>2. Leased(r).status = "processing"
  BY DEF Leased, Row
<1>3. Published(r) = r \/ Published(r).status = "published"
  BY DEF Published, Row
<1>4. Published(r).status # "processing"
  BY DEF Published, Row
<1>5. ASSUME NEW j, NEW d PROVE Rescheduled(r, j, d).status # "processing"
  <2>1. CASE r.status # "processing"
    BY <2>1 DEF Rescheduled
  <2>2. CASE r.status = "processing"
    <3>1. Rescheduled(r, j, d).status = IF now + d >= r.expiresAt THEN "dead" ELSE "pending"
      BY <2>2 DEF Rescheduled, Row
    <3> QED BY <3>1
  <2> QED BY <2>1, <2>2
<1> QED BY <1>1, <1>2, <1>3, <1>4, <1>5 DEF StatusKept, Settled

LEMMA ExpireStatus ==
    ASSUME RowsOK, NEW S, NEW o, Expire(S, o), NEW e \in Event
    PROVE  StatusKept(row[e], row'[e])
<1>1. row[e] \in Row
  BY DEF RowsOK, GoodRow
<1> QED BY <1>1, StatusSteps DEF Expire

\* A claim takes pending rows, or takes over a lease that ran out and leaves the
\* event in doubt; a claim whose answer is lost leaves all its events in doubt.
LEMMA ClaimClean ==
    ASSUME RowsOK, NEW S \in SUBSET Event, \A x \in S : Claimable(row[x]),
           NEW o \in Outcome, Claim(S, o), doubt' = doubt \cup Doubted(S, o),
           NEW e \in Event, e \notin doubt', CleanRow(e), broker' = broker,
           e \in S /\ o = "ok" =>
               \E c \in jobs' : WorksOn(c, e) /\ \A x \in jobs' : WorksOn(x, e) => x = c \/ x \in jobs,
           ~(e \in S /\ o = "ok") => Carry(e)
    PROVE  CleanRow(e)'
<1>0. row[e] \in Row
  BY DEF RowsOK, GoodRow
<1>1. CASE e \in S /\ o = "ok"
  <2>1. row[e].status = "pending"
    BY <1>1 DEF Doubted, Claimable
  <2>2. row'[e].status = "processing"
    BY <1>0, <1>1, StatusSteps DEF Claim, Applied
  <2>3. NoWorker(e)
    BY <2>1 DEF CleanRow
  <2>4. PICK c \in jobs' : WorksOn(c, e) /\ \A x \in jobs' : WorksOn(x, e) => x = c \/ x \in jobs
    BY <1>1
  <2>5. \A x \in jobs' : WorksOn(x, e) => x = c
    BY <2>3, <2>4 DEF NoWorker
  <2> QED BY <2>1, <2>2, <2>4, <2>5, TakenClean
<1>2. CASE ~(e \in S /\ o = "ok")
  <2>1. ~(e \in S /\ Applied(o))
    BY <1>2 DEF Doubted, Applied, Outcome
  <2>2. row'[e] = row[e]
    BY <2>1 DEF Claim
  <2> QED BY <1>2, <2>2, CarryClean DEF StatusKept
<1> QED BY <1>1, <1>2

LEMMA CleanStep ==
    ASSUME CleanInv, NEW j \in jobs, Step(j), NEW e \in Event, e \notin doubt'
    PROVE  CleanRow(e)'
<1>0. /\ TypeOK /\ jobs \subseteq Job /\ RowsOK /\ j \in Job /\ j.event \in Event
      /\ row \in [Event -> Row] /\ row[e] \in Row /\ broker \in [Event -> Nat]
      /\ j.pc \in Pc
  BY DEF CleanInv, TypeOK, RowsOK, GoodRow, Job
<1>a. doubt \subseteq doubt'
  BY DEF Step, NowStart, NowExpire, NowClaim, Dispatch, MarkDead, Accept, PublishOk,
         PublishFail, MarkPublished, Reschedule, Reject, Settle
<1>b. CleanRow(e)
  BY <1>a DEF CleanInv, CleanRows
<1>c. ASSUME row' = row, broker' = broker, Carry(e) PROVE CleanRow(e)'
  BY <1>b, <1>c, CarryClean DEF StatusKept
<1>1. CASE NowStart(j)
  <2>1. CASE Move(j, "expire")
    BY <1>0, <1>1, <1>c, <2>1, MoveCarry DEF NowStart, Pc, Unclaimed, MayKnow, Told
  <2>2. CASE jobs' = jobs \ {j}
    BY <1>1, <1>c, <2>2, SameCarry DEF NowStart, WorksOn, Working, Unclaimed
  <2> QED BY <1>1, <2>1, <2>2 DEF NowStart
<1>2. ASSUME NEW o \in Outcome, NowExpire(j, o) PROVE CleanRow(e)'
  <2>1. Carry(e)
    <3>1. CASE Move(j, "claim")
      BY <1>0, <1>2, <3>1, MoveCarry DEF NowExpire, Pc, Unclaimed, MayKnow, Told
    <3>2. CASE jobs' = jobs \ {j}
      BY <1>2, <3>2, SameCarry DEF NowExpire, WorksOn, Working, Unclaimed
    <3> QED BY <1>2, <3>1, <3>2 DEF NowExpire
  <2>2. StatusKept(row[e], row'[e])
    BY <1>0, <1>2, ExpireStatus DEF NowExpire
  <2> QED BY <1>2, <1>b, <2>1, <2>2, CarryClean DEF NowExpire
<1>3. ASSUME NEW o \in Outcome, NowClaim(j, o) PROVE CleanRow(e)'
  <2> DEFINE S == {x \in {j.event} : Claimable(row[x])}
             c == ClaimedJob(j.inst, j.event, "now", "leased")
  <2>1. /\ S \in SUBSET Event /\ \A x \in S : Claimable(row[x])
        /\ Claim(S, o) /\ doubt' = doubt \cup Doubted(S, o) /\ broker' = broker
    BY <1>0, <1>3 DEF NowClaim
  <2>2. WorksOn(c, j.event) /\ \A x \in Event : WorksOn(c, x) => x = j.event
    BY DEF ClaimedJob, WorksOn, Working, Unclaimed
  <2>3. ~WorksOn(j, e)
    BY <1>3 DEF NowClaim, WorksOn, Working, Unclaimed
  <2>4. jobs' = (jobs \ {j}) \cup IF o = "ok" /\ j.event \in S THEN {c} ELSE {}
    BY <1>3 DEF NowClaim
  <2> HIDE DEF c
  <2>5. ASSUME e \in S, o = "ok"
        PROVE  \E d \in jobs' : WorksOn(d, e) /\ \A x \in jobs' : WorksOn(x, e) => x = d \/ x \in jobs
    <3>1. e = j.event
      BY <2>5
    <3> HIDE DEF S
    <3> QED BY <2>2, <2>4, <2>5, <3>1
  <2>6. ASSUME ~(e \in S /\ o = "ok") PROVE Carry(e)
    <3>1. \A x \in jobs' : WorksOn(x, e) => x \in jobs
      <4> HIDE DEF S
      <4> QED BY <2>2, <2>4, <2>6
    <3>2. \A x \in jobs : WorksOn(x, e) => x \in jobs'
      <4> HIDE DEF S
      <4> QED BY <2>3, <2>4
    <3> QED BY <3>1, <3>2, SameCarry
  <2> HIDE DEF S
  <2> QED BY <1>0, <1>b, <2>1, <2>5, <2>6, ClaimClean
<1>4. CASE Dispatch(j)
  <2> DEFINE S == {j}
  <2>1. S \in SUBSET jobs /\ jobs' = (jobs \ S) \cup {Begin(k) : k \in S}
    BY <1>4 DEF Dispatch
  <2>2. \A k \in S : k.pc \in {"leased", "queued"}
    BY <1>4 DEF Dispatch
  <2>3. Carry(e)
    <3> HIDE DEF S
    <3> QED BY <1>0, <2>1, <2>2, BeginCarry
  <2> QED BY <1>4, <1>c, <2>3 DEF Dispatch
<1>5. ASSUME NEW o \in Outcome, MarkDead(j, o) PROVE CleanRow(e)'
  <2>1. row' = [row EXCEPT ![j.event] = IF Applied(o) THEN Dead(@) ELSE @]
        /\ broker' = broker /\ Settle(j, o) /\ j.pc = "killing"
    BY <1>5 DEF MarkDead
  <2>2. CASE j.event # e
    <3>1. row'[e] = row[e]
      BY <1>0, <2>1, <2>2
    <3> QED BY <1>0, <1>b, <2>1, <2>2, <3>1, SettleCarry, CarryClean DEF StatusKept
  <2>3. CASE j.event = e
    <3>1. o = "ok"
      BY <2>1, <2>3 DEF Settle
    <3>2. row'[e].status = "dead"
      BY <1>0, <2>1, <2>3, <3>1, StatusSteps DEF Applied
    <3>3. NoWorker(e)'
      BY <1>b, <2>1, <2>3, <3>1, SettleGone DEF CleanRow, WorksOn, Working, Unclaimed
    <3> QED BY <1>b, <2>1, <3>2, <3>3, GoneClean
  <2> QED BY <2>2, <2>3
<1>6. CASE Accept(j)
  <2>1. broker' = [broker EXCEPT ![j.event] = @ + 1] /\ row' = row
        /\ Move(j, "accepted") /\ j.pc = "publishing"
    BY <1>6 DEF Accept
  <2>2. Carry(e)
    BY <1>0, <2>1, MoveCarry DEF Pc, Unclaimed, MayKnow, Told
  <2>3. CASE j.event # e
    <3>1. broker'[e] = broker[e]
      BY <1>0, <2>1, <2>3
    <3> QED BY <1>b, <2>1, <2>2, <3>1, CarryClean DEF StatusKept
  <2>4. CASE j.event = e
    <3> DEFINE k == [j EXCEPT !.pc = "accepted"]
    <3>1. WorksOn(j, e) /\ j.pc \notin MayKnow
      BY <2>1, <2>4 DEF WorksOn, Working, Unclaimed, MayKnow, Told
    <3>2. k.event = e /\ k.pc = "accepted" /\ WorksOn(k, e) /\ k.pc \in MayKnow /\ k \in jobs'
      BY <1>0, <2>1, <2>4 DEF Job, Move, WorksOn, Working, Unclaimed, MayKnow, Told
    <3>3. \A x \in jobs' : WorksOn(x, e) => x = k
      BY <1>b, <2>1, <3>1 DEF Move, CleanRow, OneWorker
    <3>4. broker[e] = 0 /\ broker'[e] = 1
      BY <1>0, <1>b, <2>1, <2>4, <3>1 DEF CleanRow
    <3>5. row'[e].status \notin {"absent", "pending"}
      BY <1>b, <2>1, <3>1 DEF CleanRow, NoWorker
    <3> HIDE DEF k
    <3> QED BY <3>2, <3>3, <3>4, <3>5 DEF CleanRow, OneWorker, NoWorker, WorksOn, Working
  <2> QED BY <2>3, <2>4
<1>7. CASE PublishOk(j)
  BY <1>0, <1>7, <1>c, MoveCarry, QueryIs DEF PublishOk, Pc, Unclaimed, MayKnow, Told
<1>8. CASE PublishFail(j)
  <2>1. j.event = e => j.pc = "publishing"
    BY <1>8 DEF PublishFail
  <2>2. Carry(e)
    BY <1>0, <1>8, <2>1, MoveCarry, QueryIs DEF PublishFail, Pc, Unclaimed, MayKnow, Told
  <2> QED BY <1>8, <1>c, <2>2 DEF PublishFail
<1>9. ASSUME NEW o \in Outcome, MarkPublished(j, o) PROVE CleanRow(e)'
  <2>1. row' = [row EXCEPT ![j.event] = IF Applied(o) THEN Published(@) ELSE @]
        /\ broker' = broker /\ j.pc = "sent"
    BY <1>9 DEF MarkPublished
  <2>2. CASE j.event # e
    <3>1. row'[e] = row[e]
      BY <1>0, <2>1, <2>2
    <3>2. Carry(e)
      <4>1. CASE o = "ok"
        BY <1>9, <2>2, <4>1, SameCarry DEF MarkPublished, WorksOn
      <4>2. CASE o # "ok"
        BY <1>0, <1>9, <2>2, <4>2, MoveCarry, QueryIs DEF MarkPublished, Pc, Unclaimed
      <4> QED BY <4>1, <4>2
    <3> QED BY <1>b, <2>1, <3>1, <3>2, CarryClean DEF StatusKept
  <2>3. CASE j.event = e
    <3>1. o = "ok" /\ jobs' = jobs \ {j}
      BY <1>9, <2>3 DEF MarkPublished
    <3>2. row'[e] = Published(row[e])
      BY <1>0, <2>1, <2>3, <3>1 DEF Applied
    <3>3. WorksOn(j, e)
      BY <2>1, <2>3 DEF WorksOn, Working, Unclaimed
    <3>4. NoWorker(e)'
      BY <1>b, <3>1, <3>3 DEF CleanRow, OneWorker, NoWorker, WorksOn, Working
    <3>5. row[e].status \notin {"absent", "pending"}
      BY <1>b, <3>3 DEF CleanRow, NoWorker
    <3>6. row'[e].status \notin {"processing", "absent", "pending"}
      BY <1>0, <3>2, <3>5, StatusSteps DEF StatusKept, Settled
    <3> QED BY <1>b, <2>1, <3>4, <3>6, GoneClean
  <2> QED BY <2>2, <2>3
<1>10. ASSUME NEW d \in Delays(j.attempts + 1), NEW o \in Outcome, Reschedule(j, d, o)
       PROVE  CleanRow(e)'
  <2> DEFINE r == IF Applied(o) THEN Rescheduled(row[j.event], j, d) ELSE row[j.event]
  <2>1. row' = [row EXCEPT ![j.event] = r]
        /\ broker' = broker /\ Settle(j, o) /\ j.pc = "failed"
    BY <1>10 DEF Reschedule
  <2>2. CASE j.event # e
    <3>1. row'[e] = row[e]
      BY <1>0, <2>1, <2>2
    <3> QED BY <1>0, <1>b, <2>1, <2>2, <3>1, SettleCarry, CarryClean DEF StatusKept
  <2>3. CASE j.event = e
    <3>1. o = "ok"
      BY <2>1, <2>3 DEF Settle
    <3>2. row'[e].status # "processing"
      BY <1>0, <2>1, <2>3, <3>1, StatusSteps DEF Applied
    <3>3. WorksOn(j, e) /\ j.pc \notin MayKnow
      BY <2>1, <2>3 DEF WorksOn, Working, Unclaimed, MayKnow, Told
    <3>4. NoWorker(e)' /\ broker[e] = 0
      BY <1>b, <2>1, <2>3, <3>1, <3>3, SettleGone DEF CleanRow
    <3> QED BY <1>b, <2>1, <3>2, <3>4, GoneClean
  <2> QED BY <2>2, <2>3
<1>11. CASE Reject(j)
  <2>1. row' = row /\ broker' = broker /\ Settle(j, "refused")
    BY <1>11 DEF Reject
  <2>2. j.event # e
    BY <2>1 DEF Settle
  <2> QED BY <1>0, <1>c, <2>1, <2>2, SettleCarry
<1> QED BY <1>1, <1>2, <1>3, <1>4, <1>5, <1>6, <1>7, <1>8, <1>9, <1>10, <1>11 DEF Step

LEMMA CleanPoller ==
    ASSUME CleanInv, NEW i \in Instance, Poller(i), NEW e \in Event, e \notin doubt'
    PROVE  CleanRow(e)'
<1>0. /\ jobs \subseteq Job /\ RowsOK /\ row[e] \in Row
  BY DEF CleanInv, TypeOK, RowsOK, GoodRow
<1>a. doubt \subseteq doubt'
  BY DEF Poller, PollStart, PollExpire, PollClaim, PollSlice, PollDone
<1>b. CleanRow(e)
  BY <1>a DEF CleanInv, CleanRows
<1>c. ASSUME row' = row, broker' = broker, Carry(e) PROVE CleanRow(e)'
  BY <1>b, <1>c, CarryClean DEF StatusKept
<1>1. CASE PollStart(i) \/ PollDone(i)
  BY <1>1, <1>c, SameCarry DEF PollStart, PollDone
<1>2. ASSUME NEW o \in Outcome, PollExpire(i, o) PROVE CleanRow(e)'
  <2>1. Carry(e)
    BY <1>2, SameCarry DEF PollExpire
  <2>2. StatusKept(row[e], row'[e])
    BY <1>0, <1>2, ExpireStatus DEF PollExpire
  <2> QED BY <1>2, <1>b, <2>1, <2>2, CarryClean DEF PollExpire
<1>3. ASSUME NEW S \in SUBSET Event, NEW o \in Outcome, PollClaim(i, S, o)
      PROVE  CleanRow(e)'
  <2> DEFINE c(x) == ClaimedJob(i, x, "poll", "queued")
  <2>1. /\ \A x \in S : Claimable(row[x])
        /\ Claim(S, o) /\ doubt' = doubt \cup Doubted(S, o) /\ broker' = broker
    BY <1>3 DEF PollClaim, OldestClaimable
  <2>2. \A x \in S : WorksOn(c(x), x) /\ c(x).event = x
    BY DEF ClaimedJob, WorksOn, Working, Unclaimed
  <2>3. jobs' = jobs \cup IF o = "ok" THEN {c(x) : x \in S} ELSE {}
    BY <1>3 DEF PollClaim
  <2> HIDE DEF c
  <2>4. ASSUME e \in S, o = "ok"
        PROVE  \E d \in jobs' : WorksOn(d, e) /\ \A x \in jobs' : WorksOn(x, e) => x = d \/ x \in jobs
    <3>1. \A x \in jobs' : WorksOn(x, e) => x = c(e) \/ x \in jobs
      BY <2>2, <2>3 DEF WorksOn
    <3> QED BY <2>2, <2>3, <2>4, <3>1
  <2>5. ASSUME ~(e \in S /\ o = "ok") PROVE Carry(e)
    <3>1. \A x \in jobs' : WorksOn(x, e) => x \in jobs
      BY <2>2, <2>3, <2>5 DEF WorksOn
    <3>2. jobs \subseteq jobs'
      BY <2>3
    <3> QED BY <3>1, <3>2, SameCarry
  <2> QED BY <1>0, <1>b, <2>1, <2>4, <2>5, ClaimClean
<1>4. ASSUME NEW S \in SUBSET jobs, PollSlice(i, S) PROVE CleanRow(e)'
  <2>1. Carry(e)
    BY <1>0, <1>4, BeginCarry DEF PollSlice
  <2> QED BY <1>4, <1>c, <2>1 DEF PollSlice
<1> QED BY <1>1, <1>2, <1>3, <1>4 DEF Poller

LEMMA CleanNext == CleanInv /\ [Next]_vars => CleanRows'
<1> SUFFICES ASSUME CleanInv, [Next]_vars, NEW e \in Event, e \notin doubt'
             PROVE  CleanRow(e)'
  BY DEF CleanRows
<1>0. jobs \subseteq Job /\ row \in [Event -> Row] /\ row[e] \in Row
  BY DEF CleanInv, TypeOK, RowsOK, GoodRow
<1>1. ASSUME doubt \subseteq doubt', row' = row, broker' = broker, Carry(e)
      PROVE  CleanRow(e)'
  BY <1>1, CarryClean DEF StatusKept, CleanInv, CleanRows
<1>2. ASSUME NEW i \in Instance, NEW x \in Event, Create(i, x) PROVE CleanRow(e)'
  <2>1. CleanRow(e)
    BY <1>2 DEF Create, CleanInv, CleanRows
  <2>2. \A y \in jobs' : WorksOn(y, e) => y \in jobs
    BY <1>2 DEF Create, WorksOn, Working, Unclaimed
  <2>3. Carry(e)
    BY <1>2, <2>2, SameCarry DEF Create
  <2>4. CASE x # e
    BY <1>0, <1>2, <2>1, <2>3, <2>4, CarryClean DEF Create, StatusKept
  <2>5. CASE x = e
    <3>1. NoWorker(e) /\ broker[e] = 0
      BY <1>2, <2>1, <2>5 DEF Create, CleanRow
    <3>2. row'[e].status = "pending"
      BY <1>0, <1>2, <2>5 DEF Create, NewRow
    <3>3. NoWorker(e)'
      BY <2>2, <3>1 DEF NoWorker, WorksOn, Working
    <3> QED BY <1>2, <2>1, <3>1, <3>2, <3>3, GoneClean DEF Create
  <2> QED BY <2>4, <2>5
<1>3. ASSUME NEW i \in Instance, Lifecycle(i) PROVE CleanRow(e)'
  <2>1. CASE Crash(i)
    BY <1>1, <2>1, SameCarry DEF Crash, WorksOn, Working
  <2>2. CASE Restart(i)
    <3>1. \A x \in jobs : x.inst = i => x.pc = "created"
      BY <2>2 DEF Restart, CleanInv, Resting, RestsOf
    <3> QED BY <1>1, <2>2, <3>1, SameCarry DEF Restart, WorksOn, Working, Unclaimed
  <2>3. CASE Shutdown(i) \/ PoolEnded(i) \/ ShutdownDone(i)
    BY <1>1, <2>3, SameCarry DEF Shutdown, PoolEnded, ShutdownDone
  <2> QED BY <1>3, <2>1, <2>2, <2>3 DEF Lifecycle
<1>4. CASE Tick \/ UNCHANGED vars
  BY <1>1, <1>4, SameCarry DEF Tick, vars
<1> QED BY <1>2, <1>3, <1>4, CleanPoller, CleanStep DEF Next

\* A step that leaves the instances alone and puts no work where there is rest.
Awake(x) == x.pc # "queued" /\ inst[x.inst].mode \notin {"stopped", "down"}

LEMMA RestJobs ==
    ASSUME Resting, inst' = inst, \A x \in jobs' : x \in jobs \/ Awake(x)
    PROVE  Resting'
  BY DEF Resting, RestsOf, QueuedInPoll, Awake

LEMMA RestMove ==
    ASSUME Resting, TypeOK, inst' = inst, NEW j \in jobs, NEW pc \in Pc \ {"queued"},
           Move(j, pc) \/ jobs' = jobs \ {j},
           j.pc # "created" \/ inst[j.inst].mode = "up" \/ jobs' = jobs \ {j}
    PROVE  Resting'
<1>1. CASE jobs' = jobs \ {j}
  BY <1>1, RestJobs
<1>2. CASE Move(j, pc) /\ jobs' # jobs \ {j}
  <2>1. j \in Job /\ j.inst \in Instance /\ inst[j.inst] \in Process
    BY DEF TypeOK, Job
  <2>2. [j EXCEPT !.pc = pc].pc = pc /\ [j EXCEPT !.pc = pc].inst = j.inst
    BY <2>1 DEF Job
  <2>3. inst[j.inst].mode \notin {"stopped", "down"}
    BY <1>2, <2>1 DEF Resting, RestsOf
  <2>4. \A x \in jobs' : x \in jobs \/ Awake(x)
    BY <1>2, <2>2, <2>3 DEF Move, Awake
  <2> QED BY <2>4, RestJobs
<1> QED BY <1>1, <1>2

LEMMA RestSettle ==
    ASSUME Resting, TypeOK, NEW j \in jobs, NEW o, Settle(j, o), j.pc # "created"
    PROVE  Resting'
<1>0. jobs \subseteq Job /\ j.inst \in Instance /\ inst \in [Instance -> Process]
  BY DEF TypeOK, Job
<1>1. CASE o = "ok" \/ j.kind # "poll"
  BY <1>1, RestJobs DEF Settle
<1>2. CASE ~(o = "ok" \/ j.kind # "poll")
  <2> DEFINE g(k) == [k EXCEPT !.kind = "detached"]
             i == j.inst
  <2>1. \A y \in jobs : g(y).inst = y.inst /\ g(y).pc = y.pc
    BY <1>0 DEF Job
  <2>2. \A x \in jobs' : \/ x \in jobs /\ x \notin PollJobs(i)
                         \/ \E k \in PollJobs(i) \ Abandoned(i) : x = g(k)
    BY <1>2 DEF Settle, Detached
  <2>3. inst' = [inst EXCEPT ![i].poll = "idle"]
    BY <1>2 DEF Settle
  <2>4. inst[i].mode \notin {"stopped", "down"}
    BY <1>0 DEF Resting, RestsOf
  <2>5. \A k \in PollJobs(i) \ Abandoned(i) : k \in jobs /\ k.inst = i /\ k.pc # "queued"
    BY DEF PollJobs, Abandoned
  <2>6. /\ \A x \in Instance : inst'[x].mode = inst[x].mode
        /\ \A x \in Instance : x # i => inst'[x] = inst[x]
    BY <1>0, <2>3 DEF Process
  <2> HIDE DEF g
  <2>7. \A x \in jobs' : \/ x \in jobs /\ (x.inst = i => x.kind # "poll")
                         \/ x.inst = i /\ x.pc # "queued"
    BY <2>1, <2>2, <2>5 DEF PollJobs
  <2>8. ASSUME NEW x \in Instance PROVE RestsOf(x)'
    <3>1. CASE x = i
      BY <2>4, <2>6, <3>1 DEF RestsOf
    <3>2. CASE x # i
      BY <2>6, <2>7, <3>2 DEF Resting, RestsOf
    <3> QED BY <3>1, <3>2
  <2>9. ASSUME NEW x \in jobs' PROVE QueuedInPoll(x)'
    <3>1. CASE x.inst = i
      BY <2>7, <3>1 DEF Resting, QueuedInPoll
    <3>2. CASE x.inst # i
      BY <1>0, <2>6, <2>7, <3>2 DEF Resting, QueuedInPoll, Job
    <3> QED BY <3>1, <3>2
  <2> QED BY <2>8, <2>9 DEF Resting
<1> QED BY <1>1, <1>2

LEMMA RestStep ==
    ASSUME Resting, TypeOK, NEW j \in jobs, Step(j)
    PROVE  Resting'
<1>0. j \in Job /\ j.inst \in Instance
  BY DEF TypeOK, Job
<1> USE DEF Pc, Unclaimed
<1>1. CASE NowStart(j)
  BY <1>1, RestMove DEF NowStart
<1>2. ASSUME NEW o \in Outcome, NowExpire(j, o) PROVE Resting'
  BY <1>2, RestMove DEF NowExpire
<1>3. ASSUME NEW o \in Outcome, NowClaim(j, o) PROVE Resting'
  <2>1. inst[j.inst].mode \notin {"stopped", "down"}
    BY <1>0, <1>3 DEF NowClaim, Resting, RestsOf
  <2>2. \A x \in jobs' : x \in jobs \/ x = ClaimedJob(j.inst, j.event, "now", "leased")
    BY <1>3 DEF NowClaim
  <2>3. Awake(ClaimedJob(j.inst, j.event, "now", "leased"))
    BY <2>1 DEF ClaimedJob, Awake
  <2>4. \A x \in jobs' : x \in jobs \/ Awake(x)
    BY <2>2, <2>3
  <2> QED BY <1>3, <2>4, RestJobs DEF NowClaim
<1>4. CASE Dispatch(j)
  <2>1. inst[j.inst].mode \notin {"stopped", "down"}
    BY <1>0, <1>4 DEF Dispatch, Resting, RestsOf
  <2>2. Awake(Begin(j))
    BY <1>0, <2>1 DEF Begin, Query, Awake, Job
  <2> QED BY <1>4, <2>2, RestJobs DEF Dispatch
<1>5. ASSUME NEW o \in Outcome, MarkDead(j, o) PROVE Resting'
  BY <1>5, RestSettle DEF MarkDead
<1>6. CASE Accept(j)
  BY <1>6, RestMove DEF Accept
<1>7. CASE PublishOk(j)
  BY <1>7, RestMove, QueryIs DEF PublishOk
<1>8. CASE PublishFail(j)
  BY <1>8, RestMove, QueryIs DEF PublishFail
<1>9. ASSUME NEW o \in Outcome, MarkPublished(j, o) PROVE Resting'
  BY <1>9, RestMove, QueryIs DEF MarkPublished
<1>10. ASSUME NEW d, NEW o \in Outcome, Reschedule(j, d, o) PROVE Resting'
  BY <1>10, RestSettle DEF Reschedule
<1>11. CASE Reject(j)
  BY <1>11, RestSettle DEF Reject
<1> QED BY <1>1, <1>2, <1>3, <1>4, <1>5, <1>6, <1>7, <1>8, <1>9, <1>10, <1>11 DEF Step

\* A step of the poller of i: it runs, and no job of i waits for it unless it drains.
LEMMA RestPoll ==
    ASSUME Resting, TypeOK, NEW i \in Instance, NEW s, inst' = [inst EXCEPT ![i].poll = s],
           inst[i].mode = "up" \/ inst[i].poll # "idle",
           \A x \in jobs' : x \in jobs \/ (x.inst = i /\ x.kind = "poll"),
           \A x \in jobs' : x.pc = "queued" /\ x.inst = i => s = "drain"
    PROVE  Resting'
<1>0. inst \in [Instance -> Process] /\ \A x \in jobs : x.inst \in Instance
  BY DEF TypeOK, Job
<1>1. inst[i].mode \notin {"stopped", "down"}
  BY DEF Resting, RestsOf
<1>2. /\ inst'[i].poll = s
      /\ \A x \in Instance : inst'[x].mode = inst[x].mode
      /\ \A x \in Instance : x # i => inst'[x] = inst[x]
  BY <1>0 DEF Process
<1>3. ASSUME NEW x \in Instance PROVE RestsOf(x)'
  BY <1>1, <1>2 DEF Resting, RestsOf
<1>4. ASSUME NEW x \in jobs', x.pc = "queued"
      PROVE  x.kind = "poll" /\ inst'[x.inst].poll = "drain"
  <2>1. CASE x.inst = i
    BY <1>2, <1>4, <2>1 DEF Resting, QueuedInPoll
  <2>2. CASE x.inst # i
    BY <1>0, <1>2, <1>4, <2>2 DEF Resting, QueuedInPoll
  <2> QED BY <2>1, <2>2
<1> QED BY <1>3, <1>4 DEF Resting, QueuedInPoll

LEMMA RestPoller ==
    ASSUME Resting, TypeOK, NEW i \in Instance, Poller(i)
    PROVE  Resting'
<1>0. jobs \subseteq Job
  BY DEF TypeOK
<1>a. \A x \in jobs : x.pc = "queued" => x.kind = "poll" /\ inst[x.inst].poll = "drain"
  BY DEF Resting, QueuedInPoll
<1>b. ASSUME NEW s, inst' = [inst EXCEPT ![i].poll = s], jobs' = jobs,
             inst[i].mode = "up" \/ inst[i].poll # "idle",
             \A x \in jobs : x.inst = i => x.pc # "queued"
      PROVE  Resting'
  <2>1. \A x \in jobs' : x \in jobs \/ (x.inst = i /\ x.kind = "poll")
    BY <1>b
  <2>2. \A x \in jobs' : x.pc = "queued" /\ x.inst = i => s = "drain"
    BY <1>b
  <2> QED BY <1>b, <2>1, <2>2, RestPoll
<1>1. CASE PollStart(i)
  <2>1. \A x \in jobs : x.inst = i => x.pc # "queued"
    BY <1>1, <1>a DEF PollStart
  <2> QED BY <1>1, <1>b, <2>1 DEF PollStart
<1>2. ASSUME NEW o \in Outcome, PollExpire(i, o) PROVE Resting'
  <2>1. \A x \in jobs : x.inst = i => x.pc # "queued"
    BY <1>2, <1>a DEF PollExpire
  <2>2. PICK s : inst' = [inst EXCEPT ![i].poll = s]
    BY <1>2 DEF PollExpire
  <2>3. jobs' = jobs /\ inst[i].poll # "idle"
    BY <1>2 DEF PollExpire
  <2> QED BY <1>b, <2>1, <2>2, <2>3
<1>3. ASSUME NEW S \in SUBSET Event, NEW o \in Outcome, PollClaim(i, S, o)
      PROVE  Resting'
  <2>1. \A x \in jobs' : x \in jobs \/ (o = "ok" /\ \E e \in S : x = ClaimedJob(i, e, "poll", "queued"))
    BY <1>3 DEF PollClaim
  <2>2. \A e \in S : /\ ClaimedJob(i, e, "poll", "queued").inst = i
                     /\ ClaimedJob(i, e, "poll", "queued").kind = "poll"
    BY DEF ClaimedJob
  <2>3. \A x \in jobs' : x \in jobs \/ (o = "ok" /\ x.inst = i /\ x.kind = "poll")
    BY <2>1, <2>2
  <2> DEFINE s == IF o = "ok" THEN "drain" ELSE "idle"
  <2>4. inst' = [inst EXCEPT ![i].poll = s] /\ inst[i].poll = "claim"
    BY <1>3 DEF PollClaim
  <2>5. \A x \in jobs' : x.pc = "queued" /\ x.inst = i => s = "drain"
    BY <1>a, <2>3, <2>4
  <2> HIDE DEF s
  <2> QED BY <2>3, <2>4, <2>5, RestPoll
<1>4. ASSUME NEW S \in SUBSET jobs, PollSlice(i, S) PROVE Resting'
  <2>1. inst[i].mode \notin {"stopped", "down"}
    BY <1>4 DEF PollSlice, Resting, RestsOf
  <2>2. \A y \in S : Begin(y).inst = i /\ Begin(y).pc # "queued"
    BY <1>0, <1>4 DEF PollSlice, PollJobs, Begin, Query, Job
  <2>3. \A x \in jobs' : x \in jobs \/ Awake(x)
    BY <1>4, <2>1, <2>2 DEF PollSlice, Awake
  <2> QED BY <1>4, <2>3, RestJobs DEF PollSlice
<1>5. CASE PollDone(i)
  <2>1. \A x \in jobs : x.inst = i => x.pc # "queued"
    BY <1>5, <1>a DEF PollDone, PollJobs
  <2> QED BY <1>5, <1>b, <2>1 DEF PollDone
<1> QED BY <1>1, <1>2, <1>3, <1>4, <1>5 DEF Poller

LEMMA RestLifecycle ==
    ASSUME Resting, TypeOK, NEW i \in Instance, Lifecycle(i)
    PROVE  Resting'
<1>0. inst \in [Instance -> Process] /\ \A x \in jobs : x.inst \in Instance
  BY DEF TypeOK, Job
<1>1. ASSUME NEW m, inst' = [inst EXCEPT ![i] = [mode |-> m, poll |-> "idle"]],
             jobs' = {j \in jobs : j.inst # i}
      PROVE  Resting'
  <2>1. inst'[i].poll = "idle" /\ \A x \in Instance : x # i => inst'[x] = inst[x]
    BY <1>0, <1>1
  <2> QED BY <1>0, <1>1, <2>1 DEF Resting, RestsOf, QueuedInPoll
<1>2. CASE Crash(i) \/ Restart(i)
  BY <1>1, <1>2 DEF Crash, Restart
<1>3. CASE Shutdown(i) \/ PoolEnded(i) \/ ShutdownDone(i)
  <2>1. /\ jobs' = jobs
        /\ \A x \in Instance : inst'[x].poll = inst[x].poll
        /\ \A x \in Instance : x # i => inst'[x] = inst[x]
    <3>1. PICK m : jobs' = jobs /\ inst' = [inst EXCEPT ![i].mode = m]
      BY <1>3 DEF Shutdown, PoolEnded, ShutdownDone
    <3>2. inst'[i].poll = inst[i].poll
      BY <1>0, <3>1 DEF Process
    <3>3. \A x \in Instance : x # i => inst'[x] = inst[x]
      BY <1>0, <3>1
    <3> QED BY <3>1, <3>2, <3>3
  <2>2. RestsOf(i)'
    <3>1. CASE Shutdown(i) \/ PoolEnded(i)
      BY <1>0, <3>1 DEF Shutdown, PoolEnded, RestsOf, Process
    <3>2. CASE ShutdownDone(i)
      <4>1. \A x \in jobs : x.inst = i => x.pc \in {"created", "queued"}
        BY <3>2 DEF ShutdownDone, Drained, Tracked
      <4>2. inst[i].poll = "idle"
        BY <3>2 DEF ShutdownDone, Drained
      <4>3. \A x \in jobs : x.inst = i => x.pc = "created"
        BY <4>1, <4>2 DEF Resting, QueuedInPoll
      <4> QED BY <2>1, <4>2, <4>3 DEF RestsOf
    <3> QED BY <1>3, <3>1, <3>2
  <2> QED BY <1>0, <2>1, <2>2 DEF Resting, RestsOf, QueuedInPoll
<1> QED BY <1>2, <1>3 DEF Lifecycle

LEMMA RestNext == Resting /\ TypeOK /\ [Next]_vars => Resting'
<1> SUFFICES ASSUME Resting, TypeOK, [Next]_vars PROVE Resting'
  OBVIOUS
<1>1. ASSUME NEW i \in Instance, NEW e \in Event, Create(i, e) PROVE Resting'
  <2>1. \A x \in jobs' : x \in jobs \/ Awake(x)
    BY <1>1 DEF Create, Awake
  <2> QED BY <1>1, <2>1, RestJobs DEF Create
<1>2. CASE Tick \/ UNCHANGED vars
  BY <1>2, RestJobs DEF Tick, vars
<1> QED BY <1>1, <1>2, RestPoller, RestStep, RestLifecycle DEF Next

LEMMA CleanAlways == Spec => []CleanInv
<1>1. Init => CleanInv
  <2>1. Init => CleanRows
    BY DEF Init, CleanRows, CleanRow, OneWorker, NoWorker, Absent
  <2>2. Init => Resting
    BY DEF Init, Resting, RestsOf
  <2> QED BY <2>1, <2>2, TypeInit DEF CleanInv
<1>2. CleanInv /\ [Next]_vars => CleanInv'
  BY CleanNext, RestNext, TypeStep DEF CleanInv
<1> QED BY <1>1, <1>2, PTL DEF Spec

\* An event in processing has its worker, across restarts, takeovers and the slices
\* of a poll, unless a fault, the end of a lease or the ended pool of a shutdown
\* touched that very event: a shutdown strands the dispatches whose statement its
\* pool refuses and leaves no other behind.
THEOREM WorkerPresent == Spec => []ProcessingHasWorker
<1>1. CleanInv => ProcessingHasWorker
  BY DEF CleanInv, CleanRows, CleanRow, NoWorker, WorksOn, Working, ProcessingHasWorker
<1> QED BY <1>1, CleanAlways, PTL

\* RabbitMQ gets an event at most once unless a fault, the end of a lease or the
\* ended pool of a shutdown touched that very event, however many instances
\* dispatch and poll.
THEOREM PublishedOnce == Spec => []NoSpuriousDuplicate
<1>1. CleanInv => NoSpuriousDuplicate
  BY DEF CleanInv, CleanRows, CleanRow, NoSpuriousDuplicate
<1> QED BY <1>1, CleanAlways, PTL
==============================================================================
