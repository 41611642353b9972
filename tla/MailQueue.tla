------------------------------ MODULE MailQueue ------------------------------
(****************************************************************************)
(* The mail service behind RabbitMQ: the consumer of mail.send with its     *)
(* delayed retry queues (mail-events.controller.ts), the dead-letter queue  *)
(* and the operator's redrive of it (dlq-redrive.ts).                       *)
(*                                                                          *)
(* A copy is one message in RabbitMQ; at is the queue it lies in or the     *)
(* await of the handler that has it unacknowledged:                         *)
(*   none       no such message          main        in the main queue      *)
(*   handling   delivered, in sendMail   accepted    SMTP took the mail,    *)
(*                                       its answer is under way            *)
(*   copied     its retry copy is enqueued, its own ack is not processed    *)
(*   retry      in a retry queue         dlq         in the DLQ             *)
(*   held       taken by the redrive     confirming  redriven, the publish  *)
(*              and kept back            of its new copy is being confirmed *)
(* Queues are unordered: the consumer sets no prefetch, so every message of *)
(* the main queue may be in a handler at once.                              *)
(****************************************************************************)
EXTENDS Integers, FiniteSets

CONSTANTS
    Event,        \* mail events the API may publish
    Invalid,      \* those whose payload isMailSendEvent refuses
    Verification, \* those with an expiry (template email-verification)
    Copy,         \* bound: messages that exist at one time
    None,         \* no --event-id, no event
    MaxRetry,     \* MAIL_RETRY_DELAYS_MS.length
    Limits,       \* values of --limit that an operator passes
    MaxHanded,    \* bound: times the API publishes one event
    MaxFaults,    \* bound: lost connections and refused publishes
    MaxRuns       \* bound: redrive runs

ASSUME MailQueueAssumption ==
    /\ Invalid \subseteq Event /\ Verification \subseteq Event
    /\ None \notin Event
    /\ IsFiniteSet(Copy)
    /\ MaxRetry \in Nat /\ MaxHanded \in Nat
    /\ MaxFaults \in Nat /\ MaxRuns \in Nat
    /\ Limits \subseteq 1 .. 100

VARIABLES
    copy,       \* the messages
    handed,     \* times each event was published by the API
    sent,       \* mails SMTP accepted, per event
    expired,    \* events past their expiresAt
    discarded,  \* history: copies thrown away by redrives, per event
    redrive,    \* the redrive run, if one is on
    doubt,      \* history: events with an ambiguous outcome
    faults, runs

vars == <<copy, handed, sent, expired, discarded, redrive, doubt, faults, runs>>

Unacked == {"handling", "accepted", "copied"}
Place == Unacked \cup {"none", "main", "retry", "dlq", "held", "confirming"}
Message == [at : Place, event : Event \cup {None}, retry : 0 .. MaxRetry]
Redrive == [on : BOOLEAN, target : Event \cup {None}, limit : 0 .. 100,
            discard : BOOLEAN, scanned : Nat, scanLimit : Nat, redriven : Nat]

Off == [on |-> FALSE, target |-> None, limit |-> 0, discard |-> FALSE,
        scanned |-> 0, scanLimit |-> 0, redriven |-> 0]

In(P) == {c \in Copy : copy[c].at \in P}
Message0(at, e, n) == [at |-> at, event |-> e, retry |-> n]
Gone == Message0("none", None, 0)
Remove(c) == copy' = [copy EXCEPT ![c] = Gone]
MoveTo(c, at) == copy' = [copy EXCEPT ![c].at = at]

\* The message c is replaced: it waits at "at" while d is a new copy of it.
Replace(c, at, d, place, n) ==
    copy' = [copy EXCEPT ![c].at = at, ![d] = Message0(place, copy[c].event, n)]

Init ==
    /\ copy = [c \in Copy |-> Gone]
    /\ handed = [e \in Event |-> 0]
    /\ sent = [e \in Event |-> 0]
    /\ expired = {}
    /\ discarded = [e \in Event |-> 0]
    /\ redrive = Off
    /\ doubt = {}
    /\ faults = 0 /\ runs = 0

------------------------------------------------------------------------------
(* The API and the clock *)

Publish(e, c) ==
    /\ handed[e] < MaxHanded /\ copy[c].at = "none"
    /\ handed' = [handed EXCEPT ![e] = @ + 1]
    /\ copy' = [copy EXCEPT ![c] = Message0("main", e, 0)]
    /\ UNCHANGED <<sent, expired, discarded, redrive, doubt, faults, runs>>

Expire(e) ==
    /\ e \in Verification \ expired
    /\ expired' = expired \cup {e}
    /\ UNCHANGED <<copy, handed, sent, discarded, redrive, doubt, faults, runs>>

------------------------------------------------------------------------------
(* The consumer, handleMailSend *)

Rejected(e) == e \in Invalid \/ e \in expired

Deliver(c) ==
    /\ copy[c].at = "main"
    /\ MoveTo(c, IF Rejected(copy[c].event) THEN "dlq" ELSE "handling")
    /\ UNCHANGED <<handed, sent, expired, discarded, redrive, doubt, faults, runs>>

\* SMTP takes the mail.
SmtpAccept(c) ==
    /\ copy[c].at = "handling"
    /\ sent' = [sent EXCEPT ![copy[c].event] = @ + 1]
    /\ MoveTo(c, "accepted")
    /\ UNCHANGED <<handed, expired, discarded, redrive, doubt, faults, runs>>

Ack(c) ==
    /\ copy[c].at = "accepted"
    /\ Remove(c)
    /\ UNCHANGED <<handed, sent, expired, discarded, redrive, doubt, faults, runs>>

\* process() rejects, perhaps although SMTP took the mail; the rest of the catch
\* block runs up to the await of sendToQueue.
Failing(c) ==
    /\ copy[c].at \in {"handling", "accepted"}
    /\ doubt' = IF copy[c].at = "accepted" THEN doubt \cup {copy[c].event} ELSE doubt

Exhausted(n) == n >= MaxRetry

FailDropped(c) ==  \* mutant: any failure goes to the DLQ
    /\ Failing(c)
    /\ MoveTo(c, "dlq")
    /\ UNCHANGED <<handed, sent, expired, discarded, redrive, faults, runs>>

FailExhausted(c) ==
    /\ Failing(c) /\ Exhausted(copy[c].retry)
    /\ MoveTo(c, "dlq")
    /\ UNCHANGED <<handed, sent, expired, discarded, redrive, faults, runs>>

FailRetrySameHeader(c, d) ==  \* mutant: the retry header is copied, not increased
    /\ Failing(c) /\ ~Exhausted(copy[c].retry) /\ copy[d].at = "none"
    /\ Replace(c, "copied", d, "retry", copy[c].retry)
    /\ UNCHANGED <<handed, sent, expired, discarded, redrive, faults, runs>>

FailRetry(c, d) ==
    /\ Failing(c) /\ ~Exhausted(copy[c].retry) /\ copy[d].at = "none"
    /\ Replace(c, "copied", d, "retry", copy[c].retry + 1)
    /\ UNCHANGED <<handed, sent, expired, discarded, redrive, faults, runs>>

\* The publication of the retry fails: the message goes back as it was.  As the
\* handler does, this takes the promise of sendToQueue at its word: what it
\* resolved is in the retry queue.
FailRequeue(c) ==
    /\ Failing(c) /\ ~Exhausted(copy[c].retry) /\ faults < MaxFaults
    /\ faults' = faults + 1
    /\ MoveTo(c, "main")
    /\ UNCHANGED <<handed, sent, expired, discarded, redrive, runs>>

RetryNack(c) ==  \* mutant: requeued although its retry copy exists
    /\ copy[c].at = "copied"
    /\ MoveTo(c, "main")
    /\ UNCHANGED <<handed, sent, expired, discarded, redrive, doubt, faults, runs>>

RetryAck(c) ==
    /\ copy[c].at = "copied"
    /\ Remove(c)
    /\ UNCHANGED <<handed, sent, expired, discarded, redrive, doubt, faults, runs>>

\* The x-message-ttl of the retry queue runs out.
RetryDue(c) ==
    /\ copy[c].at = "retry"
    /\ MoveTo(c, "main")
    /\ UNCHANGED <<handed, sent, expired, discarded, redrive, doubt, faults, runs>>

DisconnectNoAck(A) ==  \* mutant: consumed with noAck, nothing is requeued
    /\ faults < MaxFaults /\ A = {}
    /\ faults' = faults + 1
    /\ copy' = [c \in Copy |-> IF c \in In(Unacked) THEN Gone ELSE copy[c]]
    /\ UNCHANGED <<handed, sent, expired, discarded, redrive, doubt, runs>>

\* The consumer crashes or loses its connection: RabbitMQ requeues what was not
\* acknowledged.  Of the mails then in sendMail, SMTP still takes those of A.
Disconnect(A) ==
    /\ faults < MaxFaults /\ In(Unacked) # {}
    /\ A \subseteq In({"handling"})
    /\ faults' = faults + 1
    /\ copy' = [c \in Copy |-> IF c \in In(Unacked)
                               THEN [copy[c] EXCEPT !.at = "main"] ELSE copy[c]]
    /\ sent' = [e \in Event |->
                   sent[e] + Cardinality({c \in A : copy[c].event = e})]
    /\ doubt' = doubt \cup {copy[c].event : c \in A \cup In({"accepted", "copied"})}
    /\ UNCHANGED <<handed, expired, discarded, redrive, runs>>

------------------------------------------------------------------------------
(* The redrive of the DLQ, redriveDlq *)

\* scanLimit is the length of the DLQ at the start; --event-id redrives one.
RedriveStart(target, limit, discard) ==
    /\ ~redrive.on /\ runs < MaxRuns
    /\ runs' = runs + 1
    /\ redrive' = [on |-> TRUE, target |-> target, discard |-> discard,
                   limit |-> IF target = None THEN limit ELSE 1,
                   scanned |-> 0, redriven |-> 0,
                   scanLimit |-> Cardinality(In({"dlq"}))]
    /\ UNCHANGED <<copy, handed, sent, expired, discarded, doubt, faults>>

Scanning ==
    /\ redrive.on /\ In({"confirming"}) = {}
    /\ redrive.scanned < redrive.scanLimit
    /\ redrive.redriven < redrive.limit

Selected(e) == e \notin Invalid /\ redrive.target \in {None, e}

Scan == redrive' = [redrive EXCEPT !.scanned = @ + 1]

RedriveHold(c) ==
    /\ Scanning /\ copy[c].at = "dlq"
    /\ LET e == copy[c].event
       IN  ~Selected(e) \/ (e \in expired /\ ~redrive.discard)
    /\ Scan /\ MoveTo(c, "held")
    /\ UNCHANGED <<handed, sent, expired, discarded, doubt, faults, runs>>

RedriveDiscardAny(c) ==  \* mutant: any expired message is thrown away
    /\ Scanning /\ copy[c].at = "dlq" /\ copy[c].event \in expired
    /\ Scan /\ Remove(c)
    /\ discarded' = [discarded EXCEPT ![copy[c].event] = @ + 1]
    /\ UNCHANGED <<handed, sent, expired, doubt, faults, runs>>

RedriveDiscard(c) ==
    /\ Scanning /\ copy[c].at = "dlq"
    /\ Selected(copy[c].event) /\ copy[c].event \in expired /\ redrive.discard
    /\ Scan /\ Remove(c)
    /\ discarded' = [discarded EXCEPT ![copy[c].event] = @ + 1]
    /\ UNCHANGED <<handed, sent, expired, doubt, faults, runs>>

RedriveSend(c, d) ==
    /\ Scanning /\ copy[c].at = "dlq" /\ copy[d].at = "none"
    /\ Selected(copy[c].event) /\ copy[c].event \notin expired
    /\ Scan /\ Replace(c, "confirming", d, "main", 0)
    /\ UNCHANGED <<handed, sent, expired, discarded, doubt, faults, runs>>

RedriveConfirm(c) ==
    /\ redrive.on /\ copy[c].at = "confirming"
    /\ Remove(c)
    /\ redrive' = [redrive EXCEPT !.redriven = @ + 1]
    /\ UNCHANGED <<handed, sent, expired, discarded, doubt, faults, runs>>

ReturnConfirming ==  \* mutant: the held messages are forgotten
    /\ copy' = [c \in Copy |-> IF copy[c].at = "confirming"
                               THEN [copy[c] EXCEPT !.at = "dlq"] ELSE copy[c]]
    /\ redrive' = Off

\* What the run has not acknowledged goes back to the DLQ, on every way out: the
\* nack of the held messages, or the channel closing under them.
Return ==
    /\ copy' = [c \in Copy |-> IF copy[c].at \in {"held", "confirming"}
                               THEN [copy[c] EXCEPT !.at = "dlq"] ELSE copy[c]]
    /\ redrive' = Off

RedriveEnd ==
    /\ redrive.on /\ In({"confirming"}) = {}
    /\ ~Scanning \/ In({"dlq"}) = {}
    /\ Return
    /\ UNCHANGED <<handed, sent, expired, discarded, doubt, faults, runs>>

\* The operator's process dies, or RabbitMQ refuses the publish or the confirm.
RedriveAbort ==
    /\ redrive.on /\ faults < MaxFaults
    /\ faults' = faults + 1
    /\ doubt' = doubt \cup {copy[c].event : c \in In({"confirming"})}
    /\ Return
    /\ UNCHANGED <<handed, sent, expired, discarded, runs>>

------------------------------------------------------------------------------
Handler(c) ==
    \/ Deliver(c) \/ SmtpAccept(c) \/ Ack(c)
    \/ FailExhausted(c) \/ FailRequeue(c) \/ RetryAck(c) \/ RetryDue(c)
    \/ \E d \in Copy : FailRetry(c, d)

RedriveStep ==
    \/ \E c \in Copy : RedriveHold(c) \/ RedriveDiscard(c) \/ RedriveConfirm(c)
    \/ \E c, d \in Copy : RedriveSend(c, d)
    \/ RedriveEnd

Next ==
    \/ \E e \in Event, c \in Copy : Publish(e, c)
    \/ \E e \in Event : Expire(e)
    \/ \E c \in Copy : Handler(c)
    \/ \E A \in SUBSET Copy : Disconnect(A)
    \/ \E t \in Event \cup {None}, n \in Limits, b \in BOOLEAN : RedriveStart(t, n, b)
    \/ RedriveStep
    \/ RedriveAbort

Spec == Init /\ [][Next]_vars

\* RabbitMQ delivers, timers fire and every await of the handler settles.
Fairness == \A c \in Copy : WF_vars(Handler(c))

FairSpec == Spec /\ Fairness

------------------------------------------------------------------------------
(* Properties *)

\* Every variable has its type; only a message that does not exist has no event;
\* the redrive keeps messages only while it is on.
CopyOK ==
    /\ copy \in [Copy -> Message]
    /\ \A c \in Copy : copy[c].event = None <=> copy[c].at = "none"
TypeOK ==
    /\ CopyOK
    /\ handed \in [Event -> Nat] /\ sent \in [Event -> Nat]
    /\ discarded \in [Event -> Nat]
    /\ expired \subseteq Event /\ doubt \subseteq Event
    /\ redrive \in Redrive
    /\ ~redrive.on => In({"held", "confirming"}) = {}
    /\ faults \in Nat /\ runs \in Nat

\* At least once: an event handed to RabbitMQ is in some queue or handler, or
\* SMTP accepted it, or it had expired and an operator threw it away; through
\* every lost connection, refused retry and aborted redrive.  Messages about to
\* be acknowledged do not count.
Carried == {"main", "handling", "retry", "dlq", "held"}
NothingLost ==
    \A e \in Event : handed[e] > 0 =>
        \/ \E c \in Copy : copy[c].at \in Carried /\ copy[c].event = e
        \/ sent[e] > 0
        \/ discarded[e] > 0 /\ e \in expired

\* Exactly once when nothing went wrong: each copy the API handed over is in
\* exactly one place, or was mailed once, or was thrown away; retries and
\* redrives neither multiply nor swallow it.
EveryCopyAccounted ==
    \A e \in Event \ doubt :
        handed[e] = sent[e] + discarded[e]
                    + Cardinality({c \in In(Carried) : copy[c].event = e})

\* Only invalid, expired and exhausted events lie in the DLQ (README), also
\* after a redrive gave them back.
DeadForCause ==
    \A c \in In({"dlq", "held", "confirming"}) :
        Rejected(copy[c].event) \/ Exhausted(copy[c].retry)

\* A message leaves the quarantine only through a redrive that selects it; an
\* expired one only when the operator asked to discard.
QuarantineKept ==
    [][\A c \in In({"dlq", "held"}) :
          copy'[c].at \notin {"dlq", "held"} =>
              /\ redrive.on /\ Selected(copy[c].event)
              /\ copy[c].event \in expired => redrive.discard]_vars

\* What the mail service promises of its queues as a whole: an event in the main
\* or a retry queue or in a handler is owed; it leaves them because SMTP took the
\* mail or because it lies in the DLQ, until an operator redrives it or throws it
\* away; it is never in none of these places without having been mailed.
Pending == Unacked \cup {"main", "retry"}
Quarantine == {"dlq", "held", "confirming"}
CopiesOf(e, P) == {c \in In(P) : copy[c].event = e}
DutyOf(e) ==
    IF handed[e] = 0 THEN "none"
    ELSE IF CopiesOf(e, Pending) # {} THEN "owed"
    ELSE IF CopiesOf(e, Quarantine) # {} THEN "dropped"
    ELSE IF sent[e] > 0 THEN "done"
    ELSE IF discarded[e] > 0 THEN "dropped" ELSE "lost"
Handed == INSTANCE Handoff WITH
    Item <- Event, Redo <- TRUE, duty <- [e \in Event |-> DutyOf(e)], out <- sent
QueuesHandOn == Handed!Spec

\* Every event handed over is mailed or reaches the DLQ: failing SMTP servers and
\* lost connections delay the verdict, they never make it circle for ever.
EveryMailSettles ==
    \A e \in Event : handed[e] > 0 ~>
        \/ sent[e] > 0 \/ discarded[e] > 0
        \/ \E c \in In({"dlq", "held", "confirming"}) : copy[c].event = e
==============================================================================
