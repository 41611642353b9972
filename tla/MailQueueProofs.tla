--------------------------- MODULE MailQueueProofs ---------------------------
(****************************************************************************)
(* Proofs about MailQueue, for every set of events and any number of        *)
(* messages, retries, publications, faults and redrive runs.                *)
(****************************************************************************)
EXTENDS MailQueue, FiniteSetTheorems, TLAPS

USE MailQueueAssumption

LEMMA CopyCard ==
    ASSUME NEW S \in SUBSET Copy
    PROVE  IsFiniteSet(S) /\ Cardinality(S) \in Nat
  BY FS_Subset, FS_CardinalityType

LEMMA MessageType ==
    ASSUME NEW at \in Place, NEW e \in Event \cup {None}, NEW n \in 0 .. MaxRetry
    PROVE  /\ Message0(at, e, n) \in Message
           /\ Message0(at, e, n).at = at /\ Message0(at, e, n).event = e
  BY DEF Message0, Message

LEMMA MoveType ==
    ASSUME CopyOK, NEW c \in Copy, copy[c].at # "none",
           NEW at \in Place \ {"none"}, MoveTo(c, at)
    PROVE  CopyOK'
  BY DEF CopyOK, MoveTo, Message

LEMMA RemoveType ==
    ASSUME CopyOK, NEW c \in Copy, Remove(c)
    PROVE  CopyOK'
<1>1. Gone \in Message /\ Gone.at = "none" /\ Gone.event = None
  BY MessageType DEF Gone, Place
<1> QED BY <1>1 DEF CopyOK, Remove

LEMMA ReplaceType ==
    ASSUME CopyOK, NEW c \in Copy, NEW d \in Copy,
           copy[c].at # "none", copy[d].at = "none",
           NEW at \in Place \ {"none"}, NEW place \in Place \ {"none"},
           NEW n \in 0 .. MaxRetry, Replace(c, at, d, place, n)
    PROVE  CopyOK'
<1>1. copy[c].event \in Event /\ copy[c] \in Message /\ c # d
  BY DEF CopyOK, Message
<1>2. /\ Message0(place, copy[c].event, n) \in Message
      /\ Message0(place, copy[c].event, n).at = place
      /\ Message0(place, copy[c].event, n).event = copy[c].event
  BY <1>1, MessageType
<1>3. [copy[c] EXCEPT !.at = at] \in Message
  BY <1>1 DEF Message
<1>4. copy' \in [Copy -> Message]
  BY <1>1, <1>2, <1>3 DEF CopyOK, Replace
<1>5. \A x \in Copy : copy'[x].event = None <=> copy'[x].at = "none"
  BY <1>1, <1>2, <1>4 DEF CopyOK, Replace, Message
<1> QED BY <1>4, <1>5 DEF CopyOK

LEMMA ReturnType ==
    ASSUME CopyOK, Return
    PROVE  CopyOK' /\ In({"held", "confirming"})' = {} /\ ~redrive'.on
<1>1. \A c \in Copy : copy[c] \in Message
  BY DEF CopyOK
<1>2. CopyOK'
  BY <1>1 DEF CopyOK, Return, Message, Place
<1>3. \A c \in Copy : copy'[c].at \notin {"held", "confirming"}
  BY <1>1 DEF Return, Message
<1> QED BY <1>2, <1>3 DEF In, Return, Off

------------------------------------------------------------------------------
(* Type correctness *)

\* What the handler leaves alone.
LEMMA HandlerType ==
    ASSUME TypeOK, NEW c \in Copy, Handler(c)
    PROVE  TypeOK'
<1>1. /\ CopyOK /\ copy[c] \in Message /\ copy \in [Copy -> Message]
      /\ copy[c].at # "none" => copy[c].event \in Event
  BY DEF TypeOK, CopyOK, Message
<1>2. ASSUME CopyOK', UNCHANGED <<handed, expired, discarded, redrive, runs>>,
             sent' \in [Event -> Nat], doubt' \subseteq Event, faults' \in Nat,
             \A x \in Copy : copy'[x].at \in {"held", "confirming"} =>
                                 copy[x].at \in {"held", "confirming"}
      PROVE  TypeOK'
  BY <1>2 DEF TypeOK, In
<1>3. ASSUME NEW at \in Place \ {"none", "held", "confirming"}, copy[c].at # "none",
             MoveTo(c, at)
      PROVE  /\ CopyOK'
             /\ \A x \in Copy : copy'[x].at \in {"held", "confirming"} =>
                                    copy[x].at \in {"held", "confirming"}
  <2>1. CopyOK'
    BY <1>1, <1>3, MoveType
  <2> QED BY <1>1, <1>3, <2>1 DEF MoveTo, Message
<1>4. ASSUME Remove(c)
      PROVE  /\ CopyOK'
             /\ \A x \in Copy : copy'[x].at \in {"held", "confirming"} =>
                                    copy[x].at \in {"held", "confirming"}
  BY <1>1, <1>4, RemoveType DEF Remove, Gone, Message0
<1>5. Failing(c) => doubt' \subseteq Event
  BY <1>1 DEF Failing, TypeOK
<1>6. CASE Deliver(c)
  BY <1>2, <1>3, <1>6 DEF Deliver, Place, Unacked, TypeOK
<1>7. CASE SmtpAccept(c)
  <2>1. sent' \in [Event -> Nat]
    BY <1>1, <1>7 DEF SmtpAccept, TypeOK
  <2> QED BY <1>2, <1>3, <1>7, <2>1 DEF SmtpAccept, Place, Unacked, TypeOK
<1>8. CASE Ack(c) \/ RetryAck(c)
  BY <1>2, <1>4, <1>8 DEF Ack, RetryAck, TypeOK
<1>9. CASE FailExhausted(c)
  BY <1>2, <1>3, <1>5, <1>9 DEF FailExhausted, Failing, Place, TypeOK
<1>10. CASE FailRequeue(c)
  BY <1>2, <1>3, <1>5, <1>10 DEF FailRequeue, Failing, Place, TypeOK
<1>11. CASE RetryDue(c)
  BY <1>2, <1>3, <1>11 DEF RetryDue, Place, TypeOK
<1>12. ASSUME NEW d \in Copy, FailRetry(c, d) PROVE TypeOK'
  <2>1. copy[c].retry + 1 \in 0 .. MaxRetry
    BY <1>1, <1>12 DEF FailRetry, Exhausted, Message
  <2>2. CopyOK'
    BY <1>1, <1>12, <2>1, ReplaceType DEF FailRetry, Failing, Place, Unacked
  <2>3. \A x \in Copy : copy'[x].at \in {"held", "confirming"} =>
                            copy[x].at \in {"held", "confirming"}
    BY <1>1, <1>12 DEF FailRetry, Replace, Message0, Message
  <2> QED BY <1>2, <1>5, <1>12, <2>2, <2>3 DEF FailRetry, TypeOK
<1> QED BY <1>6, <1>7, <1>8, <1>9, <1>10, <1>11, <1>12 DEF Handler

LEMMA RedriveType ==
    ASSUME TypeOK, RedriveStep \/ RedriveAbort
    PROVE  TypeOK'
<1>1. CopyOK /\ copy \in [Copy -> Message] /\ redrive \in Redrive
  BY DEF TypeOK, CopyOK
<1>2. \A c \in Copy : copy[c].at # "none" => copy[c].event \in Event
  BY <1>1 DEF CopyOK, Message
<1>3. /\ Scanning /\ Scan => redrive' \in Redrive /\ redrive'.on
      /\ redrive.on /\ redrive' = [redrive EXCEPT !.redriven = @ + 1]
             => redrive' \in Redrive /\ redrive'.on
      /\ redrive' = Off => redrive' \in Redrive
  <2>1. Scanning /\ Scan => redrive' \in Redrive /\ redrive'.on
    BY <1>1 DEF Scanning, Scan, Redrive
  <2>2. redrive.on /\ redrive' = [redrive EXCEPT !.redriven = @ + 1]
            => redrive' \in Redrive /\ redrive'.on
    BY <1>1 DEF Redrive
  <2>3. Off \in Redrive
    BY DEF Off, Redrive
  <2> QED BY <2>1, <2>2, <2>3
<1>4. ASSUME NEW c \in Copy, RedriveHold(c) PROVE TypeOK'
  <2>1. CopyOK'
    BY <1>1, <1>4, MoveType DEF RedriveHold, Place
  <2> QED BY <1>3, <1>4, <2>1 DEF RedriveHold, TypeOK
<1>5. ASSUME NEW c \in Copy, RedriveDiscard(c) PROVE TypeOK'
  <2>1. CopyOK'
    BY <1>1, <1>5, RemoveType DEF RedriveDiscard
  <2>2. discarded' \in [Event -> Nat]
    BY <1>2, <1>5 DEF RedriveDiscard, TypeOK
  <2> QED BY <1>3, <1>5, <2>1, <2>2 DEF RedriveDiscard, TypeOK
<1>6. ASSUME NEW c \in Copy, RedriveConfirm(c) PROVE TypeOK'
  <2>1. CopyOK'
    BY <1>1, <1>6, RemoveType DEF RedriveConfirm
  <2> QED BY <1>3, <1>6, <2>1 DEF RedriveConfirm, TypeOK
<1>7. ASSUME NEW c \in Copy, NEW d \in Copy, RedriveSend(c, d) PROVE TypeOK'
  <2>1. CopyOK'
    BY <1>1, <1>7, ReplaceType DEF RedriveSend, Place
  <2> QED BY <1>3, <1>7, <2>1 DEF RedriveSend, TypeOK
<1>8. CASE RedriveEnd
  BY <1>1, <1>3, <1>8, ReturnType DEF RedriveEnd, Return, TypeOK
<1>9. CASE RedriveAbort
  <2>1. doubt' \subseteq Event
    BY <1>2, <1>9 DEF RedriveAbort, TypeOK, In
  <2> QED BY <1>1, <1>3, <1>9, <2>1, ReturnType DEF RedriveAbort, Return, TypeOK
<1> QED BY <1>4, <1>5, <1>6, <1>7, <1>8, <1>9 DEF RedriveStep

LEMMA OtherType ==
    ASSUME TypeOK,
           \/ \E e \in Event, c \in Copy : Publish(e, c)
           \/ \E e \in Event : Expire(e)
           \/ \E A \in SUBSET Copy : Disconnect(A)
           \/ \E t \in Event \cup {None}, n \in Limits, b \in BOOLEAN :
                  RedriveStart(t, n, b)
    PROVE  TypeOK'
<1>1. CopyOK /\ copy \in [Copy -> Message]
  BY DEF TypeOK, CopyOK
<1>2. ASSUME NEW e \in Event, NEW c \in Copy, Publish(e, c) PROVE TypeOK'
  <2>1. /\ Message0("main", e, 0) \in Message
        /\ Message0("main", e, 0).at = "main" /\ Message0("main", e, 0).event = e
    BY MessageType DEF Place
  <2>2. CopyOK'
    BY <1>1, <1>2, <2>1 DEF Publish, CopyOK
  <2>3. \A x \in Copy : copy'[x].at \in {"held", "confirming"} =>
                            copy[x].at \in {"held", "confirming"}
    BY <1>1, <1>2, <2>1 DEF Publish
  <2> QED BY <1>2, <2>2, <2>3 DEF Publish, TypeOK, In
<1>3. ASSUME NEW e \in Event, Expire(e) PROVE TypeOK'
  BY <1>3 DEF Expire, TypeOK, CopyOK, In
<1>4. ASSUME NEW A \in SUBSET Copy, Disconnect(A) PROVE TypeOK'
  <2>1. \A e \in Event : Cardinality({c \in A : copy[c].event = e}) \in Nat
    BY CopyCard
  <2>2. sent' \in [Event -> Nat]
    BY <1>4, <2>1 DEF Disconnect, TypeOK
  <2>3. \A c \in Copy : copy[c].at # "none" => copy[c].event \in Event
    BY <1>1 DEF CopyOK, Message
  <2>4. doubt' \subseteq Event
    BY <1>4, <2>3 DEF Disconnect, TypeOK, In
  <2>5. CopyOK'
    BY <1>1, <1>4 DEF Disconnect, CopyOK, Message, In, Unacked, Place
  <2>6. \A x \in Copy : copy'[x].at \in {"held", "confirming"} =>
                            copy[x].at \in {"held", "confirming"}
    BY <1>1, <1>4 DEF Disconnect, Message
  <2> QED BY <1>4, <2>2, <2>4, <2>5, <2>6 DEF Disconnect, TypeOK, In
<1>5. ASSUME NEW t \in Event \cup {None}, NEW n \in Limits, NEW b \in BOOLEAN,
             RedriveStart(t, n, b)
      PROVE  TypeOK'
  <2>1. Cardinality(In({"dlq"})) \in Nat
    BY CopyCard DEF In
  <2>2. redrive' \in Redrive /\ redrive'.on
    BY <1>5, <2>1 DEF RedriveStart, Redrive
  <2> QED BY <1>5, <2>2 DEF RedriveStart, TypeOK, CopyOK
<1> QED BY <1>2, <1>3, <1>4, <1>5

LEMMA TypeInit == Init => TypeOK
<1>1. Gone \in Message /\ Gone.at = "none" /\ Gone.event = None
  BY MessageType DEF Gone, Place
<1> QED BY <1>1 DEF Init, TypeOK, CopyOK, Redrive, Off, In

\* Every reachable state is well typed, and a redrive that is over keeps nothing.
THEOREM TypeCorrect == Spec => []TypeOK
<1>1. TypeOK /\ [Next]_vars => TypeOK'
  <2>1. TypeOK /\ UNCHANGED vars => TypeOK'
    BY DEF vars, TypeOK, CopyOK, In
  <2> QED BY <2>1, HandlerType, RedriveType, OtherType DEF Next
<1> QED BY <1>1, TypeInit, PTL DEF Spec

------------------------------------------------------------------------------
(* At least once *)

\* The evidence that event e is not lost, as NothingLost asks for it.
Safe(e) ==
    \/ \E c \in Copy : copy[c].at \in Carried /\ copy[c].event = e
    \/ sent[e] > 0
    \/ discarded[e] > 0 /\ e \in expired

\* A step that takes away no evidence but that of message c, which it replaces.
LEMMA KeepSafe ==
    ASSUME TypeOK, NEW e \in Event, Safe(e), NEW c \in Copy,
           \A x \in Copy \ {c} : copy[x].at \in Carried => copy'[x] = copy[x],
           sent'[e] >= sent[e], discarded'[e] >= discarded[e], expired \subseteq expired',
           TypeOK',
           copy[c].at \in Carried /\ copy[c].event = e => Safe(e)'
    PROVE  Safe(e)'
  BY DEF Safe, TypeOK

LEMMA HandlerSafe ==
    ASSUME TypeOK, TypeOK', NEW c \in Copy, Handler(c), NEW e \in Event, Safe(e)
    PROVE  Safe(e)'
<1>1. /\ copy \in [Copy -> Message] /\ copy[c] \in Message
      /\ sent[e] \in Nat /\ discarded[e] \in Nat
  BY DEF TypeOK, CopyOK
<1>2. ASSUME NEW at \in Carried, MoveTo(c, at), sent' = sent, discarded' = discarded,
             expired' = expired
      PROVE  Safe(e)'
  <2>1. copy[c].event = e => Safe(e)'
    BY <1>1, <1>2 DEF MoveTo, Safe, Message
  <2> QED BY <1>1, <1>2, <2>1, KeepSafe DEF MoveTo
<1>3. ASSUME Remove(c), copy[c].at \notin Carried, sent' = sent,
             discarded' = discarded, expired' = expired
      PROVE  Safe(e)'
  BY <1>1, <1>3, KeepSafe DEF Remove
<1>4. CASE Deliver(c)
  BY <1>2, <1>4 DEF Deliver, Carried
<1>5. CASE SmtpAccept(c)
  <2>1. copy[c].event = e => sent'[e] > 0
    BY <1>1, <1>5 DEF SmtpAccept, TypeOK
  <2>2. sent'[e] >= sent[e]
    BY <1>1, <1>5 DEF SmtpAccept, TypeOK
  <2>3. copy[c].event = e => Safe(e)'
    BY <2>1 DEF Safe
  <2> QED BY <1>1, <1>5, <2>2, <2>3, KeepSafe DEF SmtpAccept, MoveTo
<1>6. CASE Ack(c) \/ RetryAck(c)
  BY <1>3, <1>6 DEF Ack, RetryAck, Carried
<1>7. CASE FailExhausted(c)
  BY <1>2, <1>7 DEF FailExhausted, Carried
<1>8. CASE FailRequeue(c)
  BY <1>2, <1>8 DEF FailRequeue, Carried
<1>9. CASE RetryDue(c)
  BY <1>2, <1>9 DEF RetryDue, Carried
<1>10. ASSUME NEW d \in Copy, FailRetry(c, d) PROVE Safe(e)'
  <2>1. copy'[d] = Message0("retry", copy[c].event, copy[c].retry + 1)
    BY <1>1, <1>10 DEF FailRetry, Replace
  <2>2. copy[c].event = e => Safe(e)'
    BY <2>1 DEF Safe, Message0, Carried
  <2>3. \A x \in Copy \ {c} : copy[x].at \in Carried => copy'[x] = copy[x]
    BY <1>1, <1>10 DEF FailRetry, Replace, Carried
  <2> QED BY <1>1, <1>10, <2>2, <2>3, KeepSafe DEF FailRetry
<1> QED BY <1>4, <1>5, <1>6, <1>7, <1>8, <1>9, <1>10 DEF Handler

LEMMA RedriveSafe ==
    ASSUME TypeOK, TypeOK', RedriveStep \/ RedriveAbort, NEW e \in Event, Safe(e)
    PROVE  Safe(e)'
<1>1. /\ copy \in [Copy -> Message] /\ sent[e] \in Nat /\ discarded[e] \in Nat
  BY DEF TypeOK, CopyOK
<1>2. ASSUME NEW c \in Copy, RedriveHold(c) PROVE Safe(e)'
  <2>1. copy[c].event = e => Safe(e)'
    BY <1>1, <1>2 DEF RedriveHold, MoveTo, Safe, Carried, Message
  <2> QED BY <1>1, <1>2, <2>1, KeepSafe DEF RedriveHold, MoveTo
<1>3. ASSUME NEW c \in Copy, RedriveDiscard(c) PROVE Safe(e)'
  <2>1. copy[c].event = e => discarded'[e] > 0 /\ e \in expired'
    BY <1>1, <1>3 DEF RedriveDiscard, TypeOK
  <2>2. discarded'[e] >= discarded[e]
    BY <1>1, <1>3 DEF RedriveDiscard, TypeOK
  <2>3. copy[c].event = e => Safe(e)'
    BY <2>1 DEF Safe
  <2> QED BY <1>1, <1>3, <2>2, <2>3, KeepSafe DEF RedriveDiscard, Remove
<1>4. ASSUME NEW c \in Copy, RedriveConfirm(c) PROVE Safe(e)'
  BY <1>1, <1>4, KeepSafe DEF RedriveConfirm, Remove, Carried
<1>5. ASSUME NEW c \in Copy, NEW d \in Copy, RedriveSend(c, d) PROVE Safe(e)'
  <2>1. copy'[d] = Message0("main", copy[c].event, 0)
    BY <1>1, <1>5 DEF RedriveSend, Replace
  <2>2. copy[c].event = e => Safe(e)'
    BY <2>1 DEF Safe, Message0, Carried
  <2>3. \A x \in Copy \ {c} : copy[x].at \in Carried => copy'[x] = copy[x]
    BY <1>1, <1>5 DEF RedriveSend, Replace, Carried
  <2> QED BY <1>1, <1>5, <2>2, <2>3, KeepSafe DEF RedriveSend
<1>6. ASSUME Return, UNCHANGED <<sent, expired, discarded>> PROVE Safe(e)'
  <2>1. \A x \in Copy : copy[x].at \in Carried =>
                            copy'[x].at \in Carried /\ copy'[x].event = copy[x].event
    BY <1>1, <1>6 DEF Return, Carried, Message
  <2> QED BY <1>6, <2>1 DEF Safe
<1>7. CASE RedriveEnd \/ RedriveAbort
  BY <1>6, <1>7 DEF RedriveEnd, RedriveAbort
<1> QED BY <1>2, <1>3, <1>4, <1>5, <1>7 DEF RedriveStep

LEMMA DisconnectSafe ==
    ASSUME TypeOK, NEW A \in SUBSET Copy, Disconnect(A), NEW e \in Event, Safe(e)
    PROVE  Safe(e)'
<1>1. copy \in [Copy -> Message] /\ sent[e] \in Nat
  BY DEF TypeOK, CopyOK
<1>2. sent'[e] >= sent[e]
  <2>1. sent'[e] = sent[e] + Cardinality({c \in A : copy[c].event = e})
    BY DEF Disconnect
  <2>2. Cardinality({c \in A : copy[c].event = e}) \in Nat
    BY CopyCard
  <2> QED BY <1>1, <2>1, <2>2
<1>3. \A x \in Copy : copy[x].at \in Carried =>
                          copy'[x].at \in Carried /\ copy'[x].event = copy[x].event
  BY <1>1 DEF Disconnect, Carried, Message, In
<1>4. sent'[e] \in Int /\ (sent[e] > 0 => sent'[e] > 0)
  <2>1. Cardinality({c \in A : copy[c].event = e}) \in Nat
    BY CopyCard
  <2> QED BY <1>1, <2>1 DEF Disconnect
<1> QED BY <1>3, <1>4 DEF Safe, Disconnect

LEMMA SafeStep ==
    TypeOK /\ TypeOK' /\ NothingLost /\ [Next]_vars => NothingLost'
<1> SUFFICES ASSUME TypeOK, TypeOK', NothingLost, [Next]_vars,
                    NEW e \in Event, handed'[e] > 0
             PROVE  Safe(e)'
  BY DEF NothingLost, Safe
<1>1. copy \in [Copy -> Message] /\ handed \in [Event -> Nat]
  BY DEF TypeOK, CopyOK
<1>2. handed[e] > 0 => Safe(e)
  BY DEF NothingLost, Safe
<1>3. ASSUME NEW f \in Event, NEW c \in Copy, Publish(f, c) PROVE Safe(e)'
  <2>1. CASE e = f
    <3>1. copy'[c].at = "main" /\ copy'[c].event = e
      BY <1>1, <1>3, <2>1 DEF Publish, Message0
    <3> QED BY <3>1 DEF Safe, Carried
  <2>2. CASE e # f
    <3>1. Safe(e)
      BY <1>1, <1>2, <1>3, <2>2 DEF Publish
    <3>2. \A x \in Copy : copy[x].at \in Carried => copy'[x] = copy[x]
      BY <1>1, <1>3 DEF Publish, Carried
    <3> QED BY <1>3, <3>1, <3>2 DEF Safe, Publish
  <2> QED BY <2>1, <2>2
<1>4. CASE UNCHANGED handed /\ \E f \in Event : Expire(f)
  BY <1>2, <1>4 DEF Expire, Safe
<1>5. CASE \E c \in Copy : Handler(c)
  <2>1. handed' = handed
    BY <1>5 DEF Handler, Deliver, SmtpAccept, Ack, FailExhausted, FailRequeue,
                RetryAck, RetryDue, FailRetry
  <2> QED BY <1>2, <1>5, <2>1, HandlerSafe
<1>6. CASE \E A \in SUBSET Copy : Disconnect(A)
  <2>1. handed' = handed
    BY <1>6 DEF Disconnect
  <2> QED BY <1>2, <1>6, <2>1, DisconnectSafe
<1>7. CASE RedriveStep \/ RedriveAbort
  <2>1. handed' = handed
    BY <1>7 DEF RedriveStep, RedriveHold, RedriveDiscard, RedriveConfirm,
                RedriveSend, RedriveEnd, RedriveAbort
  <2> QED BY <1>2, <1>7, <2>1, RedriveSafe
<1>8. CASE \/ UNCHANGED vars
           \/ \E t \in Event \cup {None}, n \in Limits, b \in BOOLEAN :
                  RedriveStart(t, n, b)
  BY <1>2, <1>8 DEF RedriveStart, vars, Safe
<1>9. (\E f \in Event : Expire(f)) => UNCHANGED handed
  BY DEF Expire
<1> QED BY <1>3, <1>4, <1>5, <1>6, <1>7, <1>8, <1>9 DEF Next

\* No mail is lost between RabbitMQ and SMTP: through any number of lost
\* connections, failed retries and aborted redrives, an event the API handed
\* over is in a queue, was accepted by SMTP, or was discarded after its expiry.
THEOREM AtLeastOnce == Spec => []NothingLost
<1>1. Init => NothingLost
  BY DEF Init, NothingLost
<1>2. TypeOK /\ TypeOK' /\ NothingLost /\ [Next]_vars => NothingLost'
  BY SafeStep
<1> QED BY <1>1, <1>2, TypeCorrect, PTL DEF Spec

------------------------------------------------------------------------------
(* The queues hand on *)

\* Every message is of an event that the API handed over.
CopiesHanded == \A c \in Copy : copy[c].at # "none" => handed[copy[c].event] > 0

\* Messages change their place, never their event; a new one has the event of an
\* old one, or of the publication.
LEMMA EventStep ==
    ASSUME TypeOK, [Next]_vars, NEW c \in Copy, copy'[c].at # "none"
    PROVE  \/ \E d \in Copy : copy[d].at # "none" /\ copy'[c].event = copy[d].event
           \/ handed' = [handed EXCEPT ![copy'[c].event] = @ + 1]
<1>1. copy \in [Copy -> Message] /\ handed \in [Event -> Nat]
  BY DEF TypeOK, CopyOK
<1>2. ASSUME NEW d \in Copy, NEW at, MoveTo(d, at), copy[d].at # "none"
      PROVE  copy[c].at # "none" /\ copy'[c].event = copy[c].event
  BY <1>1, <1>2 DEF MoveTo, Message
<1>3. ASSUME NEW d \in Copy, Remove(d)
      PROVE  copy[c].at # "none" /\ copy'[c].event = copy[c].event
  <2>1. Gone.at = "none"
    BY DEF Gone, Message0
  <2> QED BY <1>1, <1>3, <2>1 DEF Remove
<1>4. ASSUME NEW x \in Copy, NEW d \in Copy, copy[x].at # "none",
             NEW at, NEW place, NEW n, Replace(x, at, d, place, n)
      PROVE  \E y \in Copy : copy[y].at # "none" /\ copy'[c].event = copy[y].event
  <2>1. CASE c = d
    <3>1. copy'[c] = Message0(place, copy[x].event, n)
      BY <1>1, <1>4, <2>1 DEF Replace
    <3> QED BY <1>4, <3>1 DEF Message0
  <2>2. CASE c # d
    BY <1>1, <1>4, <2>2 DEF Replace, Message
  <2> QED BY <2>1, <2>2
<1>5. ASSUME NEW e \in Event, NEW d \in Copy, Publish(e, d)
      PROVE  \/ copy[c].at # "none" /\ copy'[c].event = copy[c].event
             \/ handed' = [handed EXCEPT ![copy'[c].event] = @ + 1]
  <2>1. Message0("main", e, 0).event = e
    BY DEF Message0
  <2> QED BY <1>1, <1>5, <2>1 DEF Publish
<1>6. ASSUME NEW A \in SUBSET Copy, Disconnect(A)
      PROVE  copy[c].at # "none" /\ copy'[c].event = copy[c].event
  BY <1>1, <1>6 DEF Disconnect, In, Unacked, Message
<1>7. Return => copy[c].at # "none" /\ copy'[c].event = copy[c].event
  BY <1>1 DEF Return, Message
<1>8. CASE \E d \in Copy : Handler(d)
  <2> PICK d \in Copy : Handler(d)
    BY <1>8
  <2>1. CASE \/ Deliver(d) \/ SmtpAccept(d) \/ FailExhausted(d)
             \/ FailRequeue(d) \/ RetryDue(d)
    BY <1>2, <2>1 DEF Deliver, SmtpAccept, FailExhausted, FailRequeue, RetryDue, Failing
  <2>2. CASE Ack(d) \/ RetryAck(d)
    BY <1>3, <2>2 DEF Ack, RetryAck
  <2>3. CASE \E x \in Copy : FailRetry(d, x)
    BY <1>4, <2>3 DEF FailRetry, Failing
  <2> QED BY <2>1, <2>2, <2>3 DEF Handler
<1>9. CASE RedriveStep \/ RedriveAbort
  <2>1. ASSUME NEW d \in Copy, RedriveHold(d)
        PROVE  copy[c].at # "none" /\ copy'[c].event = copy[c].event
    BY <1>2, <2>1 DEF RedriveHold
  <2>2. ASSUME NEW d \in Copy, RedriveDiscard(d) \/ RedriveConfirm(d)
        PROVE  copy[c].at # "none" /\ copy'[c].event = copy[c].event
    BY <1>3, <2>2 DEF RedriveDiscard, RedriveConfirm
  <2>3. ASSUME NEW x \in Copy, NEW d \in Copy, RedriveSend(x, d)
        PROVE  \E y \in Copy : copy[y].at # "none" /\ copy'[c].event = copy[y].event
    BY <1>4, <2>3 DEF RedriveSend
  <2>4. RedriveEnd \/ RedriveAbort => Return
    BY DEF RedriveEnd, RedriveAbort
  <2> QED BY <1>7, <1>9, <2>1, <2>2, <2>3, <2>4 DEF RedriveStep
<1>10. CASE \/ UNCHANGED vars \/ \E e \in Event : Expire(e)
            \/ \E t \in Event \cup {None}, n \in Limits, b \in BOOLEAN :
                   RedriveStart(t, n, b)
  BY <1>10 DEF vars, Expire, RedriveStart
<1> QED BY <1>5, <1>6, <1>8, <1>9, <1>10 DEF Next

\* Only the API publishes an event, and what it publishes lies in the main queue.
LEMMA HandedStep ==
    ASSUME TypeOK, [Next]_vars, NEW e \in Event
    PROVE  \/ handed'[e] = handed[e]
           \/ /\ handed'[e] = handed[e] + 1 /\ sent' = sent
              /\ \E c \in Copy : copy'[c].at = "main" /\ copy'[c].event = e
<1>1. copy \in [Copy -> Message] /\ handed \in [Event -> Nat]
  BY DEF TypeOK, CopyOK
<1>2. ASSUME NEW f \in Event, NEW c \in Copy, Publish(f, c), e = f
      PROVE  copy'[c].at = "main" /\ copy'[c].event = e
  BY <1>1, <1>2 DEF Publish, Message0
<1>3. ASSUME NEW f \in Event, NEW c \in Copy, Publish(f, c)
      PROVE  \/ handed'[e] = handed[e]
             \/ e = f /\ handed'[e] = handed[e] + 1 /\ sent' = sent
  BY <1>1, <1>3 DEF Publish
<1>4. CASE ~ \E f \in Event, c \in Copy : Publish(f, c)
  <2>1. (\E c \in Copy : Handler(c)) => handed' = handed
    BY DEF Handler, Deliver, SmtpAccept, Ack, FailExhausted, FailRequeue,
           RetryAck, RetryDue, FailRetry
  <2>2. RedriveStep \/ RedriveAbort => handed' = handed
    BY DEF RedriveStep, RedriveHold, RedriveDiscard, RedriveConfirm,
           RedriveSend, RedriveEnd, RedriveAbort
  <2> QED BY <1>4, <2>1, <2>2 DEF Next, Expire, Disconnect, RedriveStart, vars
<1> QED BY <1>2, <1>3, <1>4

\* Only a handler has a mail accepted, and its message is still there when it has.
LEMMA SentStep ==
    ASSUME TypeOK, [Next]_vars, NEW e \in Event
    PROVE  \/ sent'[e] = sent[e]
           \/ /\ sent'[e] > sent[e]
              /\ \E c \in Copy : /\ copy[c].at = "handling" /\ copy[c].event = e
                                 /\ copy'[c].at \in Pending /\ copy'[c].event = e
<1>1. copy \in [Copy -> Message] /\ sent \in [Event -> Nat]
  BY DEF TypeOK, CopyOK
<1>2. ASSUME NEW c \in Copy, SmtpAccept(c), copy[c].event = e
      PROVE  /\ sent'[e] > sent[e]
             /\ copy[c].at = "handling"
             /\ copy'[c].at \in Pending /\ copy'[c].event = e
  BY <1>1, <1>2 DEF SmtpAccept, MoveTo, Message, Pending, Unacked
<1>3. ASSUME NEW c \in Copy, SmtpAccept(c), copy[c].event # e
      PROVE  sent'[e] = sent[e]
  BY <1>1, <1>3 DEF SmtpAccept
<1>4. ASSUME NEW A \in SUBSET Copy, Disconnect(A), sent'[e] # sent[e]
      PROVE  /\ sent'[e] > sent[e]
             /\ \E c \in Copy : /\ copy[c].at = "handling" /\ copy[c].event = e
                                /\ copy'[c].at \in Pending /\ copy'[c].event = e
  <2> DEFINE M == {c \in A : copy[c].event = e}
  <2>1. IsFiniteSet(M) /\ Cardinality(M) \in Nat
    BY CopyCard
  <2>2. sent'[e] = sent[e] + Cardinality(M)
    BY <1>4 DEF Disconnect
  <2>3. M # {} /\ sent'[e] > sent[e]
    BY <1>1, <1>4, <2>1, <2>2, FS_EmptySet
  <2>4. PICK c \in Copy : c \in M
    BY <2>3
  <2>5. copy[c].at = "handling" /\ copy[c].event = e /\ c \in In(Unacked)
    BY <1>4, <2>4 DEF Disconnect, In, Unacked
  <2>6. copy'[c].at = "main" /\ copy'[c].event = e
    BY <1>1, <1>4, <2>5 DEF Disconnect, Message
  <2> QED BY <2>3, <2>5, <2>6 DEF Pending
<1>5. CASE \E c \in Copy : Handler(c)
  <2>1. (\E c \in Copy : SmtpAccept(c)) \/ sent' = sent
    BY <1>5 DEF Handler, Deliver, Ack, FailExhausted, FailRequeue,
                RetryAck, RetryDue, FailRetry
  <2> QED BY <1>2, <1>3, <2>1
<1>6. RedriveStep \/ RedriveAbort => sent' = sent
  BY DEF RedriveStep, RedriveHold, RedriveDiscard, RedriveConfirm,
         RedriveSend, RedriveEnd, RedriveAbort
<1> QED BY <1>4, <1>5, <1>6 DEF Next, Publish, Expire, RedriveStart, vars

LEMMA CopiesHandedStep ==
    ASSUME TypeOK, TypeOK', CopiesHanded, [Next]_vars
    PROVE  CopiesHanded'
<1> SUFFICES ASSUME NEW c \in Copy, copy'[c].at # "none"
             PROVE  handed'[copy'[c].event] > 0
  BY DEF CopiesHanded
<1>1. /\ copy \in [Copy -> Message] /\ handed \in [Event -> Nat]
      /\ copy'[c].event \in Event
      /\ \A d \in Copy : copy[d].at # "none" => copy[d].event \in Event
  BY DEF TypeOK, CopyOK, Message
<1>2. ASSUME NEW d \in Copy, copy[d].at # "none", copy'[c].event = copy[d].event
      PROVE  handed'[copy'[c].event] > 0
  BY <1>1, <1>2, HandedStep DEF CopiesHanded
<1> QED BY <1>1, <1>2, EventStep

QueueInv == TypeOK /\ NothingLost /\ CopiesHanded

\* No event is lost: each is owed, dropped or done, before and after every step.
DutiesKnown == \A e \in Event : DutyOf(e) \in {"none", "owed", "dropped", "done"}

LEMMA DutyRange == QueueInv => DutiesKnown
<1> SUFFICES ASSUME QueueInv, NEW e \in Event
             PROVE  DutyOf(e) \in {"none", "owed", "dropped", "done"}
  BY DEF DutiesKnown
<1>1. \A c \in Copy : copy[c].at \in Carried /\ copy[c].event = e =>
          c \in CopiesOf(e, Pending) \/ c \in CopiesOf(e, Quarantine)
  BY DEF CopiesOf, In, Carried, Pending, Quarantine, Unacked
<1>2. handed[e] \in Nat
  BY DEF QueueInv, TypeOK
<1> QED BY <1>1, <1>2 DEF QueueInv, NothingLost, DutyOf

LEMMA DutyRangeNext == QueueInv' => DutiesKnown'
  BY DutyRange, PTL

LEMMA EventHandOn ==
    ASSUME QueueInv, QueueInv', [Next]_vars, NEW e \in Event
    PROVE  Handed!ItemStep(e)
<1>1. /\ handed[e] \in Nat /\ handed'[e] \in Nat /\ sent[e] \in Nat
      /\ \A c \in Copy : copy[c].at # "none" => handed[copy[c].event] > 0
  BY DEF QueueInv, TypeOK, CopiesHanded
<1>2. /\ DutyOf(e) \in {"none", "owed", "dropped", "done"}
      /\ DutyOf(e)' \in {"none", "owed", "dropped", "done"}
      /\ (DutyOf(e) = "none") <=> (handed[e] = 0)
      /\ (DutyOf(e)' = "none") <=> (handed'[e] = 0)
  <2>1. DutyOf(e)' \in {"none", "owed", "dropped", "done"}
    BY DutyRangeNext DEF DutiesKnown
  <2>2. DutyOf(e) \in {"none", "owed", "dropped", "done"}
    BY DutyRange DEF DutiesKnown
  <2> QED BY <2>1, <2>2 DEF DutyOf
<1>3. DutyOf(e) = "done" => sent[e] > 0
  BY DEF DutyOf
<1>4. \/ sent'[e] = sent[e]
      \/ sent'[e] > sent[e] /\ handed[e] > 0 /\ DutyOf(e)' = "owed"
  <2>1. ASSUME NEW c \in Copy, sent'[e] > sent[e],
               copy[c].at = "handling", copy[c].event = e,
               copy'[c].at \in Pending, copy'[c].event = e
        PROVE  handed[e] > 0 /\ DutyOf(e)' = "owed"
    <3>1. handed[e] > 0 /\ handed'[e] > 0
      BY <1>1, <2>1, HandedStep DEF QueueInv
    <3>2. c \in CopiesOf(e, Pending)'
      BY <2>1 DEF CopiesOf, In
    <3> QED BY <1>1, <3>1, <3>2 DEF DutyOf
  <2> QED BY <2>1, SentStep DEF QueueInv
<1>5. \/ handed'[e] = handed[e]
      \/ handed'[e] > 0 /\ sent'[e] = sent[e] /\ DutyOf(e)' = "owed"
  <2>1. ASSUME NEW c \in Copy, handed'[e] > 0, copy'[c].at = "main", copy'[c].event = e
        PROVE  DutyOf(e)' = "owed"
    <3>1. c \in CopiesOf(e, Pending)'
      BY <2>1 DEF CopiesOf, In, Pending
    <3> QED BY <1>1, <2>1, <3>1 DEF DutyOf
  <2> QED BY <1>1, <2>1, HandedStep DEF QueueInv
<1>6. DutyOf(e)' = "done" => sent'[e] > 0
  BY DEF DutyOf
<1>7. Handed!HandOn(e)
  BY <1>1, <1>2, <1>4 DEF Handed!HandOn
<1>8. DutyOf(e)' = "done" => sent[e] > 0
  BY <1>4, <1>6
<1>9. DutyOf(e) = "none" => DutyOf(e)' \in {"none", "owed"}
  BY <1>1, <1>2, <1>5
<1>10. DutyOf(e) # "none" => DutyOf(e)' # "none"
  BY <1>1, <1>2, <1>5
<1> QED BY <1>2, <1>7, <1>8, <1>9, <1>10
        DEF Handed!ItemStep, Handed!Becomes, Handed!Take, Handed!TakeAgain,
            Handed!Discharge, Handed!Drop

LEMMA QueueInitially == Init => QueueInv /\ Handed!Init
<1> SUFFICES ASSUME Init PROVE QueueInv /\ Handed!Init
  OBVIOUS
<1>1. TypeOK
  BY TypeInit
<1>2. NothingLost /\ CopiesHanded
  BY DEF Init, NothingLost, CopiesHanded, Gone, Message0
<1>3. \A e \in Event : DutyOf(e) = "none"
  BY DEF Init, DutyOf
<1> QED BY <1>1, <1>2, <1>3 DEF QueueInv, Init, Handed!Init

\* The queues keep the promise of the abstract hand-over: an event leaves them
\* only as mailed or openly as dropped, whatever is lost, retried or redriven.
THEOREM QueuesKeepPromise == Spec => QueuesHandOn
<1>1. QueueInv /\ QueueInv' /\ [Next]_vars =>
          [Handed!Next]_<<[e \in Event |-> DutyOf(e)], sent>>
  <2> SUFFICES ASSUME QueueInv, QueueInv', [Next]_vars PROVE Handed!Next
    OBVIOUS
  <2>1. \A e \in Event : Handed!ItemStep(e)
    BY EventHandOn
  <2>2. DOMAIN sent' = Event
    BY DEF QueueInv, TypeOK
  <2> QED BY <2>1, <2>2 DEF Handed!Next
<1>2. TypeOK /\ TypeOK' /\ CopiesHanded /\ [Next]_vars => CopiesHanded'
  BY CopiesHandedStep
<1>3. Init => CopiesHanded /\ Handed!Init
  BY QueueInitially DEF QueueInv
<1>4. Spec => [][Next]_vars
  BY PTL DEF Spec
<1>5. Spec => []CopiesHanded
  BY <1>2, <1>3, TypeCorrect, PTL DEF Spec
<1>6. Spec => []QueueInv
  BY <1>5, TypeCorrect, AtLeastOnce, PTL DEF QueueInv
<1> QED BY <1>1, <1>3, <1>4, <1>6, PTL DEF Spec, QueuesHandOn, Handed!Spec

------------------------------------------------------------------------------
(* The dead-letter queue *)

\* What lies in the quarantine after a step was there before, or came there for a
\* cause; a step changes the place of a message, not what it is.
Belongs(c) == \/ copy[c].at \in Quarantine
              \/ Rejected(copy[c].event) \/ Exhausted(copy[c].retry)
SameMail(c) == copy'[c].event = copy[c].event /\ copy'[c].retry = copy[c].retry

LEMMA QuarantineEntry ==
    ASSUME TypeOK, [Next]_vars, NEW c \in Copy, copy'[c].at \in Quarantine
    PROVE  SameMail(c) /\ Belongs(c)
<1> DEFINE Goal == SameMail(c) /\ Belongs(c)
<1> USE DEF SameMail, Belongs
<1>1. copy \in [Copy -> Message]
  BY DEF TypeOK, CopyOK
<1>2. ASSUME NEW d \in Copy, NEW at, MoveTo(d, at),
             at \in Quarantine => Belongs(d)
      PROVE  Goal
  BY <1>1, <1>2 DEF MoveTo, Message
<1>3. ASSUME NEW d \in Copy, Remove(d) PROVE Goal
  BY <1>1, <1>3 DEF Remove, Gone, Message0, Quarantine
<1>4. ASSUME NEW x \in Copy, NEW d \in Copy, NEW at, NEW place, NEW n,
             Replace(x, at, d, place, n), place \notin Quarantine,
             at \in Quarantine => copy[x].at \in Quarantine
      PROVE  Goal
  BY <1>1, <1>4 DEF Replace, Message0, Message
<1>5. Return => Goal
  BY <1>1 DEF Return, Message, Quarantine
<1>6. CASE \E d \in Copy : Handler(d)
  <2> PICK d \in Copy : Handler(d)
    BY <1>6
  <2>1. CASE \/ Deliver(d) \/ SmtpAccept(d) \/ FailExhausted(d)
             \/ FailRequeue(d) \/ RetryDue(d)
    BY <1>2, <2>1 DEF Deliver, SmtpAccept, FailExhausted, FailRequeue, RetryDue,
                      Failing, Quarantine
  <2>2. CASE Ack(d) \/ RetryAck(d)
    BY <1>3, <2>2 DEF Ack, RetryAck
  <2>3. CASE \E x \in Copy : FailRetry(d, x)
    BY <1>4, <2>3 DEF FailRetry, Quarantine
  <2> QED BY <2>1, <2>2, <2>3 DEF Handler
<1>7. CASE RedriveStep \/ RedriveAbort
  <2>1. ASSUME NEW d \in Copy, RedriveHold(d) PROVE Goal
    BY <1>2, <2>1 DEF RedriveHold, Quarantine
  <2>2. ASSUME NEW d \in Copy, RedriveDiscard(d) \/ RedriveConfirm(d) PROVE Goal
    BY <1>3, <2>2 DEF RedriveDiscard, RedriveConfirm
  <2>3. ASSUME NEW x \in Copy, NEW d \in Copy, RedriveSend(x, d) PROVE Goal
    BY <1>4, <2>3 DEF RedriveSend, Quarantine
  <2>4. RedriveEnd \/ RedriveAbort => Return
    BY DEF RedriveEnd, RedriveAbort
  <2> QED BY <1>5, <1>7, <2>1, <2>2, <2>3, <2>4 DEF RedriveStep
<1>8. ASSUME NEW e \in Event, NEW d \in Copy, Publish(e, d) PROVE Goal
  BY <1>1, <1>8 DEF Publish, Message0, Quarantine
<1>9. ASSUME NEW A \in SUBSET Copy, Disconnect(A) PROVE Goal
  BY <1>1, <1>9 DEF Disconnect, Message, Quarantine
<1>10. CASE \/ UNCHANGED vars \/ \E e \in Event : Expire(e)
            \/ \E t \in Event \cup {None}, n \in Limits, b \in BOOLEAN :
                   RedriveStart(t, n, b)
  BY <1>10 DEF vars, Expire, RedriveStart
<1> QED BY <1>6, <1>7, <1>8, <1>9, <1>10 DEF Next

LEMMA ExpiredGrows == [Next]_vars => expired \subseteq expired'
BY DEF Next, vars, Handler, Deliver, SmtpAccept, Ack, FailExhausted, FailRequeue,
       RetryAck, RetryDue, FailRetry, RedriveStep, RedriveHold, RedriveDiscard,
       RedriveConfirm, RedriveSend, RedriveEnd, RedriveAbort, Publish, Expire,
       Disconnect, RedriveStart

\* Nothing gets into the dead-letter queue but invalid, expired and exhausted
\* mails, and an aborted redrive gives back only those.
THEOREM OnlyDeadInQueue == Spec => []DeadForCause
<1>1. Init => DeadForCause
  BY DEF Init, DeadForCause, In, Gone, Message0
<1>2. TypeOK /\ DeadForCause /\ [Next]_vars => DeadForCause'
  <2> SUFFICES ASSUME TypeOK, DeadForCause, [Next]_vars,
                      NEW c \in Copy, copy'[c].at \in Quarantine
               PROVE  (Rejected(copy[c].event) \/ Exhausted(copy[c].retry))'
    BY DEF DeadForCause, In, Quarantine
  <2>1. SameMail(c) /\ Belongs(c)
    BY QuarantineEntry
  <2>2. Rejected(copy[c].event) \/ Exhausted(copy[c].retry)
    BY <2>1 DEF Belongs, DeadForCause, In, Quarantine
  <2> QED BY <2>1, <2>2, ExpiredGrows DEF SameMail, Rejected, Exhausted
<1> QED BY <1>1, <1>2, TypeCorrect, PTL DEF Spec

\* Only a redrive that selects a message takes it out of the quarantine, and only
\* one that was told to discard takes an expired one.
THEOREM QuarantineIsKept == Spec => QuarantineKept
<1>1. TypeOK /\ [Next]_vars =>
          [\A c \in In({"dlq", "held"}) :
              copy'[c].at \notin {"dlq", "held"} =>
                  /\ redrive.on /\ Selected(copy[c].event)
                  /\ copy[c].event \in expired => redrive.discard]_vars
  <2> SUFFICES ASSUME TypeOK, Next, NEW c \in Copy, copy[c].at \in {"dlq", "held"},
                      copy'[c].at \notin {"dlq", "held"}
               PROVE  /\ redrive.on /\ Selected(copy[c].event)
                      /\ copy[c].event \in expired => redrive.discard
    BY DEF In
  <2> DEFINE Goal == /\ redrive.on /\ Selected(copy[c].event)
                     /\ copy[c].event \in expired => redrive.discard
  <2>1. copy \in [Copy -> Message]
    BY DEF TypeOK, CopyOK
  <2>2. ~ \E d \in Copy : Handler(d)
    <3> SUFFICES ASSUME NEW d \in Copy, Handler(d) PROVE FALSE
      OBVIOUS
    <3>1. copy'[c] = copy[c]
      BY <2>1 DEF Handler, Deliver, SmtpAccept, Ack, FailExhausted, FailRequeue, Failing,
                  RetryAck, RetryDue, FailRetry, MoveTo, Remove, Replace
    <3> QED BY <3>1
  <2>3. ~Return
    BY <2>1 DEF Return, Message
  <2>4. ~ \E A \in SUBSET Copy : Disconnect(A)
    BY <2>1 DEF Disconnect, In, Unacked
  <2>5. ~ \E e \in Event, d \in Copy : Publish(e, d)
    BY <2>1 DEF Publish
  <2>6. ASSUME NEW d \in Copy, RedriveHold(d) PROVE FALSE
    BY <2>1, <2>6 DEF RedriveHold, MoveTo, Message
  <2>7. ASSUME NEW d \in Copy, RedriveDiscard(d) PROVE Goal
    <3>1. c = d
      BY <2>1, <2>7 DEF RedriveDiscard, Remove
    <3> QED BY <2>7, <3>1 DEF RedriveDiscard, Scanning
  <2>8. ASSUME NEW d \in Copy, NEW x \in Copy, RedriveSend(d, x) PROVE Goal
    <3>1. c = d
      BY <2>1, <2>8 DEF RedriveSend, Replace
    <3> QED BY <2>8, <3>1 DEF RedriveSend, Scanning
  <2>9. ASSUME NEW d \in Copy, RedriveConfirm(d) PROVE FALSE
    BY <2>1, <2>9 DEF RedriveConfirm, Remove
  <2>10. RedriveStep => Goal
    BY <2>3, <2>6, <2>7, <2>8, <2>9 DEF RedriveStep, RedriveEnd
  <2>11. ~RedriveAbort
    BY <2>3 DEF RedriveAbort
  <2>12. UNCHANGED copy => FALSE
    OBVIOUS
  <2> QED BY <2>2, <2>4, <2>5, <2>10, <2>11, <2>12 DEF Next, Expire, RedriveStart
<1> QED BY <1>1, TypeCorrect, PTL DEF Spec, QuarantineKept
------------------------------------------------------------------------------
(* Exactly once *)

Carriers(e) == {c \in In(Carried) : copy[c].event = e}
Balanced(e) == handed[e] = sent[e] + discarded[e] + Cardinality(Carriers(e))

LEMMA CarriersFinite ==
    ASSUME NEW e \in Event
    PROVE  /\ IsFiniteSet(Carriers(e)) /\ Cardinality(Carriers(e)) \in Nat
           /\ Carriers(e) \subseteq Copy
BY CopyCard DEF Carriers, In

\* The count changes by one for the message that comes or goes.
LEMMA OneMore ==
    ASSUME NEW S, IsFiniteSet(S), NEW d, d \notin S
    PROVE  Cardinality(S \cup {d}) = Cardinality(S) + 1
BY FS_AddElement

LEMMA OneLess ==
    ASSUME NEW S, IsFiniteSet(S), NEW c \in S
    PROVE  Cardinality(S \ {c}) = Cardinality(S) - 1
BY FS_RemoveElement

\* The books of an event that a step leaves alone, and of one that it moves.
LEMMA BooksSame ==
    ASSUME TypeOK, NEW e \in Event, Balanced(e), Carriers(e)' = Carriers(e),
           handed'[e] = handed[e], sent'[e] = sent[e], discarded'[e] = discarded[e]
    PROVE  Balanced(e)'
BY DEF Balanced

LEMMA BooksIn ==
    ASSUME TypeOK, NEW e \in Event, Balanced(e), NEW d, d \notin Carriers(e),
           Carriers(e)' = Carriers(e) \cup {d},
           handed'[e] = handed[e] + 1, sent'[e] = sent[e], discarded'[e] = discarded[e]
    PROVE  Balanced(e)'
<1>1. handed[e] \in Nat /\ sent[e] \in Nat /\ discarded[e] \in Nat
  BY DEF TypeOK
<1> QED BY <1>1, CarriersFinite, OneMore DEF Balanced

LEMMA BooksOut ==
    ASSUME TypeOK, NEW e \in Event, Balanced(e), NEW c \in Carriers(e),
           Carriers(e)' = Carriers(e) \ {c}, handed'[e] = handed[e],
           \/ sent'[e] = sent[e] + 1 /\ discarded'[e] = discarded[e]
           \/ sent'[e] = sent[e] /\ discarded'[e] = discarded[e] + 1
    PROVE  Balanced(e)'
<1>1. handed[e] \in Nat /\ sent[e] \in Nat /\ discarded[e] \in Nat
  BY DEF TypeOK
<1> QED BY <1>1, CarriersFinite, OneLess DEF Balanced

LEMMA BooksSwapped ==
    ASSUME TypeOK, NEW e \in Event, Balanced(e), NEW c \in Carriers(e),
           NEW d, d \notin Carriers(e), Carriers(e)' = (Carriers(e) \ {c}) \cup {d},
           handed'[e] = handed[e], sent'[e] = sent[e], discarded'[e] = discarded[e]
    PROVE  Balanced(e)'
<1>1. Cardinality(Carriers(e)) \in Nat /\ IsFiniteSet(Carriers(e))
  BY CarriersFinite
<1>2. IsFiniteSet(Carriers(e) \ {c}) /\ d \notin Carriers(e) \ {c}
  BY <1>1, FS_Subset
<1>3. Cardinality(Carriers(e) \ {c}) = Cardinality(Carriers(e)) - 1
  BY <1>1, OneLess
<1>4. Cardinality((Carriers(e) \ {c}) \cup {d}) = Cardinality(Carriers(e) \ {c}) + 1
  BY <1>2, OneMore
<1> QED BY <1>1, <1>3, <1>4 DEF Balanced

LEMMA HandlerBooks ==
    ASSUME TypeOK, NEW c \in Copy, Handler(c), NEW e \in Event, e \notin doubt',
           Balanced(e)
    PROVE  Balanced(e)'
<1>1. /\ copy \in [Copy -> Message] /\ copy[c] \in Message /\ sent \in [Event -> Nat]
      /\ copy[c].at # "none" => copy[c].event \in Event
  BY DEF TypeOK, CopyOK, Message
<1>2. ASSUME NEW at, MoveTo(c, at),
             (at \in Carried /\ copy[c].at \in Carried) \/ copy[c].event # e,
             UNCHANGED <<handed, discarded>>, sent'[e] = sent[e]
      PROVE  Balanced(e)'
  <2>1. Carriers(e)' = Carriers(e)
    BY <1>1, <1>2 DEF MoveTo, Carriers, In, Message
  <2> QED BY <1>2, <2>1, BooksSame
<1>3. ASSUME Remove(c), copy[c].at \notin Carried, UNCHANGED <<handed, sent, discarded>>
      PROVE  Balanced(e)'
  <2>1. Carriers(e)' = Carriers(e)
    BY <1>1, <1>3 DEF Remove, Gone, Message0, Carriers, In, Carried
  <2> QED BY <1>3, <2>1, BooksSame
<1>4. CASE Deliver(c)
  BY <1>2, <1>4 DEF Deliver, Carried
<1>5. CASE SmtpAccept(c)
  <2>1. CASE copy[c].event = e
    <3>1. c \in Carriers(e) /\ Carriers(e)' = Carriers(e) \ {c}
      BY <1>1, <1>5, <2>1 DEF SmtpAccept, MoveTo, Carriers, In, Carried, Message
    <3>2. sent'[e] = sent[e] + 1
      BY <1>1, <1>5, <2>1 DEF SmtpAccept
    <3> QED BY <1>5, <3>1, <3>2, BooksOut DEF SmtpAccept
  <2>2. CASE copy[c].event # e
    <3>1. sent'[e] = sent[e]
      BY <1>1, <1>5, <2>2 DEF SmtpAccept
    <3> QED BY <1>2, <1>5, <2>2, <3>1 DEF SmtpAccept
  <2> QED BY <2>1, <2>2
<1>6. CASE Ack(c) \/ RetryAck(c)
  BY <1>3, <1>6 DEF Ack, RetryAck, Carried
<1>7. Failing(c) => copy[c].at = "handling" \/ copy[c].event # e
  BY DEF Failing
<1>8. CASE FailExhausted(c)
  BY <1>2, <1>7, <1>8 DEF FailExhausted, Carried
<1>9. CASE FailRequeue(c)
  BY <1>2, <1>7, <1>9 DEF FailRequeue, Carried
<1>10. CASE RetryDue(c)
  BY <1>2, <1>10 DEF RetryDue, Carried
<1>11. ASSUME NEW d \in Copy, FailRetry(c, d) PROVE Balanced(e)'
  <2>1. /\ copy[d].at = "none" /\ d # c /\ Failing(c)
        /\ copy'[d].at = "retry" /\ copy'[d].event = copy[c].event
        /\ copy'[c].at = "copied" /\ copy'[c].event = copy[c].event
        /\ \A x \in Copy \ {c, d} : copy'[x] = copy[x]
        /\ UNCHANGED <<handed, sent, discarded>>
    BY <1>1, <1>11 DEF FailRetry, Failing, Replace, Message0, Message
  <2>2. CASE copy[c].event = e
    <3>1. c \in Carriers(e) /\ d \notin Carriers(e)
      BY <1>7, <2>1, <2>2 DEF Carriers, In, Carried
    <3>2. Carriers(e)' = (Carriers(e) \ {c}) \cup {d}
      BY <2>1, <2>2 DEF Carriers, In, Carried
    <3> QED BY <2>1, <3>1, <3>2, BooksSwapped
  <2>3. CASE copy[c].event # e
    <3>1. Carriers(e)' = Carriers(e)
      BY <2>1, <2>3 DEF Carriers, In, Carried
    <3> QED BY <2>1, <3>1, BooksSame
  <2> QED BY <2>2, <2>3
<1> QED BY <1>4, <1>5, <1>6, <1>8, <1>9, <1>10, <1>11 DEF Handler

LEMMA RedriveBooks ==
    ASSUME TypeOK, RedriveStep \/ RedriveAbort, NEW e \in Event, e \notin doubt',
           Balanced(e)
    PROVE  Balanced(e)'
<1>1. /\ copy \in [Copy -> Message] /\ discarded \in [Event -> Nat]
      /\ \A c \in Copy : copy[c].at # "none" => copy[c].event \in Event
  BY DEF TypeOK, CopyOK, Message
<1>2. ASSUME NEW c \in Copy, RedriveHold(c) PROVE Balanced(e)'
  <2>1. Carriers(e)' = Carriers(e)
    BY <1>1, <1>2 DEF RedriveHold, MoveTo, Carriers, In, Carried, Message
  <2> QED BY <1>2, <2>1, BooksSame DEF RedriveHold
<1>3. ASSUME NEW c \in Copy, RedriveDiscard(c) PROVE Balanced(e)'
  <2>1. copy[c].at = "dlq" /\ copy'[c].at = "none" /\ \A x \in Copy \ {c} : copy'[x] = copy[x]
    BY <1>1, <1>3 DEF RedriveDiscard, Remove, Gone, Message0
  <2>2. CASE copy[c].event = e
    <3>1. c \in Carriers(e) /\ Carriers(e)' = Carriers(e) \ {c}
      BY <2>1, <2>2 DEF Carriers, In, Carried
    <3>2. discarded'[e] = discarded[e] + 1
      BY <1>1, <1>3, <2>2 DEF RedriveDiscard
    <3> QED BY <1>3, <3>1, <3>2, BooksOut DEF RedriveDiscard
  <2>3. CASE copy[c].event # e
    <3>1. Carriers(e)' = Carriers(e) /\ discarded'[e] = discarded[e]
      BY <1>1, <1>3, <2>1, <2>3 DEF RedriveDiscard, Carriers, In, Carried
    <3> QED BY <1>3, <3>1, BooksSame DEF RedriveDiscard
  <2> QED BY <2>2, <2>3
<1>4. ASSUME NEW c \in Copy, RedriveConfirm(c) PROVE Balanced(e)'
  <2>1. Carriers(e)' = Carriers(e)
    BY <1>1, <1>4 DEF RedriveConfirm, Remove, Gone, Message0, Carriers, In, Carried
  <2> QED BY <1>4, <2>1, BooksSame DEF RedriveConfirm
<1>5. ASSUME NEW c \in Copy, NEW d \in Copy, RedriveSend(c, d) PROVE Balanced(e)'
  <2>1. /\ copy[d].at = "none" /\ d # c /\ copy[c].at = "dlq"
        /\ copy'[d].at = "main" /\ copy'[d].event = copy[c].event
        /\ copy'[c].at = "confirming" /\ copy'[c].event = copy[c].event
        /\ \A x \in Copy \ {c, d} : copy'[x] = copy[x]
        /\ UNCHANGED <<handed, sent, discarded>>
    BY <1>1, <1>5 DEF RedriveSend, Replace, Message0, Message
  <2>2. CASE copy[c].event = e
    <3>1. c \in Carriers(e) /\ d \notin Carriers(e)
      BY <2>1, <2>2 DEF Carriers, In, Carried
    <3>2. Carriers(e)' = (Carriers(e) \ {c}) \cup {d}
      BY <2>1, <2>2 DEF Carriers, In, Carried
    <3> QED BY <2>1, <3>1, <3>2, BooksSwapped
  <2>3. CASE copy[c].event # e
    <3>1. Carriers(e)' = Carriers(e)
      BY <2>1, <2>3 DEF Carriers, In, Carried
    <3> QED BY <2>1, <3>1, BooksSame
  <2> QED BY <2>2, <2>3
<1>6. ASSUME Return, UNCHANGED <<handed, sent, discarded>>,
             \A c \in In({"confirming"}) : copy[c].event # e
      PROVE  Balanced(e)'
  <2>1. Carriers(e)' = Carriers(e)
    BY <1>1, <1>6 DEF Return, Carriers, In, Carried, Message
  <2> QED BY <1>6, <2>1, BooksSame
<1>7. CASE RedriveEnd
  BY <1>6, <1>7 DEF RedriveEnd
<1>8. CASE RedriveAbort
  BY <1>6, <1>8 DEF RedriveAbort
<1> QED BY <1>2, <1>3, <1>4, <1>5, <1>7, <1>8 DEF RedriveStep

LEMMA OtherBooks ==
    ASSUME TypeOK, NEW e \in Event, e \notin doubt', Balanced(e),
           \/ \E f \in Event, c \in Copy : Publish(f, c)
           \/ \E A \in SUBSET Copy : Disconnect(A)
           \/ UNCHANGED <<copy, handed, sent, discarded>>
    PROVE  Balanced(e)'
<1>1. /\ copy \in [Copy -> Message] /\ handed \in [Event -> Nat] /\ sent \in [Event -> Nat]
  BY DEF TypeOK, CopyOK
<1>2. ASSUME NEW f \in Event, NEW c \in Copy, Publish(f, c) PROVE Balanced(e)'
  <2>1. /\ copy[c].at = "none" /\ copy'[c].at = "main" /\ copy'[c].event = f
        /\ \A x \in Copy \ {c} : copy'[x] = copy[x]
    BY <1>1, <1>2 DEF Publish, Message0
  <2>2. CASE f = e
    <3>1. c \notin Carriers(e) /\ Carriers(e)' = Carriers(e) \cup {c}
      BY <2>1, <2>2 DEF Carriers, In, Carried
    <3>2. handed'[e] = handed[e] + 1
      BY <1>1, <1>2, <2>2 DEF Publish
    <3> QED BY <1>2, <3>1, <3>2, BooksIn DEF Publish
  <2>3. CASE f # e
    <3>1. Carriers(e)' = Carriers(e) /\ handed'[e] = handed[e]
      BY <1>1, <1>2, <2>1, <2>3 DEF Publish, Carriers, In, Carried
    <3> QED BY <1>2, <3>1, BooksSame DEF Publish
  <2> QED BY <2>2, <2>3
<1>3. ASSUME NEW A \in SUBSET Copy, Disconnect(A) PROVE Balanced(e)'
  <2>1. \A c \in A \cup In({"accepted", "copied"}) : copy[c].event # e
    BY <1>3 DEF Disconnect
  <2>2. Carriers(e)' = Carriers(e)
    BY <1>1, <1>3, <2>1 DEF Disconnect, Carriers, In, Carried, Unacked, Message
  <2>3. {c \in A : copy[c].event = e} = {}
    BY <2>1
  <2>4. sent'[e] = sent[e]
    BY <1>1, <1>3, <2>3, FS_EmptySet DEF Disconnect
  <2> QED BY <1>3, <2>2, <2>4, BooksSame DEF Disconnect
<1>4. CASE UNCHANGED <<copy, handed, sent, discarded>>
  BY <1>4 DEF Balanced, Carriers, In
<1> QED BY <1>2, <1>3, <1>4

LEMMA DoubtGrows == [Next]_vars => doubt \subseteq doubt'
BY DEF Next, vars, Handler, Deliver, SmtpAccept, Ack, Failing, FailExhausted, FailRequeue,
       RetryAck, RetryDue, FailRetry, RedriveStep, RedriveHold, RedriveDiscard,
       RedriveConfirm, RedriveSend, RedriveEnd, RedriveAbort, Publish, Expire,
       Disconnect, RedriveStart

\* Every copy the API handed over is in exactly one place, or was mailed once, or was
\* thrown away, as long as no outcome of its event was left ambiguous: through any
\* number of retries and redrives.
THEOREM ExactlyOnce == Spec => []EveryCopyAccounted
<1>1. EveryCopyAccounted <=> \A e \in Event \ doubt : Balanced(e)
  BY DEF EveryCopyAccounted, Balanced, Carriers
<1>2. Init => EveryCopyAccounted
  <2> SUFFICES ASSUME Init, NEW e \in Event PROVE Balanced(e)
    BY <1>1
  <2>1. Carriers(e) = {}
    BY DEF Init, Carriers, In, Carried, Gone, Message0
  <2> QED BY <2>1, FS_EmptySet DEF Init, Balanced
<1>3. TypeOK /\ EveryCopyAccounted /\ [Next]_vars => EveryCopyAccounted'
  <2> SUFFICES ASSUME TypeOK, EveryCopyAccounted, [Next]_vars, NEW e \in Event, e \notin doubt'
               PROVE  Balanced(e)'
    BY DEF EveryCopyAccounted, Balanced, Carriers
  <2>1. Balanced(e)
    BY <1>1, DoubtGrows
  <2>2. CASE \E c \in Copy : Handler(c)
    BY <2>1, <2>2, HandlerBooks
  <2>3. CASE RedriveStep \/ RedriveAbort
    BY <2>1, <2>3, RedriveBooks
  <2>4. CASE \/ \E f \in Event, c \in Copy : Publish(f, c)
             \/ \E A \in SUBSET Copy : Disconnect(A)
    BY <2>1, <2>4, OtherBooks
  <2>5. CASE \/ UNCHANGED vars \/ \E f \in Event : Expire(f)
             \/ \E t \in Event \cup {None}, n \in Limits, b \in BOOLEAN : RedriveStart(t, n, b)
    BY <2>1, <2>5, OtherBooks DEF vars, Expire, RedriveStart
  <2> QED BY <2>2, <2>3, <2>4, <2>5 DEF Next
<1> QED BY <1>2, <1>3, TypeCorrect, PTL DEF Spec

==============================================================================
