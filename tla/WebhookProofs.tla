----------------------------- MODULE WebhookProofs -----------------------------
(***************************************************************************)
(* Proofs about the webhook listener, for every set of alerts, window,     *)
(* timeout, delay, queue and log size.                                     *)
(***************************************************************************)
EXTENDS Webhook, TLAPS

\* The alerts event_to_alert makes are among the chosen kinds; a low score is
\* alerted only by an event that shows it, while the latch is open.
LEMMA AlertsOfEvent ==
  ASSUME NEW event \in Events, NEW latched \in BOOLEAN
  PROVE  /\ AlertsOf(event, latched) \subseteq Alerts
         /\ "shi_below_70" \in AlertsOf(event, latched)
              => Low(event) /\ "shi_below_70" \in Alerts /\ ~latched
<1>1. CASE Low(event) /\ "shi_below_70" \in Alerts
  BY <1>1 DEF AlertsOf
<1>2. CASE ~(Low(event) /\ "shi_below_70" \in Alerts) /\ event.type = "Health"
  BY <1>2 DEF AlertsOf
<1>3. CASE ~(Low(event) /\ "shi_below_70" \in Alerts) /\ event.type # "Health"
  <2> DEFINE kinds == {k \in Alerts : \E mark \in event.marks : <<event.type, mark, k>> \in Triggers}
  <2>1. AlertsOf(event, latched) = IF "http_5xx" \in kinds THEN {"http_5xx"} ELSE kinds
    BY <1>3 DEF AlertsOf
  <2>2. kinds \subseteq Alerts
    OBVIOUS
  <2>3. "shi_below_70" \notin kinds
    BY DEF Triggers
  <2> HIDE DEF kinds
  <2> QED
    BY <2>1, <2>2, <2>3
<1> QED
  BY <1>1, <1>2, <1>3

-----------------------------------------------------------------------------
(* Type correctness.                                                       *)

\* What the queue holds after a try_send is a queue.
LEMMA TrySendQueue ==
  ASSUME NEW event \in Events, queue \in Seq(Events), Len(queue) <= QueueCapacity,
         TrySend(event)
  PROVE  queue' \in Seq(Events) /\ Len(queue') <= QueueCapacity
<1>1. CASE open /\ Len(queue) < QueueCapacity
  <2>1. queue' = Append(queue, event)
    BY <1>1 DEF TrySend
  <2>2. Append(queue, event) \in Seq(Events) /\ Len(Append(queue, event)) = Len(queue) + 1
    OBVIOUS
  <2> QED
    BY <1>1, <2>1, <2>2, WebhookAssumption
<1>2. CASE ~(open /\ Len(queue) < QueueCapacity)
  BY <1>2 DEF TrySend
<1> QED
  BY <1>1, <1>2

\* What it holds after a receive is one, and the received one is an event.
LEMMA ReceivesQueue ==
  ASSUME queue \in Seq(Events), Len(queue) <= QueueCapacity, Receives
  PROVE  /\ queue' \in Seq(Events) /\ Len(queue') <= QueueCapacity
         /\ Head(queue) \in Events
<1>1. queue # <<>> /\ queue' = Tail(queue)
  BY DEF Receives
<1>2. Tail(queue) \in Seq(Events) /\ Len(Tail(queue)) = Len(queue) - 1
      /\ Head(queue) \in Events
  BY <1>1
<1> QED
  BY <1>1, <1>2, WebhookAssumption

Outcomes == [alert : Alerts \cup {"ssrf_block"}, ok : BOOLEAN]

\* The log keeps its type and its cap when an outcome is pushed.
LEMMA LogKept ==
  ASSUME log \in Seq(Outcomes), Len(log) <= DELIVERY_LOG_CAP, alert \in Alerts,
         NEW ok \in BOOLEAN
  PROVE  LogWith(ok) \in Seq(Outcomes) /\ Len(LogWith(ok)) <= DELIVERY_LOG_CAP
<1> DEFINE outcome == [alert |-> alert, ok |-> ok]
           longer == Append(log, outcome)
<1>1. outcome \in Outcomes
  BY DEF Outcomes
<1> HIDE DEF outcome
<1>2. longer \in Seq(Outcomes) /\ Len(longer) = Len(log) + 1
  BY <1>1
<1> HIDE DEF longer
<1>3. CASE Len(longer) > DELIVERY_LOG_CAP
  <2>1. longer # <<>> /\ Tail(longer) \in Seq(Outcomes) /\ Len(Tail(longer)) = Len(longer) - 1
    BY <1>2
  <2>2. LogWith(ok) = Tail(longer)
    BY <1>3 DEF LogWith, longer, outcome
  <2> QED
    BY <1>2, <2>1, <2>2, WebhookAssumption
<1>4. CASE ~(Len(longer) > DELIVERY_LOG_CAP)
  <2>1. LogWith(ok) = longer
    BY <1>4 DEF LogWith, longer, outcome
  <2> QED
    BY <1>2, <1>4, <2>1, WebhookAssumption
<1> QED
  BY <1>3, <1>4
-----------------------------------------------------------------------------
(* The inductive invariant.  BusyBounded is not inductive: that a delivery *)
(* is short so far says nothing of how long it will be.  What it has spent *)
(* before the request or the sleep it is in, by the number of failures     *)
(* behind it, does.                                                        *)

SpentBeforePost == IF attempt = 0 THEN 0
                   ELSE IF attempt = 1 THEN MaxPost + RetryDelay
                   ELSE 2 * MaxPost + 3 * RetryDelay
SpentBeforeSleep == IF attempt = 1 THEN MaxPost ELSE 2 * MaxPost + RetryDelay

Paced ==
  /\ ~Delivering => busy = 0 /\ waited = 0
  /\ Delivering => alert \in Alerts
  /\ pc = "post" => waited <= MaxPost /\ busy <= SpentBeforePost + waited
  /\ pc = "backoff" => attempt \in {1, 2} /\ waited <= Delay /\ busy <= SpentBeforeSleep + waited

\* No good score since the last alert of a low one: the latch is closed.
Latched == last_shi_alert \/ recovered

IInv == TypeOK /\ Paced /\ Latched

LEMMA InitIInv == Init => IInv
<1> SUFFICES ASSUME Init PROVE IInv
  OBVIOUS
<1>1. log \in Seq([alert : Alerts \cup {"ssrf_block"}, ok : BOOLEAN])
      /\ Len(log) <= DELIVERY_LOG_CAP
  <2>1. CASE log = <<>>
    BY <2>1, WebhookAssumption
  <2>2. CASE log = <<[alert |-> "ssrf_block", ok |-> FALSE]>>
    <3> DEFINE outcome == [alert |-> "ssrf_block", ok |-> FALSE]
    <3>1. outcome \in [alert : Alerts \cup {"ssrf_block"}, ok : BOOLEAN]
      OBVIOUS
    <3> HIDE DEF outcome
    <3>2. log = <<outcome>>
      BY <2>2 DEF outcome
    <3> QED
      BY <3>1, <3>2, WebhookAssumption
  <2> QED
    BY <2>1, <2>2 DEF Init
<1>2. TypeOK
  <2>1. queue \in Seq(Events) /\ Len(queue) <= QueueCapacity
    BY WebhookAssumption DEF Init
  <2>2. /\ condition \in Conditions /\ open \in BOOLEAN
        /\ last_shi_alert \in BOOLEAN /\ recovered \in BOOLEAN
    BY DEF Init, Conditions
  <2>3. /\ attempt \in 0..(MAX_RETRIES - 1) /\ waited \in Nat /\ busy \in Nat
        /\ others \in 0..MaxOthers /\ changes \in 0..MaxChanges
    BY WebhookAssumption DEF Init, MAX_RETRIES
  <2>4. last_sent \in [Alerts -> 0..DedupeWindow]
    BY WebhookAssumption DEF Init
  <2>5. /\ pc \in {"recv", "drain", "post", "backoff", "done"}
        /\ alert \in Alerts \cup {"none"}
    BY DEF Init
  <2> QED
    BY <1>1, <2>1, <2>2, <2>3, <2>4, <2>5 DEF TypeOK
<1>3. Paced /\ Latched
  BY DEF Init, Paced, Latched, Delivering
<1> QED
  BY <1>2, <1>3 DEF IInv

\* Every step keeps the types.
LEMMA TypeStep == IInv /\ [Next]_vars => TypeOK'
<1> SUFFICES ASSUME IInv, [Next]_vars PROVE TypeOK'
  OBVIOUS
<1> USE DEF IInv
<1>1. CASE Tick
  <2>1. [type |-> "Health", marks |-> condition] \in Events
    BY DEF TypeOK, Events
  <2>2. queue' \in Seq(Events) /\ Len(queue') <= QueueCapacity
    BY <1>1, <2>1, TrySendQueue DEF Tick, TypeOK
  <2>3. waited' \in Nat /\ busy' \in Nat
    BY <1>1 DEF Tick, TypeOK
  <2>4. last_sent' \in [Alerts -> 0..DedupeWindow]
    BY <1>1, WebhookAssumption DEF Tick, TypeOK
  <2> QED
    BY <1>1, <2>2, <2>3, <2>4 DEF Tick, TypeOK, envVars
<1>2. CASE Change
  BY <1>2, WebhookAssumption DEF Change, TypeOK, postVars
<1>3. CASE OtherEvent
  <2>1. queue' \in Seq(Events) /\ Len(queue') <= QueueCapacity
    BY <1>3, TrySendQueue, WebhookAssumption DEF OtherEvent, TypeOK
  <2> QED
    BY <1>3, <2>1, WebhookAssumption DEF OtherEvent, TypeOK, postVars
<1>4. CASE Close
  BY <1>4 DEF Close, TypeOK, postVars
<1>5. CASE Recv
  <2>1. /\ queue' \in Seq(Events) /\ Len(queue') <= QueueCapacity
        /\ Head(queue) \in Events
    BY <1>5, ReceivesQueue DEF Recv, TypeOK
  <2>2. AlertsOf(Head(queue), last_shi_alert) \subseteq Alerts
    BY <2>1, AlertsOfEvent DEF TypeOK
  <2>3. last_shi_alert' \in BOOLEAN
    BY <1>5 DEF Recv, Latch
  <2>4. last_sent' \in [Alerts -> 0..DedupeWindow]
    BY <1>5, <2>2, WebhookAssumption DEF Recv, Claimed, TypeOK
  <2>5. /\ pc' \in {"recv", "drain", "post", "backoff", "done"}
        /\ alert' \in Alerts \cup {"none"} /\ attempt' \in 0..(MAX_RETRIES - 1)
        /\ waited' \in Nat /\ busy' \in Nat
    BY <1>5, <2>2 DEF Recv, TypeOK, postVars, MAX_RETRIES
  <2>6. recovered' \in BOOLEAN
    BY <1>5, Zenon DEF Recv, TypeOK, Good
  <2> QED
    BY <1>5, <2>1, <2>3, <2>4, <2>5, <2>6 DEF Recv, TypeOK, envVars
<1>6. CASE Drain
  <2>1. queue' \in Seq(Events) /\ Len(queue') <= QueueCapacity
    BY <1>6, ReceivesQueue DEF Drain, TypeOK
  <2> QED
    BY <1>6, <2>1 DEF Drain, TypeOK, envVars, postVars
<1>7. ASSUME NEW ok \in BOOLEAN, Answering, Finish(ok) PROVE TypeOK'
  <2>1. alert \in Alerts
    BY <1>7 DEF Answering, Paced, Delivering
  <2>2. /\ log' \in Seq([alert : Alerts \cup {"ssrf_block"}, ok : BOOLEAN])
        /\ Len(log') <= DELIVERY_LOG_CAP
    BY <1>7, <2>1, LogKept DEF Finish, TypeOK, Outcomes
  <2> QED
    BY <1>7, <2>2 DEF Answering, Finish, TypeOK, envVars, MAX_RETRIES
<1>8. CASE FinalAnswer
  BY <1>7, <1>8 DEF FinalAnswer
<1>9. CASE TemporaryFailure
  <2>1. CASE attempt + 1 < MAX_RETRIES
    BY <1>9, <2>1 DEF TemporaryFailure, Answering, TypeOK, envVars, MAX_RETRIES
  <2>2. CASE ~(attempt + 1 < MAX_RETRIES)
    BY <1>7, <1>9, <2>2 DEF TemporaryFailure
  <2> QED
    BY <2>1, <2>2
<1>10. CASE Retry
  BY <1>10 DEF Retry, TypeOK, envVars
<1>11. CASE End
  BY <1>11 DEF End, TypeOK, envVars, postVars
<1>12. CASE UNCHANGED vars
  BY <1>12 DEF vars, TypeOK
<1> QED
  BY <1>1, <1>2, <1>3, <1>4, <1>5, <1>6, <1>8, <1>9, <1>10, <1>11, <1>12 DEF Next, Listener

\* Every step keeps the delivery's pace.
LEMMA PacedStep == IInv /\ [Next]_vars => Paced'
<1> SUFFICES ASSUME IInv, [Next]_vars PROVE Paced'
  OBVIOUS
<1> USE DEF IInv
<1>0. /\ attempt \in {0, 1, 2} /\ waited \in Nat /\ busy \in Nat
      /\ MaxPost \in Nat /\ RetryDelay \in Nat
  BY WebhookAssumption DEF TypeOK, MAX_RETRIES
<1>1. CASE Tick
  <2>1. UNCHANGED <<pc, attempt, alert>>
    BY <1>1 DEF Tick
  <2>2. CASE pc = "post"
    <3>1. waited' = waited + 1 /\ busy' = busy + 1 /\ waited < MaxPost
      BY <1>1, <2>2 DEF Tick, MayPass, Delivering
    <3> QED
      BY <1>0, <2>1, <2>2, <3>1 DEF Paced, Delivering, SpentBeforePost
  <2>3. CASE pc = "backoff"
    <3>1. waited' = waited + 1 /\ busy' = busy + 1 /\ waited < Delay
      BY <1>1, <2>3 DEF Tick, MayPass, Delivering
    <3> QED
      BY <1>0, <2>1, <2>3, <3>1 DEF Paced, Delivering, SpentBeforeSleep, Delay
  <2>4. CASE ~Delivering
    BY <1>1, <2>1, <2>4 DEF Tick, Paced, Delivering
  <2> QED
    BY <2>2, <2>3, <2>4 DEF Delivering
<1>2. ASSUME UNCHANGED <<pc, postVars>> PROVE Paced'
  BY <1>2 DEF postVars, Paced, Delivering, SpentBeforePost, SpentBeforeSleep, Delay
<1>3. CASE Change \/ OtherEvent \/ Close \/ Drain
  BY <1>2, <1>3 DEF Change, OtherEvent, Close, Drain
<1>4. CASE Recv
  <2>1. Head(queue) \in Events
    BY <1>4, ReceivesQueue DEF Recv, TypeOK
  <2>2. AlertsOf(Head(queue), last_shi_alert) \subseteq Alerts
    BY <2>1, AlertsOfEvent DEF TypeOK
  <2>3. \/ UNCHANGED <<pc, postVars>>
        \/ pc' = "post" /\ alert' \in Alerts /\ attempt' = 0 /\ waited' = 0 /\ busy' = 0
    BY <1>4, <2>2 DEF Recv
  <2> QED
    BY <1>0, <1>2, <2>3 DEF Paced, Delivering, SpentBeforePost
<1>5. ASSUME NEW ok \in BOOLEAN, Finish(ok) PROVE Paced'
  BY <1>5 DEF Finish, Paced, Delivering
<1>6. CASE FinalAnswer
  BY <1>5, <1>6 DEF FinalAnswer
<1>7. CASE TemporaryFailure
  <2>1. CASE attempt + 1 < MAX_RETRIES
    <3>1. /\ pc = "post" /\ pc' = "backoff"
          /\ attempt' = attempt + 1 /\ waited' = 0 /\ busy' = busy /\ alert' = alert
      BY <1>7, <2>1 DEF TemporaryFailure, Answering
    <3>2. attempt \in {0, 1}
      BY <1>0, <2>1 DEF MAX_RETRIES
    <3>3. waited <= MaxPost /\ busy <= SpentBeforePost + waited /\ alert \in Alerts
      BY <3>1 DEF Paced, Delivering
    <3>4. busy' <= SpentBeforeSleep'
      BY <1>0, <3>1, <3>2, <3>3 DEF SpentBeforePost, SpentBeforeSleep
    <3>5. 0 <= Delay'
      BY <1>0 DEF Delay
    <3> QED
      BY <1>0, <3>1, <3>2, <3>3, <3>4, <3>5 DEF Paced, Delivering, SpentBeforeSleep
  <2>2. CASE ~(attempt + 1 < MAX_RETRIES)
    BY <1>5, <1>7, <2>2 DEF TemporaryFailure
  <2> QED
    BY <2>1, <2>2
<1>8. CASE Retry
  <2>1. /\ pc = "backoff" /\ waited = Delay /\ pc' = "post" /\ waited' = 0
        /\ UNCHANGED <<alert, attempt, busy>>
    BY <1>8 DEF Retry
  <2>2. /\ attempt \in {1, 2} /\ busy <= SpentBeforeSleep + Delay /\ alert \in Alerts
    BY <2>1 DEF Paced, Delivering
  <2>3. SpentBeforeSleep + Delay <= SpentBeforePost
    BY <1>0, <2>2 DEF SpentBeforeSleep, SpentBeforePost, Delay
  <2>4. busy' <= SpentBeforePost'
    BY <1>0, <2>1, <2>2, <2>3 DEF SpentBeforeSleep, SpentBeforePost, Delay
  <2> QED
    BY <1>0, <2>1, <2>2, <2>4 DEF Paced, Delivering, SpentBeforePost
<1>9. CASE End
  BY <1>9 DEF End, Paced, Delivering, postVars
<1>10. CASE UNCHANGED vars
  BY <1>2, <1>10 DEF vars, postVars
<1> QED
  BY <1>1, <1>3, <1>4, <1>6, <1>7, <1>8, <1>9, <1>10 DEF Next, Listener

\* The latch closes with the alert of a low score and opens with a good score.
LEMMA LatchedStep == IInv /\ [Next]_vars => Latched'
<1> SUFFICES ASSUME IInv, [Next]_vars PROVE Latched'
  OBVIOUS
<1> USE DEF IInv
<1>1. CASE UNCHANGED <<last_shi_alert, recovered>>
  BY <1>1 DEF Latched
<1>2. CASE Recv
  <2> DEFINE event == Head(queue)
             kinds == AlertsOf(event, last_shi_alert)
  <2>1. event \in Events
    BY <1>2, ReceivesQueue DEF Recv, TypeOK
  <2>2. "shi_below_70" \in kinds => Low(event) /\ "shi_below_70" \in Alerts
    BY <2>1, AlertsOfEvent DEF TypeOK
  <2>3. last_shi_alert' = Latch(event, last_shi_alert)
    BY <1>2 DEF Recv
  <2>4. \/ recovered' = (recovered \/ Good(event))
        \/ \E kind \in kinds :
             recovered' = ((recovered \/ Good(event)) /\ kind # "shi_below_70")
    BY <1>2 DEF Recv
  <2> HIDE DEF event, kinds
  <2>5. CASE recovered' = (recovered \/ Good(event))
    BY <2>3, <2>5 DEF Latched, Latch
  <2>6. ASSUME NEW kind \in kinds,
               recovered' = ((recovered \/ Good(event)) /\ kind # "shi_below_70")
        PROVE  Latched'
    BY <2>2, <2>3, <2>6 DEF Latched, Latch
  <2> QED
    BY <2>4, <2>5, <2>6
<1>3. CASE [Next]_vars /\ ~Recv
  BY <1>1, <1>3 DEF Next, Listener, Tick, Change, OtherEvent, Close, Drain, FinalAnswer,
                    TemporaryFailure, Answering, Retry, End, vars
<1> QED
  BY <1>2, <1>3

LEMMA Inductive == Spec => []IInv
<1>1. IInv /\ [Next]_vars => IInv'
  BY TypeStep, PacedStep, LatchedStep DEF IInv
<1> QED
  BY InitIInv, <1>1, PTL DEF Spec

-----------------------------------------------------------------------------
(* The theorems.                                                           *)

\* The listener's state keeps its type, the queue and the log their caps.
THEOREM TypeCorrect == Spec => []TypeOK
<1>1. IInv => TypeOK
  BY DEF IInv
<1> QED
  BY Inductive, <1>1, PTL

\* An alert holds the listener (the post_with_retry loop) for at most three
\* requests and three units of delay, whatever timeout and delay are.
THEOREM DeliveryBounded == Spec => []BusyBounded
<1>1. IInv => BusyBounded
  <2> SUFFICES ASSUME IInv PROVE BusyBounded
    OBVIOUS
  <2>1. /\ attempt \in {0, 1, 2} /\ waited \in Nat /\ busy \in Nat
        /\ MaxPost \in Nat /\ RetryDelay \in Nat
        /\ pc \in {"recv", "drain", "post", "backoff", "done"}
    BY WebhookAssumption DEF IInv, TypeOK, MAX_RETRIES
  <2>2. CASE pc = "post"
    BY <2>1, <2>2 DEF IInv, Paced, SpentBeforePost, BusyBounded, MAX_RETRIES
  <2>3. CASE pc = "backoff"
    BY <2>1, <2>3 DEF IInv, Paced, SpentBeforeSleep, Delay, BusyBounded, MAX_RETRIES
  <2>4. CASE ~Delivering
    BY <2>1, <2>4 DEF IInv, Paced, BusyBounded, MAX_RETRIES
  <2> QED
    BY <2>2, <2>3, <2>4 DEF Delivering
<1> QED
  BY Inductive, <1>1, PTL

\* event_to_alert alerts one drop of the score once: the latch it sets stays
\* set until a good score, past every other alert and every rejected claim.
THEOREM DropAlertedOnce == Spec => OneAlertPerDrop
<1>1. IInv /\ [Next]_vars
        => [pc = "recv" /\ pc' = "post" /\ alert' = "shi_below_70" => recovered]_vars
  <2> SUFFICES ASSUME IInv, [Next]_vars, pc = "recv", pc' = "post", alert' = "shi_below_70"
               PROVE  recovered
    OBVIOUS
  <2>1. Recv
    BY DEF Next, Listener, Tick, Change, OtherEvent, Close, Drain, FinalAnswer,
           TemporaryFailure, Answering, Retry, End, vars
  <2>2. "shi_below_70" \in AlertsOf(Head(queue), last_shi_alert)
    BY <2>1 DEF Recv
  <2>3. Head(queue) \in Events /\ last_shi_alert \in BOOLEAN
    BY <2>1, ReceivesQueue DEF Recv, IInv, TypeOK
  <2>4. ~last_shi_alert
    BY <2>2, <2>3, AlertsOfEvent
  <2> QED
    BY <2>4 DEF IInv, Latched
<1> QED
  BY Inductive, <1>1, PTL DEF Spec, OneAlertPerDrop
=============================================================================
