-------------------------------- MODULE Webhook --------------------------------
(***************************************************************************)
(* The webhook listener (src/src/engine/webhook.rs) behind its queue: it   *)
(* turns events into alerts, claims each against a dedupe window, and      *)
(* posts one alert at a time with retries.  The poller it listens to ends  *)
(* a cycle, and sends a Health event, with every tick.                     *)
(*                                                                         *)
(* An event is its type and its marks, what event_to_alert looks for in    *)
(* it.  A kind fixes its severity, so the dedupe key is the kind.          *)
(***************************************************************************)
EXTENDS Integers, Sequences

CONSTANTS
  Alerts,         \* the kinds of --alert-on
  DedupeWindow,   \* in ticks
  MaxPost,        \* ticks until a request times out
  RetryDelay,     \* ticks before the first retry
  DELIVERY_LOG_CAP,
  QueueCapacity,
  OtherEvents,    \* events that may come beside Health
  MaxOthers,      \* bound: how many of them
  MaxChanges      \* bound: changes of the stream's condition

AlertKinds == {"stall", "shi_below_70", "http_5xx", "mismatch", "ad_start", "ad_mismatch"}
MAX_RETRIES == 3

\* What makes an event of a type an alert of a kind.
Triggers == {<<"Segment", "5xx", "http_5xx">>, <<"Segment", "slow", "stall">>,
             <<"Buffer", "risk", "stall">>, <<"Log", "mismatch", "mismatch">>,
             <<"AdBreak", "active", "ad_start">>,
             <<"AdMarkerMismatch", "any", "ad_mismatch">>, <<"Error", "5xx", "http_5xx">>}

Conditions == SUBSET {"low", "stall"}   \* low: the score is below 70
Events == [type : {"Health"}, marks : Conditions]
            \cup [type : {t[1] : t \in Triggers}, marks : SUBSET {t[2] : t \in Triggers}]

ASSUME WebhookAssumption ==
  /\ Alerts \subseteq AlertKinds /\ OtherEvents \subseteq Events
  /\ DedupeWindow \in Nat \ {0} /\ MaxPost \in Nat /\ RetryDelay \in Nat \ {0}
  /\ DELIVERY_LOG_CAP \in Nat \ {0} /\ QueueCapacity \in Nat \ {0}
  /\ MaxOthers \in Nat /\ MaxChanges \in Nat

VARIABLES
  condition,       \* what the poller's Health events say
  queue, open,     \* the channel; open while a sender is left
  pc,              \* where the listener is
  alert, attempt,  \* the alert being posted, and its number of failed posts
  waited,          \* ticks in the present request or sleep
  last_sent,       \* ticks since a kind was claimed, held at DedupeWindow
  last_shi_alert,  \* the low score has been alerted
  log,             \* the latest outcomes
  others, changes, \* the bounds' counters
  busy,            \* history: ticks since the delivery began
  recovered        \* history: a good score was seen since the last shi_below_70

vars == <<condition, queue, open, pc, alert, attempt, waited, last_sent,
          last_shi_alert, log, others, changes, busy, recovered>>
postVars == <<alert, attempt, waited, busy>>
envVars == <<condition, open, others, changes>>

-----------------------------------------------------------------------------
(* The poller's side: try_send on a bounded queue, and time.               *)

TrySend(event) ==
  queue' = IF open /\ Len(queue) < QueueCapacity THEN Append(queue, event) ELSE queue

\* The delay doubles after the first retry.
Delay == IF attempt = 1 THEN RetryDelay ELSE 2 * RetryDelay

\* A request ends by its timeout, a sleep at its deadline.
MayPass == /\ pc = "post" => waited < MaxPost
           /\ pc = "backoff" => waited < Delay

Delivering == pc \in {"post", "backoff"}

Tick ==
  /\ pc # "done"
  /\ MayPass
  /\ TrySend([type |-> "Health", marks |-> condition])
  /\ waited' = IF Delivering THEN waited + 1 ELSE waited
  /\ busy' = IF Delivering THEN busy + 1 ELSE busy
  /\ last_sent' = [k \in Alerts |->
                     IF last_sent[k] < DedupeWindow THEN last_sent[k] + 1 ELSE DedupeWindow]
  /\ UNCHANGED <<envVars, pc, alert, attempt, last_shi_alert, log, recovered>>

Change ==
  /\ open /\ changes < MaxChanges
  /\ condition' \in Conditions \ {condition}
  /\ changes' = changes + 1
  /\ UNCHANGED <<queue, open, pc, postVars, last_sent, last_shi_alert, log, others, recovered>>

OtherEvent ==
  /\ open /\ others < MaxOthers
  /\ \E event \in OtherEvents : TrySend(event)
  /\ others' = others + 1
  /\ UNCHANGED <<condition, open, pc, postVars, last_sent, last_shi_alert, log, changes, recovered>>

Close ==
  /\ open
  /\ open' = FALSE
  /\ UNCHANGED <<condition, queue, pc, postVars, last_sent, last_shi_alert, log, others,
                 changes, recovered>>

-----------------------------------------------------------------------------
(* The listener.                                                           *)

Low(event) == event.type = "Health" /\ "low" \in event.marks
Good(event) == event.type = "Health" /\ "low" \notin event.marks

\* The alerts that event_to_alert may make of an event; a low score hides a
\* stall, and a segment's HTTP error its slow first byte.
AlertsOf(event, latched) ==
  IF Low(event) /\ "shi_below_70" \in Alerts
  THEN IF latched THEN {} ELSE {"shi_below_70"}
  ELSE IF event.type = "Health"
  THEN {"stall"} \cap event.marks \cap Alerts
  ELSE LET kinds == {k \in Alerts : \E mark \in event.marks : <<event.type, mark, k>> \in Triggers}
       IN  IF "http_5xx" \in kinds THEN {"http_5xx"} ELSE kinds

\* Variant: whatever makes no alert clears the latch.
LatchClearedBySilence(event, latched) == Low(event) /\ ~latched
Latch(event, latched) ==
  \/ Low(event) /\ "shi_below_70" \in Alerts
  \/ latched /\ ~Good(event)

\* should_send: a kind is claimed for a window, unless it still is.  Variant: a
\* rejected claim restarts the window.
Fresh(kind) == last_sent[kind] = DedupeWindow
ClaimedExtending(kind) == [last_sent EXCEPT ![kind] = 0]
Claimed(kind) == IF Fresh(kind) THEN [last_sent EXCEPT ![kind] = 0] ELSE last_sent

Receives == queue # <<>> /\ queue' = Tail(queue)

\* One event is received, and its alert, if any, claimed and taken up.
Recv ==
  /\ pc = "recv" /\ Receives
  /\ last_shi_alert' = Latch(Head(queue), last_shi_alert)
  /\ LET kinds == AlertsOf(Head(queue), last_shi_alert)
         seen  == recovered \/ Good(Head(queue))
         Take(kind) == /\ pc' = "post" /\ alert' = kind
                       /\ attempt' = 0 /\ waited' = 0 /\ busy' = 0
                       /\ recovered' = (seen /\ kind # "shi_below_70")
         Pass == recovered' = seen /\ UNCHANGED <<pc, postVars>>
     IN  IF kinds = {} THEN Pass /\ UNCHANGED last_sent
         ELSE \E kind \in kinds : /\ last_sent' = Claimed(kind)
                                  /\ IF Fresh(kind) THEN Take(kind) ELSE Pass
  /\ UNCHANGED <<envVars, log>>

\* The destination was refused at the start: events are only drained.
Drain ==
  /\ pc = "drain" /\ Receives
  /\ UNCHANGED <<envVars, pc, postVars, last_sent, last_shi_alert, log, recovered>>

LogWith(ok) ==
  LET longer == Append(log, [alert |-> alert, ok |-> ok])
  IN  IF Len(longer) > DELIVERY_LOG_CAP THEN Tail(longer) ELSE longer

Finish(ok) ==
  /\ log' = LogWith(ok)
  /\ pc' = "recv"
  /\ alert' = "none" /\ attempt' = 0 /\ waited' = 0 /\ busy' = 0

Answering == /\ pc = "post"
             /\ UNCHANGED <<envVars, queue, last_sent, last_shi_alert, recovered>>

\* 2xx, or an answer that no retry will change: 3xx, 4xx but 429, and a
\* destination that is refused meanwhile.
FinalAnswer == Answering /\ \E ok \in BOOLEAN : Finish(ok)

\* Variants: the last failure still sleeps; failures are retried for ever.
TemporaryFailureSleepsOnce ==
  /\ Answering
  /\ IF attempt < MAX_RETRIES
     THEN /\ pc' = "backoff"
          /\ attempt' = attempt + 1 /\ waited' = 0
          /\ UNCHANGED <<alert, busy, log>>
     ELSE Finish(FALSE)
TemporaryFailureForever ==
  /\ Answering
  /\ pc' = "backoff"
  /\ attempt' = 1 /\ waited' = 0 /\ busy' = 0
  /\ UNCHANGED <<alert, log>>

\* 5xx, 429, a transport error or the timeout: retried, but not after the last.
TemporaryFailure ==
  /\ Answering
  /\ IF attempt + 1 < MAX_RETRIES
     THEN /\ pc' = "backoff"
          /\ attempt' = attempt + 1 /\ waited' = 0
          /\ UNCHANGED <<alert, busy, log>>
     ELSE Finish(FALSE)

Retry ==
  /\ pc = "backoff" /\ waited = Delay
  /\ pc' = "post" /\ waited' = 0
  /\ UNCHANGED <<envVars, queue, alert, attempt, busy, last_sent, last_shi_alert, log, recovered>>

\* rx.recv() is None: every sender is gone and the queue is drained.
End ==
  /\ pc \in {"recv", "drain"} /\ queue = <<>> /\ ~open
  /\ pc' = "done"
  /\ UNCHANGED <<envVars, queue, postVars, last_sent, last_shi_alert, log, recovered>>

-----------------------------------------------------------------------------
Init ==
  /\ condition = {} /\ queue = <<>> /\ open = TRUE
  /\ \/ pc = "recv" /\ log = <<>>
     \/ pc = "drain" /\ log = <<[alert |-> "ssrf_block", ok |-> FALSE]>>
  /\ alert = "none" /\ attempt = 0 /\ waited = 0
  /\ last_sent = [k \in Alerts |-> DedupeWindow] /\ last_shi_alert = FALSE
  /\ others = 0 /\ changes = 0
  /\ busy = 0 /\ recovered = TRUE

Listener == Recv \/ Drain \/ FinalAnswer \/ TemporaryFailure \/ Retry \/ End

Next == Listener \/ Tick \/ Change \/ OtherEvent \/ Close

\* The listener's task is scheduled, its requests end, and time passes.
Spec == Init /\ [][Next]_vars /\ WF_vars(Listener) /\ WF_vars(Tick)

-----------------------------------------------------------------------------
(* Properties.                                                             *)

\* The listener's state has its type; the queue and the log keep their caps.
TypeOK ==
  /\ condition \in Conditions /\ open \in BOOLEAN
  /\ queue \in Seq(Events) /\ Len(queue) <= QueueCapacity
  /\ pc \in {"recv", "drain", "post", "backoff", "done"}
  /\ alert \in Alerts \cup {"none"} /\ attempt \in 0..(MAX_RETRIES - 1)
  /\ waited \in Nat /\ busy \in Nat
  /\ last_sent \in [Alerts -> 0..DedupeWindow]
  /\ last_shi_alert \in BOOLEAN /\ recovered \in BOOLEAN
  /\ log \in Seq([alert : Alerts \cup {"ssrf_block"}, ok : BOOLEAN])
  /\ Len(log) <= DELIVERY_LOG_CAP
  /\ others \in 0..MaxOthers /\ changes \in 0..MaxChanges

\* One alert holds the listener, which meanwhile receives nothing, for at most
\* three requests and the two sleeps between them, however the endpoint answers.
BusyBounded == busy <= MAX_RETRIES * MaxPost + 3 * RetryDelay

\* A drop of the score below 70 is alerted at most once, however long it lasts
\* and whatever else is alerted meanwhile: the next one needs a good score first.
OneAlertPerDrop ==
  [][pc = "recv" /\ pc' = "post" /\ alert' = "shi_below_70" => recovered]_vars

\* A stall that lasts is alerted again and again, although its events come more
\* often than the dedupe window and their alerts fail.  Not so below a score of
\* 70, where event_to_alert returns before it looks for a stall.
LastingStallIsRepeated ==
  <>[](open /\ pc # "drain" /\ condition = {"stall"})
    => []<>(pc = "post" /\ alert = "stall" /\ attempt = 0)

\* When the last sender is gone the listener works off its queue and ends, also
\* if every post fails.
EndsAfterClose == ~open ~> pc = "done"
=============================================================================
