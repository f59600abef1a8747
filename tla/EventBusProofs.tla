---------------------------- MODULE EventBusProofs ----------------------------
(***************************************************************************)
(* Both channels of a poller are lossy channels in the sense of            *)
(* LossyChannel, for every capacity, with or without a webhook, whatever   *)
(* the consumers do between two steps of send_event; what they lose is     *)
(* counted once, and the metrics are ahead of both.                        *)
(***************************************************************************)
EXTENDS EventBus, SequenceTheorems, FiniteSetTheorems, TLAPS

\* What the refinement needs: events are counted, and channels hold numbers.
Numbered == [open : BOOLEAN, queue : Seq(Nat), accepted : SUBSET Nat]

Inv ==
  /\ sent \in Nat
  /\ pc \in {"idle", "ui", "hook", "drop"}
  /\ ui \in Numbered /\ hook \in Numbered

\* Sending, receiving and closing change the queue as they should.
LEMMA ChannelOperators ==
  ASSUME NEW c \in Numbered, NEW e \in Nat
  PROVE  /\ Sent(c, e) \in Numbered /\ Sent(c, e).queue = Append(c.queue, e)
         /\ c.queue # <<>> =>
              Received(c) \in Numbered /\ Received(c).queue = Tail(c.queue)
         /\ Closed(c) \in Numbered /\ Closed(c).queue = <<>>
<1>1. c.queue \in Seq(Nat) /\ Append(c.queue, e) \in Seq(Nat) /\ <<>> \in Seq(Nat)
  BY DEF Numbered
<1>2. Sent(c, e) \in Numbered /\ Sent(c, e).queue = Append(c.queue, e)
  BY <1>1 DEF Numbered, Sent
<1>3. ASSUME c.queue # <<>>
      PROVE  Received(c) \in Numbered /\ Received(c).queue = Tail(c.queue)
  <2> DEFINE rest == Tail(c.queue)
  <2>1. rest \in Seq(Nat)
    BY <1>1, <1>3, HeadTailProperties
  <2>2. Received(c) = [c EXCEPT !.queue = rest]
    BY DEF Received
  <2> HIDE DEF rest
  <2>3. Received(c) \in Numbered /\ Received(c).queue = rest
    BY <2>1, <2>2 DEF Numbered
  <2> QED
    BY <2>3 DEF rest
<1>4. Closed(c) \in Numbered /\ Closed(c).queue = <<>>
  <2> DEFINE empty == <<>>
             shut == FALSE
  <2>1. empty \in Seq(Nat) /\ shut \in BOOLEAN
    BY <1>1
  <2>2. Closed(c) = [c EXCEPT !.open = shut, !.queue = empty]
    BY DEF Closed
  <2> HIDE DEF empty, shut
  <2>3. Closed(c) \in Numbered /\ Closed(c).queue = empty
    BY <2>1, <2>2 DEF Numbered
  <2> QED
    BY <2>3 DEF empty
<1> QED
  BY <1>2, <1>3, <1>4

LEMMA SpecInv == Spec => []Inv
<1>1. Init => Inv
  <2>1. NewChannel \in Numbered
    <3>1. <<>> \in Seq(Nat) /\ {} \in SUBSET Nat
      OBVIOUS
    <3> QED
      BY <3>1 DEF NewChannel, Numbered
  <2> QED
    BY <2>1 DEF Init, Inv
<1>2. Inv /\ [Next]_vars => Inv'
  <2> SUFFICES ASSUME Inv, [Next]_vars PROVE Inv'
    OBVIOUS
  <2> USE DEF Inv
  <2>1. CASE UpdateMetrics
    BY <2>1 DEF UpdateMetrics
  <2>2. CASE TrySendUi
    BY <2>2, ChannelOperators DEF TrySendUi
  <2>3. CASE TrySendHook
    BY <2>3, ChannelOperators DEF TrySendHook
  <2>4. CASE RecordDrop
    BY <2>4 DEF RecordDrop
  <2>5. CASE UiRecv
    BY <2>5, ChannelOperators DEF UiRecv
  <2>6. CASE HookRecv
    BY <2>6, ChannelOperators DEF HookRecv
  <2>7. CASE UiClose
    BY <2>7, ChannelOperators DEF UiClose
  <2>8. CASE HookClose
    BY <2>8, ChannelOperators DEF HookClose
  <2>9. CASE Done \/ UNCHANGED vars
    BY <2>9 DEF Done, vars
  <2> QED
    BY <2>1, <2>2, <2>3, <2>4, <2>5, <2>6, <2>7, <2>8, <2>9 DEF Next, SendEvent
<1> QED
  BY <1>1, <1>2, PTL DEF Spec

-----------------------------------------------------------------------------
\* Every step of the poller and of the consumers is an offer, a take, a
\* discard or a stutter of the screen's channel.
LEMMA UiStep == Inv /\ [Next]_vars => [UiChannel!Next]_(UiChannel!lossyVars)
<1> SUFFICES ASSUME Inv, [Next]_vars
             PROVE  UiChannel!Next \/ UNCHANGED UiChannel!lossyVars
  OBVIOUS
<1> USE DEF Inv, OfferedToUi, UiChannel!lossyVars
<1>1. CASE UpdateMetrics
  BY <1>1 DEF UpdateMetrics
<1>2. CASE TrySendUi
  <2>1. OfferedToUi' = OfferedToUi + 1 /\ sent = OfferedToUi + 1 /\ UNCHANGED uiTaken
    BY <1>2 DEF TrySendUi
  <2>2. ui'.queue \in {ui.queue, Append(ui.queue, sent)}
    BY <1>2, ChannelOperators DEF TrySendUi
  <2> QED
    BY <2>1, <2>2 DEF UiChannel!Next, UiChannel!Offer
<1>3. CASE TrySendHook \/ RecordDrop \/ HookRecv \/ HookClose \/ Done \/ UNCHANGED vars
  BY <1>3 DEF TrySendHook, RecordDrop, HookRecv, HookClose, Done, vars
<1>4. CASE UiRecv
  BY <1>4, ChannelOperators DEF UiRecv, UiChannel!Next, UiChannel!Take
<1>5. CASE UiClose
  BY <1>5, ChannelOperators DEF UiClose, UiChannel!Next, UiChannel!Discard
<1> QED
  BY <1>1, <1>2, <1>3, <1>4, <1>5 DEF Next, SendEvent

\* The same for the webhook's channel, which is also offered, in vain, an event
\* that the screen's channel refused.
LEMMA HookStep == Inv /\ [Next]_vars => [HookChannel!Next]_(HookChannel!lossyVars)
<1> SUFFICES ASSUME Inv, [Next]_vars
             PROVE  HookChannel!Next \/ UNCHANGED HookChannel!lossyVars
  OBVIOUS
<1> USE DEF Inv, OfferedToHook, HookChannel!lossyVars
<1>1. CASE UpdateMetrics
  BY <1>1 DEF UpdateMetrics
<1>2. CASE TrySendUi
  BY <1>2 DEF TrySendUi, HookChannel!Next, HookChannel!Offer
<1>3. CASE TrySendHook
  <2>1. OfferedToHook' = OfferedToHook + 1 /\ sent = OfferedToHook + 1
        /\ UNCHANGED hookTaken
    BY <1>3 DEF TrySendHook
  <2>2. hook'.queue \in {hook.queue, Append(hook.queue, sent)}
    BY <1>3, ChannelOperators DEF TrySendHook
  <2> QED
    BY <2>1, <2>2 DEF HookChannel!Next, HookChannel!Offer
<1>4. CASE RecordDrop \/ UiRecv \/ UiClose \/ Done \/ UNCHANGED vars
  BY <1>4 DEF RecordDrop, UiRecv, UiClose, Done, vars
<1>5. CASE HookRecv
  BY <1>5, ChannelOperators DEF HookRecv, HookChannel!Next, HookChannel!Take
<1>6. CASE HookClose
  BY <1>6, ChannelOperators DEF HookClose, HookChannel!Next, HookChannel!Discard
<1> QED
  BY <1>1, <1>2, <1>3, <1>4, <1>5, <1>6 DEF Next, SendEvent

\* The screen's consumer sees an ordered lossy channel (send_event, rx.recv).
THEOREM UiRefines == Spec => UiIsLossyChannel
<1>1. Init => UiChannel!Init
  BY DEF Init, NewChannel, OfferedToUi, UiChannel!Init
<1> QED
  BY <1>1, UiStep, SpecInv, PTL DEF Spec, UiIsLossyChannel, UiChannel!Spec

\* The webhook's consumer does too, although a failed send to the screen
\* decides about its events (send_event, spawn_webhook_listener_with_log).
THEOREM HookRefines == Spec => HookIsLossyChannel
<1>1. Init => HookChannel!Init
  BY DEF Init, NewChannel, OfferedToHook, HookChannel!Init
<1> QED
  BY <1>1, HookStep, SpecInv, PTL DEF Spec, HookIsLossyChannel, HookChannel!Spec

-----------------------------------------------------------------------------
(* What a lossy channel promises: what was taken from it, followed by what  *)
(* still waits in it, is in the order of the offers.                        *)

\* Strictly increasing numbers, none above n (Ascending of LossyChannel).
Rising(s, n) ==
  /\ \A i \in 1..Len(s) : s[i] \in 1..n
  /\ \A i, j \in 1..Len(s) : i < j => s[i] < s[j]

Promise(offered, queue, taken) ==
  /\ offered \in Nat /\ queue \in Seq(Nat) /\ taken \in Seq(Nat)
  /\ Rising(taken \o queue, offered)

\* Appending the next number keeps a sequence ascending.
LEMMA RisingAppend ==
  ASSUME NEW n \in Nat, NEW s \in Seq(Nat), Rising(s, n)
  PROVE  Rising(Append(s, n + 1), n + 1)
<1>1. /\ Append(s, n + 1) \in Seq(Nat)
      /\ Len(Append(s, n + 1)) = Len(s) + 1
      /\ \A i \in 1..Len(s) : Append(s, n + 1)[i] = s[i]
      /\ Append(s, n + 1)[Len(s) + 1] = n + 1
  BY AppendProperties
<1> DEFINE t == Append(s, n + 1)
<1>2. Len(s) \in Nat
  BY LenProperties
<1> HIDE DEF t
<1>3. ASSUME NEW i \in 1..Len(t) PROVE t[i] \in 1..(n + 1)
  BY <1>1, <1>2, <1>3 DEF Rising, t
<1>4. ASSUME NEW i \in 1..Len(t), NEW j \in 1..Len(t), i < j PROVE t[i] < t[j]
  <2>1. i \in 1..Len(s) /\ t[i] = s[i] /\ s[i] \in 1..n
    BY <1>1, <1>2, <1>4 DEF Rising, t
  <2>2. CASE j \in 1..Len(s)
    BY <1>1, <1>4, <2>1, <2>2 DEF Rising, t
  <2>3. CASE j = Len(s) + 1
    BY <1>1, <2>1, <2>3 DEF t
  <2> QED
    BY <1>1, <1>2, <2>2, <2>3 DEF t
<1> QED
  BY <1>3, <1>4 DEF Rising, t

\* Discarding the end of an ascending sequence keeps it ascending, and so do
\* offers that are lost.
LEMMA RisingPrefix ==
  ASSUME NEW n \in Nat, NEW m \in Nat, n <= m,
         NEW s \in Seq(Nat), NEW t \in Seq(Nat), Rising(s \o t, n)
  PROVE  Rising(s, n) /\ Rising(s \o t, m)
<1>1. /\ Len(s \o t) = Len(s) + Len(t)
      /\ \A i \in 1..Len(s) + Len(t) :
           (s \o t)[i] = IF i <= Len(s) THEN s[i] ELSE t[i - Len(s)]
  BY ConcatProperties
<1>2. Len(s) \in Nat /\ Len(t) \in Nat
  BY LenProperties
<1>3. \A i \in 1..Len(s) : i \in 1..Len(s \o t) /\ (s \o t)[i] = s[i]
  BY <1>1, <1>2
<1>4. Rising(s, n)
  BY <1>3 DEF Rising
<1>5. Rising(s \o t, m)
  BY DEF Rising
<1> QED
  BY <1>4, <1>5

\* An event that is offered is the newest, whether it is queued or lost.
LEMMA OfferKeeps ==
  ASSUME NEW n, NEW q, NEW t, Promise(n, q, t), NEW r, r \in {q, Append(q, n + 1)}
  PROVE  Promise(n + 1, r, t)
<1>1. n \in Nat /\ n + 1 \in Nat /\ q \in Seq(Nat) /\ t \in Seq(Nat) /\ Rising(t \o q, n)
  BY DEF Promise
<1>2. CASE r = q
  BY <1>1, <1>2, RisingPrefix DEF Promise
<1>3. CASE r = Append(q, n + 1)
  <2>1. t \o q \in Seq(Nat) /\ r \in Seq(Nat)
    BY <1>1, <1>3, ConcatProperties, AppendProperties
  <2>2. Rising(Append(t \o q, n + 1), n + 1)
    BY <1>1, <2>1, RisingAppend
  <2>3. t \o r = Append(t \o q, n + 1)
    <3>1. <<n + 1>> \in Seq(Nat)
      BY <1>1
    <3>2. r = q \o <<n + 1>>
      BY <1>1, <1>3, <3>1, AppendIsConcat
    <3>3. Append(t \o q, n + 1) = (t \o q) \o <<n + 1>>
      BY <1>1, <2>1, AppendIsConcat
    <3>4. (t \o q) \o <<n + 1>> = t \o (q \o <<n + 1>>)
      BY <1>1, <3>1, ConcatAssociative
    <3> QED
      BY <3>2, <3>3, <3>4
  <2> QED
    BY <1>1, <2>1, <2>2, <2>3 DEF Promise
<1> QED
  BY <1>2, <1>3

\* An event that is taken was the oldest that waited.
LEMMA TakeKeeps ==
  ASSUME NEW n, NEW q, NEW t, Promise(n, q, t), q # <<>>
  PROVE  Promise(n, Tail(q), Append(t, Head(q)))
<1>1. n \in Nat /\ q \in Seq(Nat) /\ t \in Seq(Nat) /\ Rising(t \o q, n)
  BY DEF Promise
<1>2. Head(q) \in Nat /\ Tail(q) \in Seq(Nat) /\ <<Head(q)>> \in Seq(Nat)
  BY <1>1, HeadTailProperties
<1>3. Append(t, Head(q)) = t \o <<Head(q)>> /\ Append(t, Head(q)) \in Seq(Nat)
  BY <1>1, <1>2, AppendIsConcat, AppendProperties
<1>4. q = <<Head(q)>> \o Tail(q)
  BY <1>1
<1>5. Append(t, Head(q)) \o Tail(q) = t \o q
  <2> DEFINE h == <<Head(q)>>
             rest == Tail(q)
  <2> HIDE DEF h, rest
  <2>1. (t \o h) \o rest = t \o (h \o rest)
    BY <1>1, <1>2, ConcatAssociative DEF h, rest
  <2>2. Append(t, Head(q)) = t \o h /\ q = h \o rest /\ rest = Tail(q)
    BY <1>3, <1>4 DEF h, rest
  <2> QED
    BY <2>1, <2>2
<1> QED
  BY <1>1, <1>2, <1>3, <1>5 DEF Promise

\* A consumer that goes away discards only the end.
LEMMA DiscardKeeps ==
  ASSUME NEW n, NEW q, NEW t, Promise(n, q, t)
  PROVE  Promise(n, <<>>, t)
<1>1. n \in Nat /\ q \in Seq(Nat) /\ t \in Seq(Nat) /\ Rising(t \o q, n)
  BY DEF Promise
<1>2. Rising(t, n)
  BY <1>1, RisingPrefix
<1>3. t \o <<>> = t
  BY <1>1, ConcatEmptySeq
<1> QED
  BY <1>1, <1>2, <1>3 DEF Promise

LEMMA PromiseAtFirst == Promise(0, <<>>, <<>>)
<1>1. <<>> \o <<>> = <<>> /\ Len(<<>>) = 0
  OBVIOUS
<1> QED
  BY <1>1 DEF Promise, Rising

\* So the screen sees events in the order of the send_event calls, each at most
\* once, whatever the webhook's consumer does.
THEOREM UiSeesOrder == Spec => []UiChannel!Ordered
<1> DEFINE P == Promise(OfferedToUi, ui.queue, uiTaken)
<1>1. UiChannel!Init => P
  BY PromiseAtFirst DEF UiChannel!Init
<1>2. P /\ [UiChannel!Next]_(UiChannel!lossyVars) => P'
  <2> SUFFICES ASSUME P, [UiChannel!Next]_(UiChannel!lossyVars)
               PROVE  Promise(OfferedToUi', (ui.queue)', uiTaken')
    OBVIOUS
  <2> HIDE DEF OfferedToUi
  <2>1. CASE UiChannel!Offer
    BY <2>1, OfferKeeps DEF UiChannel!Offer
  <2>2. CASE UiChannel!Take
    BY <2>2, TakeKeeps DEF UiChannel!Take
  <2>3. CASE UiChannel!Discard
    BY <2>3, DiscardKeeps DEF UiChannel!Discard
  <2> QED
    BY <2>1, <2>2, <2>3 DEF UiChannel!Next, UiChannel!lossyVars
<1>3. P => UiChannel!Ordered
  BY DEF Promise, Rising, UiChannel!Ordered, UiChannel!Ascending
<1> QED
  BY <1>1, <1>2, <1>3, UiRefines, PTL DEF UiIsLossyChannel, UiChannel!Spec

\* And so does the webhook, whatever the screen does.
THEOREM HookSeesOrder == Spec => []HookChannel!Ordered
<1> DEFINE P == Promise(OfferedToHook, hook.queue, hookTaken)
<1>1. HookChannel!Init => P
  BY PromiseAtFirst DEF HookChannel!Init
<1>2. P /\ [HookChannel!Next]_(HookChannel!lossyVars) => P'
  <2> SUFFICES ASSUME P, [HookChannel!Next]_(HookChannel!lossyVars)
               PROVE  Promise(OfferedToHook', (hook.queue)', hookTaken')
    OBVIOUS
  <2> HIDE DEF OfferedToHook
  <2>1. CASE HookChannel!Offer
    BY <2>1, OfferKeeps DEF HookChannel!Offer
  <2>2. CASE HookChannel!Take
    BY <2>2, TakeKeeps DEF HookChannel!Take
  <2>3. CASE HookChannel!Discard
    BY <2>3, DiscardKeeps DEF HookChannel!Discard
  <2> QED
    BY <2>1, <2>2, <2>3 DEF HookChannel!Next, HookChannel!lossyVars
<1>3. P => HookChannel!Ordered
  BY DEF Promise, Rising, HookChannel!Ordered, HookChannel!Ascending
<1> QED
  BY <1>1, <1>2, <1>3, HookRefines, PTL DEF HookIsLossyChannel, HookChannel!Spec

-----------------------------------------------------------------------------
(* The drop counter.  DropsAreCounted is not inductive: that a drop is      *)
(* about to be counted once needs that the event in flight is in neither    *)
(* more nor fewer channels than the step of send_event says.                *)
Reached == IF HasHook THEN ui.accepted \cap hook.accepted ELSE ui.accepted
Finished == IF pc = "idle" THEN 1..sent ELSE 1..(sent - 1)
Missed == Finished \ Reached

InFlight ==
  /\ pc # "idle" => sent >= 1
  /\ pc = "ui" => sent \notin ui.accepted /\ sent \notin hook.accepted
  /\ pc = "hook" => HasHook /\ sent \in ui.accepted /\ sent \notin hook.accepted
  /\ pc = "drop" => sent \notin Reached

Accounted ==
  /\ Inv
  /\ metrics = sent /\ dropped \in Nat
  /\ ui.accepted \subseteq 1..sent /\ hook.accepted \subseteq 1..sent
  /\ InFlight
  /\ dropped = Cardinality(Missed)

\* What a channel accepted changes with a send alone.
LEMMA AcceptedOnlyBySend ==
  ASSUME NEW c \in Numbered, NEW e \in Nat
  PROVE  /\ Sent(c, e).accepted = c.accepted \cup {e}
         /\ Received(c).accepted = c.accepted
         /\ Closed(c).accepted = c.accepted
BY DEF Numbered, Sent, Received, Closed

LEMMA AccountedInit == Init => Accounted
<1> SUFFICES ASSUME Init PROVE Accounted
  OBVIOUS
<1>1. NewChannel \in Numbered /\ NewChannel.accepted = {}
  <2>1. <<>> \in Seq(Nat) /\ {} \in SUBSET Nat
    OBVIOUS
  <2> QED
    BY <2>1 DEF NewChannel, Numbered
<1>2. Inv
  BY <1>1 DEF Init, Inv
<1>3. Missed = {}
  BY DEF Init, Missed, Finished
<1> QED
  BY <1>1, <1>2, <1>3, FS_EmptySet DEF Init, Accounted, InFlight

\* A step that leaves the missed events and the counter alone keeps the sum.
LEMMA AccountedStep == Accounted /\ Inv' /\ [Next]_vars => Accounted'
<1> SUFFICES ASSUME Accounted, Inv', [Next]_vars PROVE Accounted'
  OBVIOUS
<1> USE DEF Accounted, Inv, InFlight
<1>1. CASE UpdateMetrics
  <2>1. Missed' = Missed
    BY <1>1 DEF UpdateMetrics, Missed, Finished, Reached
  <2> QED
    BY <1>1, <2>1 DEF UpdateMetrics
<1>2. CASE TrySendUi
  <2>1. CASE CanSend(ui)
    <3>1. ui'.accepted = ui.accepted \cup {sent}
      BY <1>2, <2>1, AcceptedOnlyBySend DEF TrySendUi
    <3>2. Missed' = Missed
      BY <1>2, <2>1, <3>1 DEF TrySendUi, Missed, Finished, Reached
    <3> QED
      BY <1>2, <2>1, <3>1, <3>2 DEF TrySendUi
  <2>2. CASE ~CanSend(ui)
    <3>1. Missed' = Missed /\ sent' \notin Reached'
      BY <1>2, <2>2 DEF TrySendUi, Missed, Finished, Reached
    <3> QED
      BY <1>2, <2>2, <3>1 DEF TrySendUi
  <2> QED
    BY <2>1, <2>2
<1>3. CASE TrySendHook
  <2>1. CASE CanSend(hook)
    <3>1. hook'.accepted = hook.accepted \cup {sent}
      BY <1>3, <2>1, AcceptedOnlyBySend DEF TrySendHook
    <3>2. Missed' = Missed
      BY <1>3, <2>1, <3>1 DEF TrySendHook, Missed, Finished, Reached
    <3> QED
      BY <1>3, <2>1, <3>1, <3>2 DEF TrySendHook
  <2>2. CASE ~CanSend(hook)
    <3>1. Missed' = Missed /\ sent' \notin Reached'
      BY <1>3, <2>2 DEF TrySendHook, Missed, Finished, Reached
    <3> QED
      BY <1>3, <2>2, <3>1 DEF TrySendHook
  <2> QED
    BY <2>1, <2>2
<1>4. CASE RecordDrop
  <2>1. Missed' = Missed \cup {sent} /\ sent \notin Missed
    BY <1>4 DEF RecordDrop, Missed, Finished, Reached
  <2>2. IsFiniteSet(Missed)
    <3>1. IsFiniteSet(Finished)
      <4>1. 1 \in Int /\ sent \in Int /\ sent - 1 \in Int
        OBVIOUS
      <4>2. IsFiniteSet(1..sent) /\ IsFiniteSet(1..(sent - 1))
        BY <4>1, FS_Interval
      <4> QED
        BY <4>2 DEF Finished
    <3> QED
      BY <3>1, FS_Subset DEF Missed
  <2>3. Cardinality(Missed') = dropped + 1
    BY <2>1, <2>2, FS_AddElement
  <2> QED
    BY <1>4, <2>3 DEF RecordDrop
<1>5. CASE UiRecv \/ HookRecv \/ UiClose \/ HookClose
  <2>1. ui'.accepted = ui.accepted /\ hook'.accepted = hook.accepted
    BY <1>5, AcceptedOnlyBySend DEF UiRecv, HookRecv, UiClose, HookClose
  <2>2. UNCHANGED <<pc, sent, metrics, dropped>>
    BY <1>5 DEF UiRecv, HookRecv, UiClose, HookClose
  <2>3. Reached' = Reached /\ Missed' = Missed
    BY <2>1, <2>2 DEF Missed, Finished, Reached
  <2> QED
    BY <2>1, <2>2, <2>3
<1>6. CASE Done \/ UNCHANGED vars
  <2>1. UNCHANGED vars
    BY <1>6 DEF Done
  <2>2. Reached' = Reached /\ Missed' = Missed
    BY <2>1 DEF vars, Missed, Finished, Reached
  <2> QED
    BY <2>1, <2>2 DEF vars
<1> QED
  BY <1>1, <1>2, <1>3, <1>4, <1>5, <1>6 DEF Next, SendEvent

LEMMA AlwaysAccounted == Spec => []Accounted
BY AccountedInit, AccountedStep, SpecInv, PTL DEF Spec

\* Every event that a consumer misses, because its queue was full, it was gone
\* or the other one refused the event first, is in channel_dropped_total once,
\* and no other is (send_event, record_channel_drop).
THEOREM DropsCounted == Spec => []DropsAreCounted
<1>1. Accounted => DropsAreCounted
  BY DEF Accounted, DropsAreCounted, Missed, Finished, Reached
<1> QED
  BY <1>1, AlwaysAccounted, PTL

\* The metrics are never behind what a consumer has or may receive (send_event
\* updates the snapshot before it tries the channels).
THEOREM MetricsAreAhead == Spec => []MetricsLead
<1>1. Accounted => MetricsLead
  BY DEF Accounted, Inv, MetricsLead
<1> QED
  BY <1>1, AlwaysAccounted, PTL
=============================================================================
