------------------------------- MODULE EventBus -------------------------------
(***************************************************************************)
(* ManifestPoller::send_event (src/src/engine/poller/events.rs): how one   *)
(* poller's events reach the metrics snapshot, the screen (or summary, or  *)
(* agent) task and the webhook task.  The poller updates the snapshot      *)
(* under its lock, then try_sends to the bounded channel `tx`, then to the *)
(* optional bounded channel `hook_tx`, and counts a drop if either failed. *)
(* The consumers run on other threads and may act between any two of these *)
(* steps, and may go away (drop their receiver).                           *)
(*                                                                         *)
(* Events are numbered in the order of the send_event calls.               *)
(***************************************************************************)
EXTENDS Naturals, Sequences, FiniteSets

CONSTANTS
  Capacity,    \* of both channels (EVENT_CHANNEL_CAPACITY)
  HasHook,     \* was the poller built with_webhook_tx?
  MaxEvents    \* bound: number of send_event calls

ASSUME EventBusAssumption ==
  Capacity \in Nat \ {0} /\ HasHook \in BOOLEAN /\ MaxEvents \in Nat

VARIABLES
  pc,              \* step of send_event the poller is at
  sent,            \* number of the event being sent, or of the last one sent
  metrics,         \* events the metrics snapshot has counted
  ui, hook,        \* the two channels
  uiTaken, hookTaken,      \* what their consumers received
  dropped          \* channel_dropped_total(), and dropped_events of the agent

vars == <<pc, sent, metrics, ui, hook, uiTaken, hookTaken, dropped>>

Events == 1..MaxEvents

\* `accepted` is history: the events whose try_send returned Ok.
NewChannel == [open |-> TRUE, queue |-> <<>>, accepted |-> {}]

\* tokio's bounded mpsc: try_send fails on a full queue and on a closed one.
CanSend(channel) == channel.open /\ Len(channel.queue) < Capacity
Sent(channel, event) ==
  [channel EXCEPT !.queue = Append(@, event), !.accepted = @ \cup {event}]
Received(channel) == [channel EXCEPT !.queue = Tail(@)]
Closed(channel) == [channel EXCEPT !.open = FALSE, !.queue = <<>>]

-----------------------------------------------------------------------------
(* send_event.                                                             *)

\* Variant: the snapshot is skipped when a reader holds its lock (try_write).
UpdateMetricsIfFree ==
  /\ pc = "idle" /\ sent < MaxEvents
  /\ sent' = sent + 1
  /\ metrics' \in {metrics, metrics + 1}
  /\ pc' = "ui"
  /\ UNCHANGED <<ui, hook, uiTaken, hookTaken, dropped>>

UpdateMetrics ==
  /\ pc = "idle" /\ sent < MaxEvents
  /\ sent' = sent + 1
  /\ metrics' = metrics + 1
  /\ pc' = "ui"
  /\ UNCHANGED <<ui, hook, uiTaken, hookTaken, dropped>>

\* Variants: `&&` for `||`, so that the second send is tried after a failed
\* first one and counts alone; a full queue gives up its oldest event.
TrySendUiAnd ==
  /\ pc = "ui"
  /\ IF CanSend(ui)
     THEN ui' = Sent(ui, sent) /\ pc' = "idle"
     ELSE UNCHANGED ui /\ pc' = IF HasHook THEN "hook" ELSE "drop"
  /\ UNCHANGED <<sent, metrics, hook, uiTaken, hookTaken, dropped>>
TrySendUiEvicting ==
  /\ pc = "ui"
  /\ ui' = IF CanSend(ui) THEN Sent(ui, sent)
           ELSE IF ui.open THEN Sent(Received(ui), sent) ELSE ui
  /\ pc' = IF ~ui.open THEN "drop" ELSE IF HasHook THEN "hook" ELSE "idle"
  /\ UNCHANGED <<sent, metrics, hook, uiTaken, hookTaken, dropped>>

\* `tx.try_send(..).is_err() || hook..`: a failed first send skips the second.
TrySendUi ==
  /\ pc = "ui"
  /\ IF CanSend(ui)
     THEN /\ ui' = Sent(ui, sent)
          /\ pc' = IF HasHook THEN "hook" ELSE "idle"
     ELSE /\ pc' = "drop"
          /\ UNCHANGED ui
  /\ UNCHANGED <<sent, metrics, hook, uiTaken, hookTaken, dropped>>

\* Variants: a full webhook queue makes the whole call start over; a full
\* queue gives up its oldest event.
TrySendHookRetrying ==
  /\ pc = "hook"
  /\ IF CanSend(hook)
     THEN hook' = Sent(hook, sent) /\ pc' = "idle"
     ELSE UNCHANGED hook /\ pc' = IF hook.open THEN "ui" ELSE "drop"
  /\ UNCHANGED <<sent, metrics, ui, uiTaken, hookTaken, dropped>>
TrySendHookEvicting ==
  /\ pc = "hook"
  /\ hook' = IF CanSend(hook) THEN Sent(hook, sent)
             ELSE IF hook.open THEN Sent(Received(hook), sent) ELSE hook
  /\ pc' = IF hook.open THEN "idle" ELSE "drop"
  /\ UNCHANGED <<sent, metrics, ui, uiTaken, hookTaken, dropped>>

TrySendHook ==
  /\ pc = "hook"
  /\ IF CanSend(hook)
     THEN /\ hook' = Sent(hook, sent)
          /\ pc' = "idle"
     ELSE /\ pc' = "drop"
          /\ UNCHANGED hook
  /\ UNCHANGED <<sent, metrics, ui, uiTaken, hookTaken, dropped>>

RecordDrop ==
  /\ pc = "drop"
  /\ dropped' = dropped + 1
  /\ pc' = "idle"
  /\ UNCHANGED <<sent, metrics, ui, hook, uiTaken, hookTaken>>

-----------------------------------------------------------------------------
(* The consumers.                                                          *)

UiRecv ==
  /\ ui.queue # <<>>
  /\ uiTaken' = Append(uiTaken, Head(ui.queue))
  /\ ui' = Received(ui)
  /\ UNCHANGED <<pc, sent, metrics, hook, hookTaken, dropped>>

HookRecv ==
  /\ hook.queue # <<>>
  /\ hookTaken' = Append(hookTaken, Head(hook.queue))
  /\ hook' = Received(hook)
  /\ UNCHANGED <<pc, sent, metrics, ui, uiTaken, dropped>>

UiClose ==
  /\ ui.open
  /\ ui' = Closed(ui)
  /\ UNCHANGED <<pc, sent, metrics, hook, uiTaken, hookTaken, dropped>>

HookClose ==
  /\ HasHook /\ hook.open
  /\ hook' = Closed(hook)
  /\ UNCHANGED <<pc, sent, metrics, ui, uiTaken, hookTaken, dropped>>

\* All events are sent and all consumers idle: the bound is reached.
Done ==
  /\ pc = "idle" /\ sent = MaxEvents
  /\ ui.queue = <<>> /\ hook.queue = <<>>
  /\ UNCHANGED vars

-----------------------------------------------------------------------------
Init ==
  /\ pc = "idle" /\ sent = 0 /\ metrics = 0
  /\ ui = NewChannel /\ hook = NewChannel
  /\ uiTaken = <<>> /\ hookTaken = <<>>
  /\ dropped = 0

SendEvent == UpdateMetrics \/ TrySendUi \/ TrySendHook \/ RecordDrop

Next == SendEvent \/ UiRecv \/ HookRecv \/ UiClose \/ HookClose \/ Done

Spec == Init /\ [][Next]_vars

-----------------------------------------------------------------------------
\* Events a channel has been offered: the one in flight counts once its
\* try_send was made or skipped.
OfferedToUi == IF pc = "ui" THEN sent - 1 ELSE sent
OfferedToHook == IF pc \in {"ui", "hook"} THEN sent - 1 ELSE sent

\* Each consumer sees an ordered lossy channel, whatever the other one does.
UiChannel == INSTANCE LossyChannel
               WITH offered <- OfferedToUi, queue <- ui.queue, taken <- uiTaken
HookChannel == INSTANCE LossyChannel
                 WITH offered <- OfferedToHook, queue <- hook.queue, taken <- hookTaken

UiIsLossyChannel == UiChannel!Spec
HookIsLossyChannel == HookChannel!Spec

\* No consumer is ahead of the metrics: an event that the screen or a webhook
\* has, or could receive now, is already counted in the snapshot a scrape reads.
MetricsLead == \A e \in ui.accepted \cup hook.accepted : e <= metrics

\* The drop counter is the number of events that a channel refused: one that
\* neither channel gets counts once, and none is counted that both accepted.
DropsAreCounted ==
  LET reachedAll == IF HasHook THEN ui.accepted \cap hook.accepted ELSE ui.accepted
      finished == IF pc = "idle" THEN 1..sent ELSE 1..(sent - 1)
  IN  dropped = Cardinality(finished \ reachedAll)
=============================================================================
