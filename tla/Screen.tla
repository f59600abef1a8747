--------------------------------- MODULE Screen ---------------------------------
(***************************************************************************)
(* The dashboard and its channel picker (App of src/src/ui/app.rs): what   *)
(* the keys do, which poller task runs behind the screen, and whose data   *)
(* the panes show.  Every channel the user opens spawns a new poller task  *)
(* with a new event queue and aborts the one before; an aborted task runs  *)
(* on other threads until its next await, and its webhook listener lives   *)
(* until the task is dropped.                                              *)
(*                                                                         *)
(* Pollers are numbered in the order they are spawned; the latest is       *)
(* `latest`.  Layout, toasts, scroll positions and the panel toggles are   *)
(* left out, as is the wording of the log.                                 *)
(***************************************************************************)
EXTENDS ChannelPicker, FiniteSets

CONSTANTS
  Broken,      \* channels whose URL ManifestPoller::new refuses; 0 is the URL
               \* given on the command line when there is no catalog
  HasHook,     \* is a webhook configured for the session?
  Kinds,       \* the kinds of event that are told apart
  Capacity,    \* of the event queue (EVENT_CHANNEL_CAPACITY)
  Keys,        \* keys of the keyboard
  Presets,     \* the preset log filters, in the order `f` goes through them
  MaxPollers,  \* bound: pollers spawned in a session
  Letters,     \* bound: the characters a search is typed with
  MaxQuery     \* bound: characters of a search

VARIABLES
  catalog,     \* opened on a channel list, or on one URL?
  mode, overlay, help, picker,
  edit, draft, filter, regex,   \* the log filter and its editor
  run,         \* the event loop
  latest, poller, aborted, hook,
  queue,       \* of the latest poller: rx
  shown        \* per pane, the pollers whose data it took since last cleared

view == <<catalog, mode, overlay, help, picker>>
logFilter == <<edit, draft, filter, regex>>
tasks == <<latest, poller, aborted, hook>>
vars == <<view, logFilter, run, tasks, queue, shown>>

Pollers == 1..MaxPollers

\* Panes that reset_metrics_silent clears, that reset_metrics (the `r` key)
\* clears, and that neither does.
ResetByKey == {"histories", "findings", "buffer"}
Cleared == ResetByKey \cup {"segment", "hud", "playlist", "variants", "ad",
                            "cdn", "health", "latency", "log"}
Kept == {"status", "abr", "g2g", "tr101290", "sei", "transport", "multi_cdn",
         "probe_mode", "manifest_history", "http_log"}
Panes == Cleared \cup Kept \cup {"active_url"}

\* apply_event: the panes an event replaces, and those it adds to.
Replaces ==
  [Status |-> {"status"}, Variants |-> {"variants"}, PlaylistMeta |-> {"playlist", "active_url"},
   Segment |-> {"segment", "probe_mode"}, Latency |-> {"latency"},
   Health |-> {"health"}, CdnStats |-> {"cdn"}, AbrHealth |-> {"abr"},
   AdBreak |-> {"ad"}, Buffer |-> {"buffer"}, G2g |-> {"g2g"},
   ProbeMode |-> {"probe_mode"}, Tr101290 |-> {"tr101290"}, SeiProbe |-> {"sei"},
   MultiCdnSkew |-> {"multi_cdn"}, Transport |-> {"transport"},
   Finding |-> {}, AdMarkerMismatch |-> {}, Log |-> {}, Error |-> {}]
AddsTo ==
  [Replaces EXCEPT !.PlaylistMeta = {"manifest_history"},
                   !.Segment = {"histories", "hud", "http_log"},
                   !.Latency = {"histories"},
                   !.Finding = {"findings", "log"},
                   !.AdMarkerMismatch = {"findings", "log"},
                   !.Log = {"log"}, !.Error = {"log"}]

ASSUME ScreenAssumption ==
  /\ Broken \subseteq Catalog \cup {0} /\ HasHook \in BOOLEAN
  /\ Kinds \subseteq DOMAIN Replaces /\ Capacity \in Nat \ {0}
  /\ MaxPollers \in Nat \ {0} /\ MaxQuery \in Nat

-----------------------------------------------------------------------------
(* Poller tasks.                                                           *)

Live == {"spawned", "detecting", "polling"}

\* The latest poller's receiver is the screen's; older ones are dropped, and
\* the last one with the screen.
Receiving(p) == p = latest /\ run # "ended"

\* send_event on a bounded channel: an event that does not fit is dropped.
Told(p, kind) == IF kind \in Kinds THEN <<[from |-> p, kind |-> kind]>> ELSE <<>>
Offer(p, events) ==
  LET all == queue \o events
  IN  queue' = IF Receiving(p) THEN SubSeq(all, 1, Min({Capacity, Len(all)}))
               ELSE queue

Step(p, from, to) == poller[p] = from /\ poller' = [poller EXCEPT ![p] = to]

\* run(): a Status, the first fetch, then the poll loop for ever, unless the
\* first fetch fails: then the poller says so, and ends.
Begin(p) ==
  /\ Step(p, "spawned", "detecting")
  /\ Offer(p, Told(p, "Status") \o Told(p, "Log"))
  /\ UNCHANGED <<view, logFilter, run, latest, aborted, hook, shown>>
Detect(p) ==
  /\ Step(p, "detecting", "polling")
  /\ Offer(p, Told(p, "Log"))
  /\ UNCHANGED <<view, logFilter, run, latest, aborted, hook, shown>>
GiveUp(p) ==
  /\ Step(p, "detecting", "done")
  /\ Offer(p, Told(p, "Error") \o Told(p, "Log") \o Told(p, "Status"))
  /\ UNCHANGED <<view, logFilter, run, latest, aborted, hook, shown>>
Poll(p) ==
  /\ poller[p] = "polling"
  /\ \E kind \in Kinds : Offer(p, Told(p, kind))
  /\ UNCHANGED <<view, logFilter, run, tasks, shown>>

\* An aborted task is dropped at its next await, with the sender of its hook.
DropTask(p) ==
  /\ p \in aborted
  /\ \E live \in Live : Step(p, live, "done")
  /\ UNCHANGED <<view, logFilter, run, latest, aborted, hook, queue, shown>>
HookEnds(p) ==
  /\ hook[p] = "listening" /\ poller[p] = "done"
  /\ hook' = [hook EXCEPT ![p] = "ended"]
  /\ UNCHANGED <<view, logFilter, run, latest, poller, aborted, queue, shown>>

\* self.poller.take() and abort(): tasks before the latest were aborted too.
AbortPoller == aborted' = aborted \cup (1..latest)

-----------------------------------------------------------------------------
(* Opening a channel, and going back to the list.                          *)

Clear(panes) == [pane \in Panes |-> IF pane \in panes THEN {} ELSE shown[pane]]

\* Variants: the old receiver is kept; the old task is left running.
SpawnPollerSameQueue(channel) ==
  /\ latest < MaxPollers /\ channel \notin Broken
  /\ AbortPoller /\ latest' = latest + 1
  /\ poller' = [poller EXCEPT ![latest'] = "spawned"]
  /\ hook' = [hook EXCEPT ![latest'] = IF HasHook THEN "listening" ELSE "none"]
  /\ UNCHANGED queue
SpawnPollerBesideOld(channel) ==
  /\ latest < MaxPollers /\ channel \notin Broken
  /\ latest' = latest + 1 /\ queue' = <<>>
  /\ poller' = [poller EXCEPT ![latest'] = "spawned"]
  /\ hook' = [hook EXCEPT ![latest'] = IF HasHook THEN "listening" ELSE "none"]
  /\ UNCHANGED aborted

\* spawn_poller aborts the old task and replaces the queue before it builds
\* the new poller, which fails on a URL it cannot use.
SpawnPoller(channel) ==
  /\ latest < MaxPollers
  /\ AbortPoller
  /\ queue' = <<>>
  /\ latest' = latest + 1
  /\ IF channel \in Broken
     THEN UNCHANGED <<poller, hook>>
     ELSE /\ poller' = [poller EXCEPT ![latest'] = "spawned"]
          /\ hook' = [hook EXCEPT ![latest'] =
                        IF HasHook THEN "listening" ELSE "none"]

\* An error in a key handler ends the event loop.
SwitchChannel(channel) ==
  /\ SpawnPoller(channel)
  /\ shown' = Clear(Cleared \cup {"active_url"})
  /\ IF channel \in Broken
     THEN run' = "failed" /\ UNCHANGED <<mode, overlay>>
     ELSE mode' = "Diagnostic" /\ overlay' = FALSE /\ UNCHANGED run

ReturnToPicker ==
  /\ AbortPoller
  /\ overlay' = FALSE /\ mode' = "Picker"
  /\ shown' = Clear({"status"})
  /\ UNCHANGED <<catalog, help, picker, logFilter, run, latest, poller, hook, queue>>

Quit ==
  /\ run' = "quitting"
  /\ UNCHANGED <<view, logFilter, tasks, queue, shown>>

-----------------------------------------------------------------------------
(* handle_key: the help, the picker, the filter editor and the dashboard   *)
(* take the keys in this order.                                            *)

PickerActive == ~help /\ (mode = "Picker" \/ overlay)
Editing == ~help /\ ~PickerActive /\ edit
OnDashboard == ~help /\ ~PickerActive /\ ~edit

CloseHelp ==
  /\ help
  /\ help' = FALSE
  /\ UNCHANGED <<catalog, mode, overlay, picker, logFilter, run, tasks, queue, shown>>
OpenHelp(key) ==
  /\ key = "?" /\ (PickerActive \/ OnDashboard)
  /\ help' = TRUE
  /\ UNCHANGED <<catalog, mode, overlay, picker, logFilter, run, tasks, queue, shown>>

Queries == BoundedSeq(Letters, MaxQuery)
KeyInPicker(key) ==
  LET result == PickerKey(picker, key)
  IN  /\ PickerActive /\ key # "?"
      /\ result.picker.query \in Queries
      /\ picker' = result.picker
      /\ UNCHANGED <<catalog, help, logFilter>>
      /\ \/ /\ result.action = "None"
            /\ UNCHANGED <<mode, overlay, run, tasks, queue, shown>>
         \/ /\ result.action = "Quit" \/ (result.action = "Cancel" /\ ~overlay)
            /\ run' = "quitting"
            /\ UNCHANGED <<mode, overlay, tasks, queue, shown>>
         \/ /\ result.action = "Cancel" /\ overlay
            /\ overlay' = FALSE
            /\ UNCHANGED <<mode, run, tasks, queue, shown>>
         \/ /\ result.action = "Select"
            /\ SwitchChannel(result.channel)

\* The editor's text, trimmed, is empty ("none"), the filter it opened with,
\* or some text that is or is not a regular expression.  The applied filter is
\* `regex` when there is one, and otherwise the preset `filter`, which names it
\* on the screen.
Filters == ToSet(Presets) \cup {"none", "good"}
NextPreset(old) ==
  LET i == RowOf(Presets, old)
  IN  IF old = "none" THEN Presets[1]
      ELSE IF i \in 1..(Len(Presets) - 1) THEN Presets[i + 1] ELSE "none"

Typing(key) ==
  /\ Editing
  /\ \/ /\ key = "Esc"
        /\ edit' = FALSE /\ draft' = "none" /\ filter' = "none" /\ regex' = "none"
     \/ /\ key = "Enter"
        /\ edit' = FALSE /\ draft' = "none"
        /\ IF draft = "bad" THEN UNCHANGED <<filter, regex>>
           ELSE /\ filter' = (IF draft = "opened" THEN filter ELSE draft)
                /\ regex' = filter'
     \/ /\ key = "Backspace" \/ key \notin Controls
        /\ draft' \in {"good", "bad"} \cup (IF key = "Backspace" THEN {"none"} ELSE {})
        /\ UNCHANGED <<edit, filter, regex>>
  /\ UNCHANGED <<view, run, tasks, queue, shown>>

\* Variant: `f` leaves the regex of an earlier filter in place.
CycleFilterBesideRegex == filter' = NextPreset(filter) /\ UNCHANGED regex
CycleFilter == filter' = NextPreset(filter) /\ regex' = "none"

ChooseFilter(key) ==
  /\ OnDashboard
  /\ \/ key = "f" /\ CycleFilter /\ UNCHANGED <<edit, draft>>
     \/ key = "F" /\ filter' = "none" /\ regex' = "none" /\ UNCHANGED <<edit, draft>>
     \/ key = "/" /\ edit' = TRUE /\ draft' = "opened" /\ UNCHANGED <<filter, regex>>
  /\ UNCHANGED <<view, run, tasks, queue, shown>>

ResetMetrics(key) ==
  /\ OnDashboard /\ key = "r"
  /\ shown' = Clear(ResetByKey)
  /\ UNCHANGED <<view, logFilter, run, tasks, queue>>

\* The diagnostic and the incident report; a failed write ends the event loop.
Export(key) ==
  /\ OnDashboard /\ key \in {" ", "e"}
  /\ run' \in {"running", "failed"}
  /\ UNCHANGED <<view, logFilter, tasks, queue, shown>>

OpenPicker(key) ==
  /\ OnDashboard /\ key = "Tab" /\ catalog
  /\ overlay' = TRUE
  /\ UNCHANGED <<catalog, mode, help, picker, logFilter, run, tasks, queue, shown>>
Leave(key) ==
  /\ OnDashboard
  /\ \/ key = "Esc" /\ catalog /\ ReturnToPicker
     \/ key = "Esc" /\ ~catalog /\ Quit
     \/ key = "q" /\ Quit

Press(key) ==
  /\ run = "running"
  /\ \/ key = "CtrlC" /\ Quit
     \/ /\ key # "CtrlC"
        /\ \/ CloseHelp \/ OpenHelp(key) \/ KeyInPicker(key) \/ Typing(key)
           \/ ChooseFilter(key) \/ ResetMetrics(key) \/ Export(key)
           \/ OpenPicker(key) \/ Leave(key)

-----------------------------------------------------------------------------
(* The event loop.                                                         *)

\* Events carry no channel: the queue they came through is what ties them to
\* the channel on the screen.
ApplyEvent ==
  /\ run = "running" /\ queue # <<>>
  /\ LET event == Head(queue)
     IN  shown' = [pane \in Panes |->
           IF pane \in Replaces[event.kind] THEN {event.from}
           ELSE IF pane \in AddsTo[event.kind] THEN shown[pane] \cup {event.from}
           ELSE shown[pane]]
  /\ queue' = Tail(queue)
  /\ UNCHANGED <<view, logFilter, run, tasks>>

\* run(): after the loop the poller is aborted and the screen dropped.
End ==
  /\ run \in {"quitting", "failed"}
  /\ run' = "ended" /\ queue' = <<>>
  /\ AbortPoller
  /\ UNCHANGED <<view, logFilter, latest, poller, hook, shown>>

-----------------------------------------------------------------------------
\* run_picker, or run_diagnostics.
Init ==
  /\ catalog \in BOOLEAN
  /\ catalog => Names # <<>>
  /\ ~catalog => 0 \notin Broken
  /\ mode = (IF catalog THEN "Picker" ELSE "Diagnostic")
  /\ overlay = FALSE /\ help = FALSE /\ picker = NewPicker
  /\ edit = FALSE /\ draft = "none" /\ filter = "none" /\ regex = "none"
  /\ run = "running"
  /\ latest = (IF catalog THEN 0 ELSE 1)
  /\ poller = [p \in Pollers |-> IF p <= latest THEN "spawned" ELSE "none"]
  /\ hook = [p \in Pollers |-> IF p <= latest /\ HasHook THEN "listening" ELSE "none"]
  /\ aborted = {} /\ queue = <<>>
  /\ shown = [pane \in Panes |-> {}]

Poller(p) == Begin(p) \/ Detect(p) \/ GiveUp(p) \/ Poll(p)
Next ==
  \/ \E key \in Keys : Press(key)
  \/ ApplyEvent \/ End
  \/ \E p \in Pollers : Poller(p) \/ DropTask(p) \/ HookEnds(p)

\* The event loop and the runtime run; the user may not touch a key, and the
\* first fetch returns, or times out.
Fairness ==
  /\ WF_vars(ApplyEvent) /\ WF_vars(End)
  /\ \A p \in Pollers : /\ WF_vars(Begin(p)) /\ WF_vars(Detect(p) \/ GiveUp(p))
                        /\ WF_vars(DropTask(p)) /\ WF_vars(HookEnds(p))

Spec == Init /\ [][Next]_vars /\ Fairness

-----------------------------------------------------------------------------
(* Properties.                                                             *)

\* One channel is polled at a time, and none from the channel picker: every
\* task but the latest has been told to stop, and so has that one when the
\* user went back to the list or the loop is over (spawn_poller,
\* return_to_picker, run).
OneSession ==
  /\ \A p \in Pollers : poller[p] \in Live /\ p # latest => p \in aborted
  /\ mode = "Picker" \/ run = "ended" =>
       \A p \in Pollers : poller[p] \in Live => p \in aborted

\* After a channel switch no cleared pane ever shows what another channel's
\* poller measured, however late its events come: a switch clears the panes
\* and the queue together (switch_channel, reset_metrics_silent).
ShownIsLatest ==
  \A pane \in Cleared \cup {"active_url"} : shown[pane] \subseteq {latest}

\* The row highlighted in the channel list is the channel Enter opens
\* (ChannelPicker::handle_key, select_current).
EnterOpensHighlighted == HighlightIsSelected(picker)

\* The filter named over the log is the one applied to it: a regular
\* expression is in force only under its own name (draw_log,
\* log_block_title).
FilterShownIsApplied == regex # "none" => regex = filter

\* Esc always leads out: each press closes the help, the filter editor, the
\* search or the switcher, or goes from the dashboard to the list, or quits
\* (handle_key of the screen and of the picker).
Depth ==
  IF run # "running" THEN 0
  ELSE 1 + Cardinality({layer \in {"help", "edit", "search", "overlay", "channel"} :
             CASE layer = "help" -> help
               [] layer = "edit" -> edit
               [] layer = "search" -> picker.searching
               [] layer = "overlay" -> overlay
               [] layer = "channel" -> catalog /\ mode = "Diagnostic"})
EscLeadsOut == [][Press("Esc") => Depth' < Depth]_vars

\* The poller a channel switch leaves behind ends, and its webhook listener
\* after it: switching channels does not pile up tasks (spawn_poller,
\* return_to_picker).
OldSessionsEnd ==
  \A p \in Pollers :
    poller[p] # "none" /\ (p < latest \/ mode = "Picker" \/ run = "ended")
      ~> poller[p] = "done" /\ hook[p] # "listening"

\* A channel the user opens answers: its poller's first Status reaches the
\* screen, unless the user leaves the channel first (run, apply_event).
OpenedChannelAnswers ==
  "Status" \in Kinds =>
    \A p \in Pollers :
      poller[p] = "spawned" ~> p \in shown["status"] \/ p \in aborted
=============================================================================
