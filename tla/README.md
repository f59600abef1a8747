# A TLA+ model of streamtop

streamtop is a terminal monitor for live video: it polls HLS playlists or DASH
manifests, fetches their newest segments, lints what it sees, and sends events
to a screen, a one-shot summary, an agent, webhooks and metrics.  This directory
models the parts of it whose correctness depends on the order in which things
happen, checks them with TLC and proves the main invariants with TLAPS.

Paths below are relative to the crate (`src/engine/...`, `src/ui/...`).

## The system's parts

| Part | State it keeps | Operations | Talks to |
| --- | --- | --- | --- |
| HLS poll loop, `engine/poller/hls_poll.rs` | `last_seen_seq`, `has_master`, `target_duration`, `consecutive_errors`, `LlHlsBlockingState`, announcement latches | `run_hls_loop`, `poll_once`, `handle_media` | origin (HTTP), linter, event fan-out |
| DASH poll loop, `engine/poller/dash_poll.rs` | `last_publish`, `last_edge_key`, `probe_seq`, `last_period_id`, `consecutive_errors` | `run_dash_loop`, `poll_dash_once` | origin, linter, event fan-out |
| Spec linter, `engine/linter.rs` | `SpecLinter`: sequences, two instants, four health flags, a findings buffer | `on_playlist_refresh`, `on_new_segment`, `check_stalling`, `on_cdn_headers`, `take_findings`, `compute_health` ... | owned by a poll loop |
| Segment pipeline, `engine/poller/segment_fetch.rs`, `network_trace.rs`, `redirect.rs`, `middlebox.rs`, `cdn_telemetry.rs` | virtual buffer, simulated ladder, timing and GOP trackers | `process_segment`, the timed client, the ordinary one and the fallback between them | origin, linter, event fan-out |
| TR 101 290, `engine/tr101290.rs` | tables, PIDs reported, totals | `ingest_ts_bytes`, `take_new_checks` | segment pipeline, metrics |
| Ad breaks, `engine/scte35.rs`, `dai_validator.rs`, part of `linter.rs` and `dash.rs` | breaks logged, the break that is watched | tag scan, section decoder, checks of a segment | poll loops, metrics |
| Keys, `engine/aes128_probe.rs`, `drm_probe.rs`, part of `linter.rs` | key cache | key fetch, licence probe, DRM scan | key and licence servers |
| Event fan-out, `engine/poller/events.rs` | two bounded channels, the drop counter | `send_event`, `flush_findings` | metrics, screen or runner, webhook |
| Webhook listener, `engine/webhook.rs` | low-health latch, dedupe times, delivery log | `event_to_alert`, `should_send`, `post_with_retry` | event fan-out, webhook server |
| Metrics and agent, `engine/metrics.rs`, `engine/agent.rs` | one snapshot per stream | `update_metrics`, rendering, registry | event fan-out, scrapers |
| Runners, `engine/summary.rs`, `budget.rs`, `check.rs`, `audit.rs`, `vod.rs`, `export.rs`, `report_export.rs` | counters and last values of a time-boxed run | receive, tally, verdict | event fan-out |
| Entry points, `main.rs`, `check.rs` | the command line | selection of a run, exit code | everything above |
| Screen, `ui/app.rs`, `ui/channel_picker.rs` | the state shown, the channel, the picker, the log filter, one poller task and its event queue | `handle_key`, `spawn_poller`, `switch_channel`, `return_to_picker`, `apply_event`, `run` | user, poller task, event fan-out |
| Side-by-side view, `ui/compare_view.rs` | one pane per stream, a ring of events while paused | receive, pause, resume | several pollers |
| Multi-CDN comparison, `engine/multi_cdn.rs`, `ui/multi_cdn_view.rs` | edge sequence per CDN | `apply_event`, `compute` | several pollers |
| Parsers, probes, formatters, configuration | none | | |

What is hard about it:

- **Staleness.** A playlist is old while its segments are fetched; the window
  slides, the event ends or the packager restarts in between, and
  `last_seen_seq` has to be read against the next playlist.
- **Partial failure.** One of several segments fails, the loop goes on, and two
  notions of progress part: the highest sequence announced to the linter and the
  last one delivered.
- **Flags with different life spans.** A health flag lives for a cycle, until a
  new segment, or until clean; findings are flushed, flags cleared and health
  computed by three calls whose order matters.
- **Lossy fan-out.** Events go to up to three consumers in separate steps; two of
  the channels are bounded and drop, and consumers go away at any time.
- **Overlapping sessions.** Opening a channel aborts the task behind the last one,
  which runs on until its next await; its late events, its webhook listener and
  what it left on the screen must not be taken for the new channel's.
- **Races against a deadline.** A summary, a budget, a capture and the concurrent
  probes of a lineup end by the clock, with answers and events on their way; the
  verdict and the exit code have to be those of what arrived.
- **State that crosses segments.** Keys rotate behind an address, an ad break is
  announced in one playlist and checked in later ones, transport stream tables and
  alarms are spread over windows, two clocks drain one simulated buffer.
- **Nothing may stick.** A failed newest segment, an error status or a stall must
  be resolved in the end although no event announces it.

What makes each part correct:

- Poll loops: segments are requested and delivered in order and once; lost segments are
  reported; the newest one is delivered in the end; a stall is noticed; an error
  status recovers; the health of a cycle agrees with its findings.
- Fan-out: each consumer sees an ordered subsequence; every drop is counted once;
  metrics are never behind what a consumer knows.
- Webhooks: one alert per drop of the score; a lasting stall is repeated; bounded
  work per alert.
- Screen: one channel is polled at a time; a pane shows the channel its title names;
  Enter opens the highlighted channel; Esc always leads out; a left session ends.
- Runners: a pass is earned, whatever order answers came in and whatever was
  refused by a queue; a report's rows are those of its entries; a run that is given
  its time ends.
- Segment pipeline: the simulated player follows a real one; an alarm is counted
  once; the key in use is fresh; a break that is shown is one that segments are
  checked against, and among cues alone the converse holds as well (a splice-in of
  SCTE-35 or an expired DATERANGE clears the gauge and leaves the break watched).

## Modules

| Module | Models |
| --- | --- |
| `SpecLinter` | `SpecLinter` as a record and its methods as operators on it; no variables |
| `HlsPoller` | the HLS poll loop with its linter, beside a packager that publishes, slides, ends and restarts |
| `DashPoller` | the DASH poll loop with its linter, beside a packager that advances its live edge or its publish time, and ends, or a clock that advances the edge whatever the packager does |
| `EventBus` | `send_event` step by step, with two consumers |
| `LossyChannel` | abstract: what a bounded event channel promises its consumer |
| `Webhook` | the webhook listener behind its queue, with time, an endpoint and a poller that reports a changing condition |
| `ChannelPicker` | the channel list as a record: cursor, search, highlighted row and keys; no variables |
| `Screen` | the dashboard over a `ChannelPicker`: its keys layer by layer, the poller tasks it spawns and aborts, their event queue and webhook listeners, and whose data each pane shows |
| `Session` | the command line: which run an invocation selects, that run, its exit code; composes the next six |
| `Audit` | the concurrent probes of a lineup, for `--audit` and `streamtop check` |
| `Vod` | the crawl of `--vod` |
| `Reading` | a poller, its queue and a headless run with a deadline: summary, budget, reports, captures |
| `Compare` | the side-by-side screen, paused and resumed |
| `MultiCdn` | the multi-CDN comparison |
| `Agent` | the multi-stream agent and its registry |
| `Pipeline` | a whole poll, HLS or DASH, from the playlist to the metrics, over what it does with the bytes; composes the next nine |
| `Playback` | virtual buffer, simulated ladder, decode-time, key-frame and latency trackers |
| `Tr101290` | the TR 101 290 engine over windows of packets |
| `Scte35`, `AdBreaks` | the fields of a splice section; ad tags, the watched break and its checks |
| `Keys` | key cache, IV, licences, DRM announcements, the resolver's kept answer |
| `Fetch` | the clients, their fallback, redirects, reasons of failure, cache verdicts |
| `Ladder` | variants, their lint rules, what the wire says of them, low-latency tags |
| `Mpd` | the reading of an MPD: periods, representation, edge, DRM; protocol detection |
| `Metrics` | the snapshot, what each event does to it, what a scrape shows and to whom |
| `MCHlsPoller`, `MCDashPoller`, `MCEventBus`, `MCWebhook`, `MCScreen`, `MCSession`, `MCPipeline` | the instances for TLC |
| `SpecLinterProofs`, `HlsPollerProofs`, `DashPollerProofs`, `EventBusProofs`, `WebhookProofs`, `ScreenProofs`, `SessionProofs`, `PipelineProofs` | theorems and proofs |

`HlsPoller` and `DashPoller` share `SpecLinter` as the pollers do.  `EventBus` stands
between them and the consumers: its `HookRecv` is what `Webhook` details as
`Recv`, over events that carry what the alerts look at, and its `UiRecv` is what
`Screen` details as `ApplyEvent`, over events that carry their kind and poller.

The nine modules under `Pipeline` have operators only, on records that `Pipeline`
keeps as its variables, just as the code keeps them as plain data owned by a poll
loop.  `HlsPoller` and `Pipeline` are two views of one loop: the first has every
order of playlists, segments and failures and nothing of the bytes, the second has
the bytes and at most one new segment a poll.

### SpecLinter

A linter is a record; `Option<Instant>` is the number of half-second ticks since
that instant, capped at `MaxAge`.  The method `f(&mut self, ..)` is an operator
`F(linter, ..)` to the linter after the call.  Findings are named by their rule,
and `push`'s effect on the flags is `FlagsOf`.  Message texts are left out.
`lint_ll_hls` and the ladder rules are in `Ladder`, the ad rules in `AdBreaks`.

### HlsPoller

`pc` is where `run_hls_loop` is: `sleep`, before a `master` or a `media` fetch,
before the next `segment`, or at the `report` that ends a cycle.

| Action | Code |
| --- | --- |
| `Wake` | the sleep ends; `check_stalling` (hls_poll.rs:70-80) |
| `FetchMaster` | `poll_once` gets a master playlist (218-285) |
| `FetchMedia` | the media playlist arrives; `on_playlist_refresh`; the start index (393-670) |
| `FetchFailed` | any `?` or `return Err` of `poll_once` |
| `ProcessSegment` | `on_new_segment`, then `process_segment` returns Ok (672-696) |
| `SegmentFailed` | the same, returning Err (697-705) |
| `EndCycle` | status, `flush_findings`, `clear_rfc_flag_if_clean`, `compute_health` (101-145): no await lies between them |
| `Publish`, `EndEvent`, `Restart` | the packager, external |

Each fetch takes some ticks, in which the linter ages.  `delivered`, `failed` and
`skip_reported` are history, for the properties.

### DashPoller

| Action | Code |
| --- | --- |
| `Wake` | the sleep ends; `check_stalling` unless static (dash_poll.rs:37-45) |
| `FetchManifest` | the MPD arrives, is audited, its publish time and live edge are remembered, a probe is announced to the linter (139-317) |
| `FetchFailed` | the `?` of `fetch_manifest` or `parse_dash_mpd` |
| `ProbeSegment`, `ProbeFailed` | the segment request (319-450) |
| `EndCycle` | status, flush, flags, health (61-106) |
| `NewEdge`, `Republish`, `EndEvent` | the packager, external |
| `ClockEdge` | the edge of a `duration` template, which the code computes from the local clock (dash.rs:514-536) |

An edge is its key, and `byClock` tells whether the clock gives it: such an edge goes on
after the packager died, and is announced to the linter before its request fails.
Keys only grow: periods that restart their numbering are left
out.  `probe_seq` saturates at `MaxProbeSeq`, as the code's `saturating_add` does at
2^64-1.  An MPD that `parse_dash_mpd` accepts has a Representation, so the error of
line 313 is not reached.  `tried` and `fetched` are history.

### EventBus

`pc` is the step of `send_event`: the snapshot update, the two `try_send`s and
the drop count are four steps, between which consumers receive or drop their
receiver.  A refused `tx` skips `hook_tx` (the `||` of events.rs:35), so a closed or
full screen channel starves the webhook: the model shows it as it is
(`TrySendUi`), and `DropsAreCounted` says that such a loss is at least counted.

### Webhook

| Action | Code |
| --- | --- |
| `Recv` | `rx.recv`, `event_to_alert` and `should_send` of one event (webhook.rs:182-195); the latch changes whether or not the claim succeeds |
| `FinalAnswer`, `TemporaryFailure`, `Retry` | one turn of the loop of `post_with_retry` (234-262), and the log entry |
| `Drain` | the destination was refused: events are dropped (170) |
| `End` | `rx.recv` is None |
| `Tick` | time, and a poll cycle that sends a Health event, external |
| `Change`, `OtherEvent`, `Close` | the stream, the poller's other events, the last sender goes; external |

An event is a type and the marks `event_to_alert` looks for; scores, texts and
bodies are left out.  Clocks advance together; a request cannot outlast its timeout
nor a sleep its deadline, but a received event may wait.  `busy` and `recovered` are
history.

### ChannelPicker and Screen

| Action | Code |
| --- | --- |
| `Press(key)` | `App::handle_key` (app.rs): the help overlay, the picker, the filter editor, then the dashboard take the key; `KeyInPicker` runs `ChannelPicker::handle_key` and acts on the `PickerAction` it returns |
| `SwitchChannel`, `SpawnPoller`, `ReturnToPicker` | the functions of those names, whole: abort, new queue, new poller, cleared panes |
| `Begin`, `Detect`, `GiveUp`, `Poll` | the poller task: `ManifestPoller::run`, up to the poll loop that `HlsPoller` and `DashPoller` detail |
| `DropTask`, `HookEnds` | an aborted task reaches an await and is dropped; its listener's channel closes |
| `ApplyEvent`, `End` | the event loop takes one event; the end of `run` |

A pane is the set of pollers whose data it took since it was last cleared; the
values themselves are left out, as are layout, toasts, scrolling and panel
toggles.  A filter text is a preset, a good or a bad regular expression.  The
poller of a URL that the client refuses is never built: `spawn_poller` has aborted
the old one by then, and the error ends the event loop.

### Session and its runs

`Dispatch` is `main` and `check` up to the branch they take (`Branches` lists the
conditions in the code's order); the phase is then the run, until it is "over" with
an exit code.  A server, an asset or a configuration is what it will answer, open at
first and found out by the run.

| Action | Code |
| --- | --- |
| `Auditing` | `Audit`: an entry is pulled while fewer than `Concurrency` are probed, each of its up to three requests answers, fails or, in `check`, runs out of time; rows arrive, the report is collected |
| `Crawling` | `Vod`: the tree is fetched, variants are probed concurrently, answers folded in order of arrival |
| `Measuring`, `Capture` | `Reading`: the poller sends the events of a cycle one by one (`try_send` refuses when the queue is full), the run receives and tallies, the deadline ends it |
| `WriteExport`, `ExportFails` | the loop over the export plan |
| `Comparing` | `Compare`: events reach a pane or, paused, its ring; resume, close |
| `MultiCdn` | `MultiCdn`: edges publish, pollers see them, the skew is computed |
| `Agent` | `Agent`: streams start one by one, pollers count, the server binds |

`Whep` and `Elsewhere` are the runs whose content is another module or none.  A run may
end in an error where the code has a `?`: its poller cannot be made, or a report, an
output or a listener fails (`Fallible` and the exits "error").

### Pipeline

`phase` is the await a poll stands at.  What a server answers is in the stream's
record; each action takes one of the alternatives.

| Action | Code |
| --- | --- |
| `StartPoll` | the top of `run_hls_loop` and `run_dash_loop`, the drained buffer |
| `PollFails` | an error of the playlist request: counters, status, metrics |
| `ReadMaster`, `ReadMedia` | `poll_once` and `handle_media` after the answer: variants, keys, low-latency tags, ad tags |
| `ReadMpd`, `EndMpd` | `poll_dash_once` around its probe |
| `FetchFails`, `FetchSegment` | `process_segment` to the bytes, through both clients, and all that follows from duration, size, headers and container |
| `KeyHeld` | `fetch_aes128_key`, from the cache |
| `KeyAnswered`, `KeyFetched` | `fetch_aes128_key`: the server answers with its key of that instant; the body has arrived, later, and the entry is stamped then |
| `Rotate` | the key server changes its key, external: between polls, and at each await of one |
| `Finish` | decryption, TR 101 290, ad checks and the segment's events |
| `EndCycle` | the status of a good poll |

Every event updates `snap` as it is sent (`Send`), as `send_event` does before it
tries any channel.  `ghost` is history.

## What the runs check

| Run | Question | Bounds |
| --- | --- | --- |
| `hls_live` | Are losses reported, does health agree with findings, does the poller catch up, notice a stall and recover its status? | window 2, sequences 0..3, three failed polls (the third is the first to give the status `error`), two failed segments (two in one playlist is what parts announced and delivered), one tick per response |
| `hls_restart` | Order of deliveries and no false alarm when the packager restarts | the same with one restart, one failed poll, no delays, and a discontinuity at each of sequences 0 to 2, so that one leaves the window and DISCONTINUITY_SEQ can fire |
| `hls_retry` | claim of hls_poll.rs:703, violated | one failed segment |
| `hls_rfc_deduction` | claim of docs/src/limits.md:12, violated | no failures |
| `dash_live` | Are edges requested once, in order, and the newest one at all; is a dead packager noticed; does health blame one side? | edges and publish times 0..2, MPDs that tell the edge, the publish time, both or neither, and edges that follow the clock, two failed polls and two failed segments, one tick per response |
| `webhook` | Is a delivery bounded, a drop alerted once, a lasting stall repeated; does the listener end? | queue 2, window 7 ticks against a delivery of at most 6 (60 s against 30.75 s in the code: a claim outlasts its delivery), two changes of the condition, one other event, log of one |
| `screen` | Is one channel polled at a time, does no cleared pane show another channel's data, does Enter open the highlighted channel, does the filter named apply, does Esc lead out, do left sessions end, does an opened channel answer? | two pollers (one to leave, one to open), queue of one, three channels of which two share a letter and one is refused, searches of one letter (one that matches some, one that matches none), two kinds of event, two presets, fourteen keys |
| `event_bus` | Refinement to `LossyChannel`, drop counting, metrics, delivery | capacity 2, five events: a queue fills, drops and drains |
| `sessions` | Is a pass earned, a report true, a crawl sound in every order of answers; are exports written in order; does the agent count its own streams; does resuming catch up; do timed runs end? | 41 command lines (each flag alone, those that compete, each input, three export plans), lineups up to three of six servers with two probes at a time, assets with up to three probes and four warnings, queue of two, two poll cycles, ring of two against three events, an agent of up to three streams two of which share an id |
| `audit_stall` | claim of docs/src/iptv.md:37, violated | `--audit` over the lineups of `sessions` |
| `multi_cdn_skew` | claim of docs/src/compare.md:18, violated | two edges, window of five |
| `pipeline` | Does the simulated buffer track the player, is an alarm counted once, is every orphan PID accounted for, are keys fresh, is the watched break the one shown? | ten streams with the inputs of one concern each (alarms, cues, cues mixed with SCTE-35 and date ranges, rotating keys, slow segments, failing segments, a master without variants, low latency, a live and a static MPD), five polls, keys that live three seconds in a cache of one and are up to a second on their way, three keys per server |

`TypeOK` is an invariant of `hls_live` alone: the types of `DashPoller` and
`Webhook` are proved, those of the other modules show in the properties of their
runs, which would not be evaluated on values of another kind.

`MCPipeline` also states ten assumptions, evaluated by the `pipeline` run, that
compare operators no poll reaches with reference definitions over all small inputs:
the buckets of a histogram, who may scrape, what a refused start leaves running, the credit of the
buffer, ping-pong detection, the ladder penalty, the bounds of low-latency lint,
local files beside remote ones, the edge of a timeline, and protocol detection.

Why these bounds are enough to be interesting: window 2 and sequences up to 3 let
the window slide past `last_seen_seq` by more than one while a cycle runs, so all
branches of the start index occur; sequence 2 is too long and sequence 1 follows a
discontinuity, and in `hls_restart` a discontinuity leaves the window, so that the
rules on sequences, durations and discontinuities that a run's properties speak of
do fire in it; `MaxAge` 4 is above the stall limit of
three ticks for a target duration of one second.  In `sessions` a queue of two is
shorter than a cycle, so events are refused; three entries on two places make rows
overtake each other.  In `pipeline` a window of 34 alarms exceeds the 32 the engine
keeps, a table arrives before or after the packets it describes, and five polls with
up to six seconds between them let a key expire, be evicted and be replaced.  `KeyWait`
stands for the four seconds that a request may take in all (models/stream.rs:28), `KeyTtl` for
the lifetime of an entry: with one second and three a key can end on its way.

`webhook`, `screen`, `sessions` and `pipeline` do not check deadlock: the listener,
the program and a run end, and the polls of `pipeline` are bounded.

Fairness: weak fairness of the poll loop's steps (a tokio task that sleeps and
makes requests with timeouts is scheduled again); in `Webhook` of the listener and of time; in `Screen` of the event loop, of the first
steps of a poller (the first fetch returns or times out) and of the runtime
dropping what was aborted; in `Session` of the program as a whole (requests answer or
time out) and of the deadlines (a timer fires although events keep coming).
`EventBus` and `Pipeline` state safety only and assume none.  The user is not obliged to touch a key.  The packager is not obliged to publish and consumers are
not obliged to leave.  Failures are bounded: the liveness properties say what
happens after the last of finitely many failures.

### Six disagreements with the repository's own words

The first four are counterexamples of a run, the last two were read while modelling.

- A failed segment is not "retried on the next cycle" (hls_poll.rs:703) when a later
  segment of the same playlist succeeds.  `LossIsReported` and `CatchesUp` say
  what does hold.
- The documented "RFC -15" is never deducted: `flush_findings` empties the buffer
  that `clear_rfc_flag_if_clean` then looks at.  `HealthBlamesOneSide` shows the
  consequence: since a stall and fetch deductions exclude each other as well, the
  linter's own score is never below 80, and the `shi_below_70` alert can only
  fire through the ABR ladder penalty.
- "Live-edge skew" (docs/src/compare.md:18) is computed from a field that both the
  first sequence of a playlist and the sequence of a segment are written to
  (multi_cdn.rs:131, 139): edges with the same live edge may differ by the length of
  the window.
- In an audit a playlist without segments is to be STALL (docs/src/iptv.md:37, main.rs:593,
  and the branch at audit.rs:231): `last_segment_url` has failed on it by then
  (audit.rs:220, 226), and the row is ERROR.  `ReportIsTrue` is about the rows that the
  code does give, this one included.
- "(Esc clears)" in the picker's header (channel_picker.rs:219) is not what Esc does:
  once the search is confirmed and left, Esc cancels the picker, which closes the
  switcher or quits the program with the filter still set.  `EscLeadsOut` says what
  Esc does do.
- `--prometheus` "cannot be combined with [...] `--vod`" (docs/src/metrics.md:14), and
  main.rs:412 would refuse it; but main has followed `--vod` to its exit by then
  (main.rs:378), so that the asset is crawled and no exporter is started, as in
  `Branches` of `Session`.

### What the models record without judging it

The models show the code as it is.  Behaviour that a reader may not expect, and that we
found no document of the repository to contradict, with the module that has it:

- *Counting.* The third failing poll in a row counts its HTTP status twice, as Error
  and as Status; a codec mismatch is counted by its log line and by each Variants
  event; a window with more than 32 alarms loses counts; P1_PID and P2_PTS_DISC are
  totals but never findings; AdMarkerMismatch findings pass the cap of 100; a
  DATERANGE without ID is logged at every poll (`Metrics`, `Tr101290`, `AdBreaks`).
- *A dead packager that is not noticed.* With a `duration` template the clock brings new
  edges for ever, each clears the stall before its request fails, and only the failing
  segments tell (docs/src/limits.md:10 says that such an edge follows the clock).
  `StallIsNoticed` leaves these MPDs out (`DashPoller`).
- *Gauges that stay.* The origin stall and the latency after ENDLIST; a break whose
  CUE-IN slid out of the window unseen; an expired DATERANGE.  And the
  other way round: a splice-in of SCTE-35 and an expired DATERANGE set the gauge to 0
  while segments are still checked against the break; clause three of
  `WatchedBreakIsShown` therefore speaks of streams with cues only (`AdBreaks`, `Metrics`).
- *Player.* `drain_elapsed` and `simulate_segment_fetch` both take off a download's
  time (`BufferTracksThePlayer` bounds the difference); the stall risk is not
  recomputed by the drain; any four switches are ping-pong (`Playback`).
- *Requests.* The timed client follows no redirect and does not fall back on one;
  it ignores Content-Length and transfer encoding and cuts an oversized segment that
  the other client refuses; it accepts 200 and 206 only (`Fetch`).
- *Keys and DRM.* The status of a key server is not looked at; a full key cache gives
  up an arbitrary entry, also when the key replaces one it holds; a key URI is not
  resolved against its playlist; only the first EXT-X-KEY counts, EXT-X-SESSION-KEY
  never, and an IV only in quotes (without, the sequence number stands in for it, which
  spoils no more than the first packet); one latch announces the DRM of media playlist
  and renditions (`Keys`).
- *DASH.* A period restart may reuse edge keys; a timeline entry with r = -1 never
  moves the edge; the licence server is asked at every refresh (`Mpd`).
- *Runs.* A budget passes when nothing was fetched; a summary may end with events
  queued; an export plan wins over `--summary`, and what follows a failed export is
  skipped; exports and budgets of a channel list are ignored; two agent streams with one
  id share a snapshot; the penalty of a VOD ladder is taken off once per warning.  A
  budget or summary judges by what it received: an adverse event that a full queue
  refused is counted as dropped and does not fail it, which `PassIsEarned` allows
  (`Session`, `Reading`, `Agent`, `Vod`).
- *Screens.* The side-by-side ring forgets the last state of what it evicts
  (`Compare`): a resumed pane may show a break or a health that a forgotten event had
  replaced.  `ResumeCatchesUp` speaks of the events that the ring still holds.

## What is proved

Every invariant and every action property that a passing run checks, and both
refinements, are theorems: a run shows a property on its small instance, the theorem for
every value of the constants.  The property of each theorem is in brackets.

### HLS and DASH loops

`HlsPollerProofs` proves, for every window, target duration, bound and set of
special segments, from one inductive invariant `Inv`:

- `TypeCorrect` (`TypeOK`), `InOrder` (`DeliveredInOrder`), `HealthAgrees`
  (`HealthAgreesWithFindings`), `OneSideBlamed` (`HealthBlamesOneSide`).

None of these is inductive.  `Inv` adds: a poll that failed has been counted by the
bound before the loop counts it (`ErrorsCounted`); `last_seen_seq` bounds what was
delivered and lies below the segment in progress, and the reset by a master
playlist comes before any delivery (`DeliveryOrder`); during a cycle each flag
goes with its finding (`FlagsMatchFindings`); a stall flag and fetch flags exclude
each other (`FlagsBlameOneSide`).  There is one lemma per action, resting on one
lemma per linter method in `SpecLinterProofs`.

A second invariant, `History`, built on `Inv`, proves

- `LossReported` (`LossIsReported`) and `NoFalseAlarms` (`NoFalseAlarm`).

It relates what the linter remembers to the packager and to what was tried: without a
restart neither sequence counter of the packager is behind the linter's
(`OriginGrows`); the linter's highest sequence is the last one that was tried
(`HighestIsTried`); while the playlist reaches back that far, whatever lies between
`last_seen_seq` and it has failed (`FailedUpToHighest`), which is why a segment that is fetched again can look like a
regress only after two failures; and what the linter accuses is no more than that
(`NoAccusation`).

`DashPollerProofs` proves `TypeCorrect` (`TypeOK`), `EdgesRequestedInOrder`
(`ProbesOnlyNewEdges`) and `OneSideBlamed` (`HealthBlamesOneSide`) in the same way.
The order of requests needs that `last_edge_key` bounds every edge that was tried or
is about to be, and that the packager is never behind it (`EdgesInOrder`).

### Webhook and fan-out

`WebhookProofs` proves `TypeCorrect`, `DeliveryBounded` (`BusyBounded`) and
`DropAlertedOnce` (`OneAlertPerDrop`).  That a delivery has been short so far is not
inductive; what it spent before its present request or sleep, by the number of
failures behind it, is (`Paced`).  One alert per drop rests on `Latched`: without a
good score since the last alert the latch is closed.

`EventBusProofs` proves that both channels of `EventBus` implement `LossyChannel`, step by
step (`UiRefines`, `HookRefines`), and that each keeps the order it promises
(`UiSeesOrder`, `HookSeesOrder`, `[]Ordered` of the channel) from `Promise`: what was taken,
then what is queued, rises, and no number passes the last one offered.  It also proves
`DropsCounted` (`DropsAreCounted`) and `MetricsAreAhead` (`MetricsLead`).  The sum of
the drop counter is not inductive: `InFlight` adds in which channels the event in
flight is, by the step of `send_event`, so that a drop is counted once.

### Screen

`ScreenProofs` proves `OneAtATime` (`OneSession`) and `PanesShowTheirChannel`
(`ShownIsLatest`), for every catalog, queue capacity and number of channels opened.
The first needs that all tasks before the latest were told to stop and that there is
none after it (`Sessions`); the second that what waits in the queue is of the latest
poller (`Shown`), since events do not say whose they are.

The keys are proved from `KeysInv`, for every catalog, page size and search:
`HighlightOpens` (`EnterOpensHighlighted`), `FilterIsNamed` (`FilterShownIsApplied`) and
`EscAlwaysLeadsOut` (`EscLeadsOut`).  The row highlighted stays within the filtered rows, and
the rows are those that the search leaves, whatever `ChannelPicker` did to either
(`Highlighted`); that is what Enter relies on when it takes the row at the cursor.

### The runs of the command line

`SessionProofs` proves, of the whole program:

- `AgentCounts` (`AgentCountsItsStreams`): no other run touches the registry, and in the
  agent a stream that is yet to start has sent nothing, so that its fresh snapshot is
  right (`AgentInv`).
- `PassEarned` (`PassIsEarned`), for every queue capacity and number of cycles: while a
  summary or budget is selected nothing else touches its poller (`OnlyMeasuring`), and
  each of its steps keeps the books (`Balanced`: made = dropped + waiting + found).
- `ExportsKeepTheirOrder` (`ExportsInOrder`): what is written begins what is planned, and a
  success ends with nothing left of it (`ExportInv`).
- `CrawlJudges` (`CrawlIsSound`): a crawl that was collected had an answer, or a failure, for
  each of its urls and is judged by all of them (`CrawlInv`); a verdict depends on which
  answers there are and not on their order (`VerdictOfAnswers`).
- `ReportsAreTrue` (`ReportIsTrue`): each entry is in one place, waiting, being asked or
  arrived, and every row is true of its own server (`Probed`); so the sorted rows are those
  of the entries, and the totals add up, because the verdicts partition the rows
  (`EveryEntry`, `InTheirPlaces`, `TotalsAddUp`).
- `ResumingCatchesUp` (`ResumeCatchesUp`): a ring holds the last `RingCap` events of its
  side since the pause (`CompareInv`, `PushKeepsTheLast`).

### Pipeline

`PipelineProofs` proves the five invariants of `Pipeline` for any streams, polls and
segments, any lifetime and size of the key cache and any number of packets in a window:

- `BufferIsTracked` (`BufferTracksThePlayer`): the simulated buffer and the ideal one both
  lie between empty and full and take in the same durations, and differ by the
  downloads alone (`PlayerInv`).
- `KeysStayFresh` (`KeysAreFresh`): an answer that is on its way was the server's key at most
  the time of a request ago (`AnswerInv`), an entry is as old as the arrival of its key
  (`CacheInv`), and so one which is not yet pruned was served less than a lifetime and a
  request ago.
- `OrphansStayComplete` (`OrphansAreComplete`): a packet, the end of a window and the report
  each keep the engine sound (what is reported is seen and unreferenced, each PID once, the
  tallies add up) and the end of a window makes it complete (`OrphanInv`).
- `WatchedBreakStaysShown` (`WatchedBreakIsShown`): the ad tags that the metrics are told are
  those that are logged and watched, in the same order (`AdInv`).  One has to follow three
  loops over the same list side by side.
- `AlarmsStayCounted` (`AlarmsAreCountedOnce`): an alarm with a reason becomes one finding
  with that reason and is counted once; every other event of a poll
  leaves the counters (`CountInv`, `QuietStep`); a window that raised more alarms than
  are kept may only lose some (`Balance`).

The code's loops are folds here.  A theorem about a fold over a list of any length needs
induction, and the library states it with an operator as a parameter.  `SetInduction` states
it with a set, from the well-founded order of the naturals, and `FoldsRun` turns a fold into
a run (a function with f[0] the start and f[k] one turn after f[k - 1]), over which
`Upward` carries a claim.

### From which assumptions

The theorems use the named assumptions on the constants, which TLC evaluates in the
runs, and no other: `MaxAgeAssumption`, `HlsAssumption`, `DashAssumption`,
`EventBusAssumption`, `WebhookAssumption`, `PickerAssumption`, `ScreenAssumption` (capacities,
windows and bounds are numbers, lists are lists); `InvocationsParse`, `ServersAnswer`,
`TreesAreAssets`, `AgentConfigsAreLists`, `RingCapAssumption` (a command line, an answer, a
ladder with its warnings and penalty, and a configuration are what the program may
meet); `CacheAssumption` (a lifetime is positive, a request takes a number of seconds) and `StreamsAssumption` (a poll and a segment have the fields that the
code reads, time only passes, and a stream that is said to have cues only has no other ad
tags).

### Only model-checked

- The liveness properties (`CatchesUp`, `StallIsNoticed`, `StatusRecovers`,
  `NewestEdgeIsTried`, `LastingStallIsRepeated`, `EndsAfterClose`, `OldSessionsEnd`,
  `OpenedChannelAnswers`, `TimedRunsEnd`): fairness and ENABLED are out of the prover's
  reach.
- The ten assumptions of `MCPipeline`: each compares two ways to compute something over
  all small inputs.
- The first four of the disagreements above, each by a counterexample.

## Not modelled

- Network I/O and the line, box and byte parsers (`container_probe.rs`, `sei_probe.rs`,
  `subtitle_probe.rs`, `pssh.rs`, `m3u8` and XML syntax, channel lists): what they
  find is an input, chosen nondeterministically.  They have no state between calls.
- Formats: the text of `/metrics`, the Grafana dashboard, reports, HAR, SARIF, curl,
  labels, tables, rendering, scrolling, toasts and panel toggles of the screens.
- The decryption of samples (`probe_clearkey`): its result is an input.
- The low-latency blocking reload is modelled as to the target it asks for
  (`Ladder`, `Pipeline`), not as a server that holds the answer back; low-latency
  DASH is not modelled.
- `ip_pin.rs`, QUIC, OpenTelemetry, the profile file, the `scte35`, `completions` and
  `man` commands, external players.

`PROJECT.json` lists the components with what is left out of each.

## Plan

1. `HlsPoller`, `DashPoller`, `SpecLinter`, `EventBus`, `Webhook`, `Screen` (done).
2. The runs of the command line, `Session` (done).
3. What a poll does with the bytes, `Pipeline` (done).
4. Proofs of `DropsAreCounted`, `MetricsLead`, `OneSession`, `ShownIsLatest`,
   `AgentCountsItsStreams` and `PassIsEarned` (done).
5. Proofs of every other invariant and action property: `LossIsReported` and
   `NoFalseAlarm`, the keys of `Screen`, the rest of `Session`, all of `Pipeline` (done).
6. What remains: lemmas on the operators that no poll reaches (the ten comparisons of
   `MCPipeline`), the order of the crawl's and the audit's requests, and abstract
   specifications of the webhook listener and of the HLS loop that the detailed ones
   implement.
