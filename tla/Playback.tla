------------------------------ MODULE Playback ------------------------------
(***************************************************************************)
(* The player that streamtop simulates behind a stream, and the small      *)
(* trackers that follow the media from segment to segment:                 *)
(*   models/stream.rs    VirtualBuffer                                     *)
(*   abr_model.rs        AbrLadderState, simulate_segment_fetch            *)
(*   wire_timing.rs      WireTimingTracker                                 *)
(*   gop_tracker.rs      GopCadenceTracker                                 *)
(*   g2g.rs              compute_g2g                                       *)
(* They are plain data owned by the poll loop, so this module has no       *)
(* variables: a module that composes the loop keeps one record of each.    *)
(*                                                                         *)
(* Times are whole seconds.  An Option is a set of at most one element.    *)
(***************************************************************************)
EXTENDS Naturals, Integers, Sequences, FiniteSets, SequencesExt

StallThreshold == 4         \* BUFFER_STALL_THRESHOLD_SECS
BufferCap      == 120       \* the clamp of every update of the buffer
PingPongWindow == 6
PingPongMin    == 3
GopSamples     == 4         \* MAX_SAMPLES
GopCadenceMin  == 3         \* MIN_SAMPLES_FOR_CADENCE
MaxGap         == 30        \* seconds of decode time that may pass unexplained

AtMost(a, b) == IF a <= b THEN a ELSE b
Clamped(x)    == IF x < 0 THEN 0 ELSE AtMost(x, BufferCap)
LOCAL Magnitude(x)  == IF x < 0 THEN -x ELSE x

-----------------------------------------------------------------------------
(* The virtual buffer *)

EmptyBuffer == [secs |-> 0, stall |-> 0, rebuffer |-> 0, index |-> 0,
                switches |-> 0, pingPong |-> FALSE]

\* The share of the stall threshold that the buffer lacks, in percent.
Deficit(secs) ==
  IF secs >= StallThreshold THEN 0
  ELSE ((StallThreshold - secs) * 100 + StallThreshold \div 2) \div StallThreshold

\* Variant: an early return spares a buffer that is already low.
DrainHighOnly(buf, elapsed) ==
  IF elapsed <= 0 \/ buf.secs < StallThreshold THEN buf
  ELSE [buf EXCEPT !.secs = Clamped(@ - elapsed), !.stall = Deficit(Clamped(buf.secs - elapsed))]

\* VirtualBuffer::drain_elapsed.  It refreshes the stall percentage and leaves
\* the rebuffer percentage and the composite index as they were.
Drain(buf, elapsed) ==
  IF elapsed <= 0 THEN buf
  ELSE LET left == Clamped(buf.secs - elapsed)
       IN  [buf EXCEPT !.secs = left, !.stall = Deficit(left)]

\* VirtualBuffer::on_new_segment: the credit of a segment that was not measured.
OnNewSegment(buf, duration, elapsed) ==
  LET now == Clamped(buf.secs - (IF elapsed > 0 THEN elapsed ELSE 0) + duration)
  IN  [buf EXCEPT !.secs = now, !.stall = Deficit(now), !.index = Deficit(now)]

-----------------------------------------------------------------------------
(* The ladder of the simulated player *)

EmptyLadder == [declared |-> {}, switches |-> 0, history |-> << >>, pingPong |-> FALSE]

LOCAL LastOf(s, n) == IF Len(s) > n THEN SubSeq(s, Len(s) - n + 1, Len(s)) ELSE s

Alternations(history) ==
  Cardinality({i \in 1..Len(history) - 1 : history[i] # history[i + 1]})

PingPong(history) == Len(history) >= 4 /\ Alternations(history) >= PingPongMin

\* AbrLadderState::observe_throughput.  A sample without a throughput is
\* dropped whole, the declared bandwidth with it.
Observe(ladder, kbps, declared) ==
  LET bw      == {d \in declared : d > 0}
      moved   == \E d \in bw, e \in ladder.declared : d # e
      history == LastOf(ladder.history \o SetToSeq(bw), PingPongWindow)
  IN  CASE \A k \in kbps : k = 0 -> ladder
        [] bw = {}               -> ladder
        [] moved -> [declared |-> bw,
                     switches |-> ladder.switches + 1,
                     history  |-> history,
                     pingPong |-> ladder.pingPong \/ PingPong(history)]
        [] OTHER -> [ladder EXCEPT !.declared = bw]

\* simulate_segment_fetch.  The buffer first drains by the wall time since the
\* last credit, then by the time of the download, then takes the segment.
SimulateFetch(buf, ladder, duration, download, elapsed) ==
  LET secs == Clamped(Drain(buf, elapsed).secs - download + duration)
      part == Deficit(secs)
  IN  [secs |-> secs, stall |-> part, rebuffer |-> part,
       index |-> AtMost(2 * part, 100),
       switches |-> ladder.switches, pingPong |-> ladder.pingPong]

\* lint_abr_player: the findings of the simulated player, by their kind.
PlayerFindings(buf) ==
  {k \in {"rebuffer", "ping_pong"} :
      \/ k = "rebuffer" /\ buf.rebuffer >= 50
      \/ k = "ping_pong" /\ buf.pingPong}

\* classify_dl_to_dur: the download time over the duration, in percent.
DlToDur(download, duration) ==
  LET pct == (download * 100) \div duration
  IN  IF pct < 80 THEN "normal" ELSE IF pct <= 100 THEN "elevated" ELSE "draining"

-----------------------------------------------------------------------------
(* Decode time from segment to segment *)

EmptyTiming == [last |-> {}, scale |-> {}]

\* WireTimingTracker::observe_segment, its tfdt half: base and scale come
\* together, and a timescale of zero is not remembered.
ObserveTiming(tracker, base, scale) ==
  IF base = {} \/ scale \in {{}, {0}} THEN tracker ELSE [last |-> base, scale |-> scale]

\* The difference of two decode times in 64-bit arithmetic (wrapping_sub),
\* classified against half of the 33-bit wrap of a PTS.  Wrap64 and Wrap33
\* stand for 2^64 and 2^33: a step back is a huge step forward.
Wrap64 == 4096
Wrap33 == 512

\* apply_cross_segment
CrossSegment(tracker, base, scale) ==
  LET deltas == {(b - l + Wrap64) % Wrap64 : b \in base, l \in tracker.last}
      ticks  == IF scale \in {{}, {0}} THEN 1 ELSE CHOOSE s \in scale : TRUE
  IN  IF tracker.scale # scale THEN {}
      ELSE {k \in {"rollover", "discontinuity"} :
              \/ k = "rollover" /\ \E d \in deltas : d > Wrap33 \div 2
              \/ k = "discontinuity" /\ \E d \in deltas :
                     d <= Wrap33 \div 2 /\ d > MaxGap * ticks}

\* apply_target: how far the segment on the wire is from the declared target,
\* in percent.
TargetDeviation(wireDuration, target) ==
  {((w - t) * 100) \div t : w \in {x \in wireDuration : x > 0}, t \in {x \in target : x > 0}}

-----------------------------------------------------------------------------
(* The cadence of key frames *)

\* observe_keyframe: a key frame at the time of the last one is the same frame.
ObserveKeyframe(pts, at) ==
  LET new == {p \in at : p >= 0 /\ (pts = << >> \/ Last(pts) # p)}
  IN  LastOf(pts \o SetToSeq(new), GopSamples)

LOCAL Intervals(pts) ==
  SelectSeq([i \in 1..Len(pts) - 1 |-> pts[i + 1] - pts[i]], LAMBDA d : d > 0)

\* GopCadenceTracker::apply: the average interval, and whether every interval
\* lies within 8 % of it (compared as n * |n d - sum| so that it stays whole).
Cadence(pts) ==
  LET d   == IF Len(pts) < 2 THEN << >> ELSE Intervals(pts)
      n   == Len(d)
      sum == FoldSeq(LAMBDA x, acc : x + acc, 0, d)
  IN  [gop   |-> IF n = 0 THEN {} ELSE {sum \div n},
       fixed |-> /\ Len(pts) >= GopCadenceMin
                 /\ n >= 2
                 /\ \A i \in 1..n : 100 * Magnitude(n * d[i] - sum) <= 8 * sum]

\* The rebase of the trackers when a stream is polled anew.
FreshTrackers == [timing |-> EmptyTiming, gop |-> << >>]

-----------------------------------------------------------------------------
(* Glass to glass *)

\* compute_g2g: the producer's clock wins, the time the segment became
\* available is the fallback, and without either there is no total.
G2g(prft, pdt, dashAvailable, ttfb, now) ==
  LET origin == IF pdt # {} THEN pdt ELSE dashAvailable
  IN  [ingestion |-> {o - p : o \in origin, p \in prft},
       edge      |-> ttfb,
       total     |-> {now - x : x \in IF prft # {} THEN prft ELSE origin}]

=============================================================================
