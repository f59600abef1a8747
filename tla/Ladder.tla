------------------------------- MODULE Ladder -------------------------------
(***************************************************************************)
(* The renditions of a stream: how a master playlist becomes the list of   *)
(* variants (poller/hls_poll.rs), what is wrong with that list             *)
(* (engine/linter.rs), what the bytes of a segment say of the selected     *)
(* variant (container_probe.rs, poller/segment_fetch.rs), and the low      *)
(* latency tags of a media playlist.                                       *)
(*                                                                         *)
(* Operators only.  A variant is a record                                  *)
(*   [uri, bandwidth, width, height, fps, codecs, selected, fromWire,      *)
(*    mismatch]                                                            *)
(* with bandwidth in kbps; width, height, fps and codecs are Options, sets *)
(* of at most one element, and a codec list is a set of families.          *)
(***************************************************************************)
EXTENDS Naturals, Integers, Sequences, FiniteSets, SequencesExt

LOCAL AtMost(a, b) == IF a <= b THEN a ELSE b
LOCAL Distance(a, b) == IF a < b THEN b - a ELSE a - b
LOCAL Total(s) == FoldSeq(LAMBDA x, acc : x + acc, 0, s)

-----------------------------------------------------------------------------
(* From the master playlist to the variants *)

\* The row at i is listed before the row at j: it is richer, or came first.
LOCAL Before(rows, i, j) ==
  rows[i].bandwidth > rows[j].bandwidth \/ (rows[i].bandwidth = rows[j].bandwidth /\ i < j)

\* collect_variants: I-frame streams and repeated URIs are left out, and the
\* richest variant comes first.
CollectVariants(streams) ==
  LET Repeated(i) == \E j \in 1..(i - 1) : ~streams[j].iframe /\ streams[j].uri = streams[i].uri
      kept  == {i \in 1..Len(streams) : ~streams[i].iframe /\ ~Repeated(i)}
      At(n) == CHOOSE i \in kept : Cardinality({j \in kept : Before(streams, j, i)}) = n - 1
      Of(s) == [uri |-> s.uri, bandwidth |-> s.bandwidth, width |-> s.width,
                height |-> s.height, fps |-> s.fps, codecs |-> s.codecs,
                selected |-> FALSE, fromWire |-> FALSE, mismatch |-> {}]
  IN  [n \in 1..Cardinality(kept) |-> Of(streams[At(n)])]

\* The variant that is polled is the last of the richest ones (max_by_key).
Best(variants) ==
  CHOOSE i \in 1..Len(variants) :
    \A j \in 1..Len(variants) : \/ variants[j].bandwidth < variants[i].bandwidth
                               \/ (variants[j].bandwidth = variants[i].bandwidth /\ j <= i)

SelectBest(variants) ==
  [i \in 1..Len(variants) |->
     [variants[i] EXCEPT !.selected = (variants[i].uri = variants[Best(variants)].uri)]]

-----------------------------------------------------------------------------
(* What is wrong with a ladder *)

\* analyze_abr_ladder: two rungs closer than 15 %, and encodes whose rate does
\* not fit their height.
RungPenalty(variants) ==
  LET bws == SortSeq(SelectSeq([i \in 1..Len(variants) |-> variants[i].bandwidth],
                               LAMBDA b : b > 0), <)
  IN  3 * Cardinality({i \in 1..(Len(bws) - 1) : 100 * (bws[i + 1] - bws[i]) < 15 * bws[i]})

EncodePenalty(v) ==
  LET At(low, high) == \E h \in v.height : h >= low /\ h <= high
  IN  (IF At(1080, 9999) /\ v.bandwidth < 2500 THEN 5 ELSE 0)
      + (IF At(1, 480) /\ v.bandwidth > 4000 THEN 5 ELSE 0)
      + (IF At(1440, 9999) /\ v.bandwidth < 5000 THEN 4 ELSE 0)

LadderPenalty(variants) ==
  LET rated == SelectSeq(variants, LAMBDA v : v.bandwidth > 0)
  IN  AtMost(20, RungPenalty(variants)
                 + Total([i \in 1..Len(rated) |-> EncodePenalty(rated[i])]))

\* apply_abr_penalty
WithPenalty(score, penalty) == IF score > penalty THEN score - penalty ELSE 0

\* lint_variant_alignment: its findings by rule.  A ladder without any audio is
\* named once, a rate that cannot carry its height once for each variant.
VideoCodecs == {"avc", "hevc"}

AlignmentFindings(variants, separateAudio) ==
  LET Has(cs) == \E i \in 1..Len(variants) : \E c \in variants[i].codecs : cs \cap c # {}
      Poor(v) == v.bandwidth > 0 /\ v.bandwidth < 1500 /\ \E h \in v.height : h >= 1080
      poor    == {i \in 1..Len(variants) : Poor(variants[i])}
  IN  (IF Has(VideoCodecs) /\ ~Has({"mp4a"}) /\ ~separateAudio THEN <<"ABR_AUDIO_MISSING">> ELSE << >>)
      \o [i \in 1..Cardinality(poor) |-> "ABR_BW_RES_MISMATCH"]

-----------------------------------------------------------------------------
(* What the bytes say *)

\* manifest_wire_mismatches: one line for each field that both sides name and
\* that differs; codecs differ only between the two families.
WireMismatches(v, wire) ==
  {f \in {"resolution", "fps", "codec"} :
     \/ f = "resolution" /\ v.width # {} /\ wire.width # {} /\ v.height # {} /\ wire.height # {}
                         /\ <<v.width, v.height>> # <<wire.width, wire.height>>
     \/ f = "fps" /\ \E a \in v.fps, b \in wire.fps : Distance(a, b) > 0
     \/ f = "codec" /\ \E a \in v.codecs, b \in wire.codecs :
                          {a \cap VideoCodecs, b \cap VideoCodecs} = {{"avc"}, {"hevc"}}}

\* fill_abr_from_wire
Filled(v, wire) ==
  LET sized == v.width = {} /\ wire.width # {} /\ wire.height # {}
      rate  == v.fps = {} /\ wire.fps # {}
      codec == v.codecs = {} /\ wire.codecs # {}
  IN  [v EXCEPT !.width    = IF sized THEN wire.width ELSE @,
                !.height   = IF sized THEN wire.height ELSE @,
                !.fps      = IF rate THEN wire.fps ELSE @,
                !.codecs   = IF codec THEN wire.codecs ELSE @,
                !.fromWire = @ \/ sized \/ rate \/ codec]

\* The position of the selected variant, the first one when none is.
Chosen(variants) ==
  LET picked == SelectSeq([i \in 1..Len(variants) |-> i], LAMBDA i : variants[i].selected)
  IN  IF picked = << >> THEN 1 ELSE Head(picked)

\* apply_wire_to_variants: a stream without variants gets one from the wire.
\* A mismatch once noted stays noted.
WireVariant(wire) ==
  [uri |-> "none", bandwidth |-> 0, width |-> wire.width, height |-> wire.height,
   fps |-> wire.fps, codecs |-> wire.codecs, selected |-> TRUE, fromWire |-> TRUE,
   mismatch |-> {}]

Silent(wire) ==
  wire.width = {} /\ wire.height = {} /\ wire.fps = {} /\ wire.codecs = {}

ApplyWire(variants, wire) ==
  LET i     == Chosen(variants)
      found == WireMismatches(variants[i], wire)
      noted == IF found = {} THEN variants[i] ELSE [variants[i] EXCEPT !.mismatch = {"noted"}]
  IN  CASE Silent(wire) -> variants
        [] ~Silent(wire) /\ variants = << >> -> <<WireVariant(wire)>>
        [] OTHER -> [variants EXCEPT ![i] = Filled(noted, wire)]

\* The lines it logs; each counts as a mismatch of its own in the metrics.
WireLines(variants, wire) ==
  IF Silent(wire) \/ variants = << >> THEN 0
  ELSE Cardinality(WireMismatches(variants[Chosen(variants)], wire))

-----------------------------------------------------------------------------
(* Low latency *)

NoLl == [ll |-> FALSE, target |-> {}, parts |-> 0, last |-> {}, hint |-> FALSE,
         hintUri |-> {}, range |-> {}, blocks |-> FALSE]

\* scan_ll_hls, one tag.  lastUri and lastRange are those of the last part that
\* had one, which need not be the same part.
LlTag(st, tag) ==
  CASE tag.kind = "PART-INF" ->
         [st EXCEPT !.info.ll = TRUE, !.info.target = tag.duration]
    [] tag.kind = "PART" ->
         [info |-> [st.info EXCEPT
                      !.ll = TRUE, !.parts = @ + 1,
                      !.last   = IF tag.duration # {} THEN tag.duration ELSE @,
                      !.target = IF @ = {} THEN tag.duration ELSE @],
          uri   |-> IF tag.uri # {} THEN tag.uri ELSE st.uri,
          range |-> IF tag.range # {} THEN tag.range ELSE st.range]
    [] tag.kind = "PRELOAD-HINT" ->
         [st EXCEPT !.info.ll = TRUE, !.info.hint = TRUE,
                    !.info.hintUri = IF tag.uri # {} THEN tag.uri ELSE @,
                    !.info.range   = IF tag.range # {} THEN tag.range ELSE @]
    [] tag.kind = "SERVER-CONTROL" ->
         [st EXCEPT !.info.ll = TRUE, !.info.blocks = @ \/ tag.blocks]

\* Without a hint the last part is the one that is probed.
ScanLl(tags) ==
  LET st == FoldLeft(LlTag, [info |-> NoLl, uri |-> {}, range |-> {}], tags)
  IN  IF st.info.hintUri # {} \/ st.uri = {} THEN st.info
      ELSE [st.info EXCEPT !.hint = @ \/ st.info.parts > 0, !.hintUri = st.uri,
                           !.range = IF st.range # {} THEN st.range ELSE @]

\* poll_interval_ms: a part, of a third of a second when its length is unknown,
\* but never less than 200 ms nor more than 330 ms.
PollInterval(info) ==
  LET part == IF info.last # {} THEN info.last ELSE info.target
      ms   == IF part = {} THEN 330 ELSE 100 * (CHOOSE p \in part : TRUE)
  IN  IF ms < 200 THEN 200 ELSE AtMost(ms, 330)

\* lint_ll_hls; durations are in tenths of a second, the slack is half a second.
LlFindings(info) ==
  {f \in {"LL_PART_TARGET", "LL_PRELOAD_HINT"} :
     /\ info.ll
     /\ \/ f = "LL_PART_TARGET" /\ \E t \in info.target, l \in info.last : l > t + 5
        \/ f = "LL_PRELOAD_HINT" /\ info.hint /\ info.hintUri = {}}

\* next_blocking_targets: the segment and the part a blocking reload waits for.
\* The number of parts is that of the whole playlist.
BlockingTarget(sequence, segments, parts) ==
  CASE segments = 0 -> <<sequence, 0>>
    [] segments > 0 /\ parts > 0 -> <<sequence + segments - 1, parts>>
    [] OTHER -> <<sequence + segments, 0>>

\* ll_hls_probe_range: at most the window of a range probe, from the offset on.
RangeProbe == 2048          \* RANGE_PROBE_BYTES
LlRange(offset, length) ==
  LET start == IF offset = {} THEN 0 ELSE CHOOSE o \in offset : TRUE
      span  == IF length = {} THEN RangeProbe
               ELSE LET l == CHOOSE x \in length : TRUE
                    IN  IF AtMost(l, RangeProbe) = 0 THEN 0 ELSE AtMost(l, RangeProbe) - 1
  IN  <<start, start + span>>

\* check_av_drift: the audio playlist is more than two segments or more than a
\* target duration away from the video playlist.
AvDrift(video, audio, target) ==
  Distance(audio.sequence, video.sequence) > 2 \/ Distance(audio.window, video.window) > target

=============================================================================
