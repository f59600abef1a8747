------------------------------ MODULE SpecLinter ------------------------------
(***************************************************************************)
(* The playlist and CDN linter (src/src/engine/linter.rs, SpecLinter) that *)
(* the HLS and the DASH poller own by `&mut`.  It is a value with methods, *)
(* so this module has no variables: a linter is a record, and each method  *)
(* is an operator from the linter before the call to the one after it.     *)
(*                                                                         *)
(* Time is counted in ticks of half a second.  An `Option<Instant>` of the *)
(* code is the number of ticks since that instant, held at MaxAge, and     *)
(* Aged lets time pass.  An absent Option is None.                         *)
(***************************************************************************)
EXTENDS Integers

CONSTANT MaxAge    \* ages are not told apart from here on

ASSUME MaxAgeAssumption == MaxAge \in Nat \ {0}

None == -1
Option(S) == S \cup {None}

MEDIA_SEQ_GAP_TOLERANCE == 2
TicksPerSecond == 2

-----------------------------------------------------------------------------
(* The findings, named by their rule, and their category and severity.     *)

RfcErrors == {"TARGET_DURATION", "SEQ_REGRESS", "MEDIA_SEQUENCE_REGRESS",
              "PLAYLIST_REFRESH", "DASH_AVAIL_START"}
RfcOthers == {"SEQ_SKIP", "MEDIA_SEQUENCE_GAP", "DISCONTINUITY",
              "DISCONTINUITY_SEQ", "PDT_WIRE_DRIFT",
              "DASH_SPD_MUP", "DASH_TIMELINE_GAP", "DASH_TIMESCALE"}
RfcRules == RfcErrors \cup RfcOthers
StallRules == {"ORIGIN_STALL"}
CdnRules == {"CACHE_MISS", "CACHE_HIT", "TTFB_HIGH", "TTFB_SPIKE"}
Rules == RfcRules \cup StallRules \cup CdnRules

HealthFlags == {"rfc_violation", "origin_stall", "cdn_miss", "high_ttfb"}

\* What the response headers and the timing of one segment fetch look like:
\* the cache verdict, the first byte's delay (over TTFB_SPIKE_MS, three times
\* the recent average, or neither), and whether PDT and wire clock disagree.
Fetches == [verdict : {"Hit", "Miss", "Unknown"},
            ttfb : {"low", "spike", "high"},
            drift : BOOLEAN]

Linters == [last_media_sequence : Option(Nat),
            last_highest_seq : Option(Nat),
            since_refresh : Option(0..MaxAge),
            since_new_segment : Option(0..MaxAge),
            last_discontinuity_seq : Option(Nat),
            flags : SUBSET HealthFlags,
            findings_buffer : SUBSET Rules]

NewLinter == [last_media_sequence |-> None, last_highest_seq |-> None,
              since_refresh |-> None, since_new_segment |-> None,
              last_discontinuity_seq |-> None,
              flags |-> {}, findings_buffer |-> {}]

-----------------------------------------------------------------------------
(* Helpers.                                                                *)

AgedBy(age, ticks) ==
  IF age = None THEN None ELSE IF age + ticks > MaxAge THEN MaxAge ELSE age + ticks

Aged(linter, ticks) ==
  [linter EXCEPT !.since_refresh = AgedBy(@, ticks),
                 !.since_new_segment = AgedBy(@, ticks)]

FlagsOf(rules) ==
  (IF rules \cap RfcRules # {} THEN {"rfc_violation"} ELSE {})
    \cup (IF rules \cap StallRules # {} THEN {"origin_stall"} ELSE {})

\* push, ingest_finding: buffer the findings and raise the flag of their category.
Push(linter, rules) ==
  [linter EXCEPT !.findings_buffer = @ \cup rules, !.flags = @ \cup FlagsOf(rules)]

When(condition, rule) == IF condition THEN {rule} ELSE {}

MaxSeqOf(a, b) == IF a > b THEN a ELSE b

-----------------------------------------------------------------------------
(* The methods.                                                            *)

RefreshRules(linter, media_sequence, target_duration, segment_count) ==
  When(/\ linter.since_refresh # None
       /\ target_duration > 0
       /\ linter.since_refresh > TicksPerSecond * target_duration
       /\ segment_count > 0, "PLAYLIST_REFRESH")
    \cup When(/\ linter.last_media_sequence # None
              /\ media_sequence < linter.last_media_sequence, "MEDIA_SEQUENCE_REGRESS")
    \cup When(/\ linter.last_media_sequence # None
              /\ media_sequence > linter.last_media_sequence + MEDIA_SEQ_GAP_TOLERANCE,
              "MEDIA_SEQUENCE_GAP")

\* Variant: any playlist refresh counts as progress.
OnPlaylistRefreshResets(linter, media_sequence, target_duration, segment_count) ==
  [Push(linter, RefreshRules(linter, media_sequence, target_duration, segment_count))
     EXCEPT !.since_refresh = 0, !.since_new_segment = 0,
            !.last_media_sequence = media_sequence]

OnPlaylistRefresh(linter, media_sequence, target_duration, segment_count) ==
  [Push(linter, RefreshRules(linter, media_sequence, target_duration, segment_count))
     EXCEPT !.since_refresh = 0, !.last_media_sequence = media_sequence]

\* Variants of the two comparisons below: the same sequence again counts as a
\* step back; the tolerance is one too wide.
RegressesOnRepeat(linter, seq) ==
  linter.last_highest_seq # None /\ seq <= linter.last_highest_seq
SkipsTooFew(linter, seq) ==
  /\ linter.last_highest_seq # None
  /\ seq > linter.last_highest_seq + MEDIA_SEQ_GAP_TOLERANCE + 1

Regresses(linter, seq) ==
  linter.last_highest_seq # None /\ seq < linter.last_highest_seq
Skips(linter, seq) ==
  /\ linter.last_highest_seq # None
  /\ seq > linter.last_highest_seq + MEDIA_SEQ_GAP_TOLERANCE

SegmentRules(linter, seq, too_long, discontinuity, discontinuity_sequence) ==
  When(too_long, "TARGET_DURATION")
    \cup When(Regresses(linter, seq), "SEQ_REGRESS")
    \cup When(Skips(linter, seq), "SEQ_SKIP")
    \cup When(discontinuity, "DISCONTINUITY")
    \cup When(/\ discontinuity
              /\ linter.last_discontinuity_seq # None
              /\ discontinuity_sequence > 0
              /\ discontinuity_sequence < linter.last_discontinuity_seq,
              "DISCONTINUITY_SEQ")

\* Variant: a new segment does not end the stall.
OnNewSegmentKeepsStall(linter, seq, too_long, discontinuity, discontinuity_sequence) ==
  [Push(linter, SegmentRules(linter, seq, too_long, discontinuity, discontinuity_sequence))
     EXCEPT !.last_highest_seq = MaxSeqOf(seq, @),
            !.last_discontinuity_seq =
               IF discontinuity /\ discontinuity_sequence > 0
               THEN discontinuity_sequence ELSE @,
            !.since_new_segment = 0]

OnNewSegment(linter, seq, too_long, discontinuity, discontinuity_sequence) ==
  LET pushed == Push(linter, SegmentRules(linter, seq, too_long, discontinuity,
                                          discontinuity_sequence))
  IN  [pushed EXCEPT
         !.last_highest_seq = MaxSeqOf(seq, @),
         !.last_discontinuity_seq =
            IF discontinuity /\ discontinuity_sequence > 0
            THEN discontinuity_sequence ELSE @,
         !.since_new_segment = 0,
         !.flags = @ \ {"origin_stall"}]

\* STALL_MULTIPLIER is 1.5, so the limit is three half seconds per second.
Stalling(linter, target_duration) ==
  /\ target_duration > 0
  /\ linter.since_new_segment # None
  /\ linter.since_new_segment > 3 * target_duration

CheckStalling(linter, target_duration) ==
  IF Stalling(linter, target_duration) THEN Push(linter, StallRules) ELSE linter

FetchRules(fetch) ==
  When(fetch.verdict = "Miss", "CACHE_MISS")
    \cup When(fetch.verdict = "Hit", "CACHE_HIT")
    \cup When(fetch.ttfb = "high", "TTFB_HIGH")
    \cup When(fetch.ttfb = "spike", "TTFB_SPIKE")

FetchFlags(fetch) ==
  When(fetch.verdict = "Miss", "cdn_miss") \cup When(fetch.ttfb = "high", "high_ttfb")

OnCdnHeaders(linter, fetch) ==
  [Push(linter, FetchRules(fetch)) EXCEPT !.flags = @ \cup FetchFlags(fetch)]

LintPdtWireDrift(linter, fetch) == Push(linter, When(fetch.drift, "PDT_WIRE_DRIFT"))

\* flush_findings drains the buffer with take_findings and sends each finding.
TakeFindings(linter) == [linter EXCEPT !.findings_buffer = {}]

ClearRfcFlagIfClean(linter) ==
  IF linter.findings_buffer \cap RfcErrors = {}
  THEN [linter EXCEPT !.flags = @ \ {"rfc_violation"}]
  ELSE linter

\* compute_health reports the flags as deductions and drops the per-cycle ones.
Deductions(linter) == linter.flags

\* Variant: the per-cycle flags stay.
AfterHealthSticky(linter) == linter
AfterHealth(linter) == [linter EXCEPT !.flags = @ \ {"cdn_miss", "high_ttfb"}]

Score(deductions) ==
  100 - (IF "rfc_violation" \in deductions THEN 15 ELSE 0)
      - (IF "origin_stall" \in deductions THEN 20 ELSE 0)
      - (IF "cdn_miss" \in deductions THEN 5 ELSE 0)
      - (IF "high_ttfb" \in deductions THEN 10 ELSE 0)
=============================================================================
