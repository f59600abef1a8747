--------------------------- MODULE SpecLinterProofs ---------------------------
(***************************************************************************)
(* Lemmas about the methods of SpecLinter: each one returns a linter, and  *)
(* what it does to the flags, the findings and the age of the newest       *)
(* segment, which is what the poll loop's invariants speak of.             *)
(***************************************************************************)
EXTENDS SpecLinter, TLAPS

\* Time passing keeps a linter a linter and touches neither its flags nor its
\* findings (checked and proved for every cap MaxAge).
LEMMA AgedLinter ==
  ASSUME NEW linter \in Linters, NEW ticks \in Nat
  PROVE  /\ Aged(linter, ticks) \in Linters
         /\ Aged(linter, ticks).flags = linter.flags
         /\ Aged(linter, ticks).findings_buffer = linter.findings_buffer
         /\ Aged(linter, ticks).last_highest_seq = linter.last_highest_seq
         /\ linter.since_new_segment = 0
              => Aged(linter, ticks).since_new_segment <= ticks
<1>1. ASSUME NEW age \in Option(0..MaxAge)
      PROVE  /\ AgedBy(age, ticks) \in Option(0..MaxAge)
             /\ age = 0 => AgedBy(age, ticks) <= ticks
  BY <1>1, MaxAgeAssumption DEF AgedBy, Option, None
<1>2. /\ linter.since_refresh \in Option(0..MaxAge)
      /\ linter.since_new_segment \in Option(0..MaxAge)
  BY DEF Linters
<1>3. /\ AgedBy(linter.since_refresh, ticks) \in Option(0..MaxAge)
      /\ AgedBy(linter.since_new_segment, ticks) \in Option(0..MaxAge)
      /\ linter.since_new_segment = 0 => AgedBy(linter.since_new_segment, ticks) <= ticks
  BY <1>1, <1>2
<1> QED
  BY <1>3 DEF Aged, Linters

\* push adds the findings, and raises only the flag of their category.
LEMMA PushLinter ==
  ASSUME NEW linter \in Linters, NEW rules \in SUBSET Rules
  PROVE  /\ Push(linter, rules) \in Linters
         /\ Push(linter, rules).findings_buffer = linter.findings_buffer \cup rules
         /\ Push(linter, rules).flags = linter.flags \cup FlagsOf(rules)
         /\ Push(linter, rules).since_new_segment = linter.since_new_segment
         /\ Push(linter, rules).last_highest_seq = linter.last_highest_seq
<1>1. FlagsOf(rules) \in SUBSET HealthFlags
  BY DEF FlagsOf, HealthFlags
<1> QED
  BY <1>1 DEF Push, Linters

\* on_playlist_refresh reports nothing about segments, stalls or the CDN.
LEMMA RefreshLinter ==
  ASSUME NEW linter \in Linters, NEW media_sequence \in Nat,
         NEW target_duration \in Nat, NEW segment_count \in Nat
  PROVE  LET after == OnPlaylistRefresh(linter, media_sequence, target_duration, segment_count)
         IN  /\ after \in Linters
             /\ after.findings_buffer \ linter.findings_buffer
                  \subseteq {"PLAYLIST_REFRESH", "MEDIA_SEQUENCE_REGRESS", "MEDIA_SEQUENCE_GAP"}
             /\ linter.findings_buffer \subseteq after.findings_buffer
             /\ linter.flags \subseteq after.flags
             /\ after.flags \subseteq linter.flags \cup {"rfc_violation"}
<1> DEFINE rules == RefreshRules(linter, media_sequence, target_duration, segment_count)
           pushed == Push(linter, rules)
<1>1. rules \subseteq {"PLAYLIST_REFRESH", "MEDIA_SEQUENCE_REGRESS", "MEDIA_SEQUENCE_GAP"}
  BY DEF RefreshRules, When
<1>2. rules \in SUBSET Rules /\ FlagsOf(rules) \subseteq {"rfc_violation"}
  BY <1>1 DEF Rules, RfcRules, RfcErrors, RfcOthers, StallRules, FlagsOf
<1> HIDE DEF rules
<1>3. /\ pushed \in Linters
      /\ pushed.findings_buffer = linter.findings_buffer \cup rules
      /\ pushed.flags = linter.flags \cup FlagsOf(rules)
  BY <1>2, PushLinter
<1> DEFINE after == OnPlaylistRefresh(linter, media_sequence, target_duration, segment_count)
<1>4. after = [pushed EXCEPT !.since_refresh = 0, !.last_media_sequence = media_sequence]
  BY DEF OnPlaylistRefresh, rules
<1> HIDE DEF pushed, after
<1>5. after \in Linters
  <2>1. 0 \in Option(0..MaxAge) /\ media_sequence \in Option(Nat)
    BY MaxAgeAssumption DEF Option
  <2> QED
    BY <1>3, <1>4, <2>1 DEF Linters
<1>6. /\ after.findings_buffer = linter.findings_buffer \cup rules
      /\ after.flags = linter.flags \cup FlagsOf(rules)
  BY <1>3, <1>4 DEF Linters
<1>7. /\ after.findings_buffer \ linter.findings_buffer
           \subseteq {"PLAYLIST_REFRESH", "MEDIA_SEQUENCE_REGRESS", "MEDIA_SEQUENCE_GAP"}
      /\ linter.findings_buffer \subseteq after.findings_buffer
  BY <1>1, <1>6
<1>8. /\ linter.flags \subseteq after.flags
      /\ after.flags \subseteq linter.flags \cup {"rfc_violation"}
  BY <1>2, <1>6
<1> QED
  BY <1>5, <1>7, <1>8 DEF after

\* on_new_segment clears the stall and restarts its clock; the findings it
\* adds are about sequences, durations and discontinuities.
LEMMA NewSegmentLinter ==
  ASSUME NEW linter \in Linters, NEW seq \in Nat, NEW too_long,
         NEW discontinuity, NEW discontinuity_sequence \in Nat
  PROVE  LET after == OnNewSegment(linter, seq, too_long, discontinuity, discontinuity_sequence)
         IN  /\ after \in Linters
             /\ after.since_new_segment = 0
             /\ after.findings_buffer \ linter.findings_buffer
                  \subseteq {"TARGET_DURATION", "SEQ_REGRESS", "SEQ_SKIP",
                             "DISCONTINUITY", "DISCONTINUITY_SEQ"}
             /\ linter.findings_buffer \subseteq after.findings_buffer
             /\ linter.flags \ {"origin_stall"} \subseteq after.flags
             /\ after.flags \subseteq (linter.flags \cup {"rfc_violation"}) \ {"origin_stall"}
<1> DEFINE rules == SegmentRules(linter, seq, too_long, discontinuity, discontinuity_sequence)
           pushed == Push(linter, rules)
<1>1. rules \subseteq {"TARGET_DURATION", "SEQ_REGRESS", "SEQ_SKIP",
                       "DISCONTINUITY", "DISCONTINUITY_SEQ"}
  BY DEF SegmentRules, When
<1>2. rules \in SUBSET Rules /\ FlagsOf(rules) \subseteq {"rfc_violation"}
  BY <1>1 DEF Rules, RfcRules, RfcErrors, RfcOthers, StallRules, FlagsOf
<1> HIDE DEF rules
<1>3. /\ pushed \in Linters
      /\ pushed.findings_buffer = linter.findings_buffer \cup rules
      /\ pushed.flags = linter.flags \cup FlagsOf(rules)
  BY <1>2, PushLinter
<1>4. /\ MaxSeqOf(seq, pushed.last_highest_seq) \in Option(Nat)
      /\ (IF discontinuity /\ discontinuity_sequence > 0
          THEN discontinuity_sequence ELSE pushed.last_discontinuity_seq) \in Option(Nat)
  BY <1>3 DEF MaxSeqOf, Linters, Option, None
<1> DEFINE after == OnNewSegment(linter, seq, too_long, discontinuity, discontinuity_sequence)
<1>5. after = [pushed EXCEPT
                 !.last_highest_seq = MaxSeqOf(seq, pushed.last_highest_seq),
                 !.last_discontinuity_seq =
                    IF discontinuity /\ discontinuity_sequence > 0
                    THEN discontinuity_sequence ELSE pushed.last_discontinuity_seq,
                 !.since_new_segment = 0,
                 !.flags = pushed.flags \ {"origin_stall"}]
  BY <1>3 DEF OnNewSegment, rules, Linters
<1> HIDE DEF pushed, after
<1>6. after \in Linters /\ after.since_new_segment = 0
  <2>1. 0 \in Option(0..MaxAge)
    BY MaxAgeAssumption DEF Option
  <2> QED
    BY <1>3, <1>4, <1>5, <2>1 DEF Linters
<1>7. /\ after.findings_buffer = linter.findings_buffer \cup rules
      /\ after.flags = (linter.flags \cup FlagsOf(rules)) \ {"origin_stall"}
  BY <1>3, <1>5 DEF Linters
<1>8. /\ after.findings_buffer \ linter.findings_buffer
           \subseteq {"TARGET_DURATION", "SEQ_REGRESS", "SEQ_SKIP",
                      "DISCONTINUITY", "DISCONTINUITY_SEQ"}
      /\ linter.findings_buffer \subseteq after.findings_buffer
  BY <1>1, <1>7
<1>9. /\ linter.flags \ {"origin_stall"} \subseteq after.flags
      /\ after.flags \subseteq (linter.flags \cup {"rfc_violation"}) \ {"origin_stall"}
  BY <1>2, <1>7
<1> QED
  BY <1>6, <1>8, <1>9 DEF after

\* check_stalling adds ORIGIN_STALL and its flag together, or nothing.
LEMMA StallingLinter ==
  ASSUME NEW linter \in Linters, NEW target_duration \in Nat
  PROVE  LET after == CheckStalling(linter, target_duration)
         IN  /\ after \in Linters
             /\ \/ after = linter
                \/ /\ after.findings_buffer = linter.findings_buffer \cup {"ORIGIN_STALL"}
                   /\ after.flags = linter.flags \cup {"origin_stall"}
<1>1. StallRules \in SUBSET Rules /\ FlagsOf(StallRules) = {"origin_stall"}
  BY DEF StallRules, Rules, FlagsOf, RfcRules, RfcErrors, RfcOthers
<1>2. /\ Push(linter, StallRules) \in Linters
      /\ Push(linter, StallRules).findings_buffer = linter.findings_buffer \cup StallRules
      /\ Push(linter, StallRules).flags = linter.flags \cup {"origin_stall"}
  BY <1>1, PushLinter
<1> QED
  BY <1>2 DEF CheckStalling, StallRules

\* on_cdn_headers and lint_pdt_wire_drift raise cdn_miss with CACHE_MISS and
\* high_ttfb with TTFB_HIGH, and leave the stall alone.
LEMMA FetchLinter ==
  ASSUME NEW linter \in Linters, NEW fetch \in Fetches
  PROVE  LET after == LintPdtWireDrift(OnCdnHeaders(linter, fetch), fetch)
         IN  /\ after \in Linters
             /\ after.since_new_segment = linter.since_new_segment
             /\ linter.flags \subseteq after.flags
             /\ "origin_stall" \in after.flags => "origin_stall" \in linter.flags
             /\ "ORIGIN_STALL" \in after.findings_buffer
                  => "ORIGIN_STALL" \in linter.findings_buffer
             /\ "CACHE_MISS" \in after.findings_buffer
                  <=> "CACHE_MISS" \in linter.findings_buffer \/ fetch.verdict = "Miss"
             /\ "cdn_miss" \in after.flags
                  <=> "cdn_miss" \in linter.flags \/ fetch.verdict = "Miss"
             /\ "TTFB_HIGH" \in after.findings_buffer
                  <=> "TTFB_HIGH" \in linter.findings_buffer \/ fetch.ttfb = "high"
             /\ "high_ttfb" \in after.flags
                  <=> "high_ttfb" \in linter.flags \/ fetch.ttfb = "high"
<1> DEFINE cdn == OnCdnHeaders(linter, fetch)
           drift == When(fetch.drift, "PDT_WIRE_DRIFT")
           after == LintPdtWireDrift(OnCdnHeaders(linter, fetch), fetch)
<1>1. /\ FetchRules(fetch) \subseteq CdnRules
      /\ "CACHE_MISS" \in FetchRules(fetch) <=> fetch.verdict = "Miss"
      /\ "TTFB_HIGH" \in FetchRules(fetch) <=> fetch.ttfb = "high"
  BY DEF FetchRules, When, CdnRules
<1>2. /\ FetchFlags(fetch) \subseteq {"cdn_miss", "high_ttfb"}
      /\ "cdn_miss" \in FetchFlags(fetch) <=> fetch.verdict = "Miss"
      /\ "high_ttfb" \in FetchFlags(fetch) <=> fetch.ttfb = "high"
  BY DEF FetchFlags, When
<1>3. FetchRules(fetch) \in SUBSET Rules /\ FlagsOf(FetchRules(fetch)) = {}
  BY <1>1 DEF Rules, RfcRules, RfcErrors, RfcOthers, StallRules, CdnRules, FlagsOf
<1> DEFINE pushed == Push(linter, FetchRules(fetch))
<1>4. /\ pushed \in Linters
      /\ pushed.findings_buffer = linter.findings_buffer \cup FetchRules(fetch)
      /\ pushed.flags = linter.flags
      /\ pushed.since_new_segment = linter.since_new_segment
  <2>1. FetchRules(fetch) \in SUBSET Rules
    BY <1>3
  <2>2. /\ pushed \in Linters
        /\ pushed.findings_buffer = linter.findings_buffer \cup FetchRules(fetch)
        /\ pushed.flags = linter.flags \cup FlagsOf(FetchRules(fetch))
        /\ pushed.since_new_segment = linter.since_new_segment
    BY <2>1, PushLinter
  <2> QED
    BY <1>3, <2>2
<1>5. cdn = [pushed EXCEPT !.flags = pushed.flags \cup FetchFlags(fetch)]
  BY DEF OnCdnHeaders
<1> HIDE DEF pushed, cdn
<1>6. /\ cdn \in Linters
      /\ cdn.findings_buffer = linter.findings_buffer \cup FetchRules(fetch)
      /\ cdn.flags = linter.flags \cup FetchFlags(fetch)
      /\ cdn.since_new_segment = linter.since_new_segment
  BY <1>2, <1>4, <1>5 DEF Linters, HealthFlags
<1>7. /\ drift \in SUBSET Rules /\ drift \subseteq {"PDT_WIRE_DRIFT"}
      /\ FlagsOf(drift) \subseteq {"rfc_violation"}
  BY DEF When, Rules, RfcRules, RfcOthers, RfcErrors, StallRules, FlagsOf
<1>8. after = Push(cdn, drift)
  BY DEF LintPdtWireDrift, cdn
<1> HIDE DEF drift, after
<1>9. /\ after \in Linters
      /\ after.findings_buffer = linter.findings_buffer \cup FetchRules(fetch) \cup drift
      /\ after.flags = linter.flags \cup FetchFlags(fetch) \cup FlagsOf(drift)
      /\ after.since_new_segment = linter.since_new_segment
  BY <1>6, <1>7, <1>8, PushLinter
<1>10. /\ "CACHE_MISS" \in after.findings_buffer
            <=> "CACHE_MISS" \in linter.findings_buffer \/ fetch.verdict = "Miss"
       /\ "TTFB_HIGH" \in after.findings_buffer
            <=> "TTFB_HIGH" \in linter.findings_buffer \/ fetch.ttfb = "high"
       /\ "ORIGIN_STALL" \in after.findings_buffer
            => "ORIGIN_STALL" \in linter.findings_buffer
  BY <1>1, <1>7, <1>9 DEF CdnRules
<1>11. /\ "cdn_miss" \in after.flags
            <=> "cdn_miss" \in linter.flags \/ fetch.verdict = "Miss"
       /\ "high_ttfb" \in after.flags
            <=> "high_ttfb" \in linter.flags \/ fetch.ttfb = "high"
       /\ linter.flags \subseteq after.flags
       /\ "origin_stall" \in after.flags => "origin_stall" \in linter.flags
  BY <1>2, <1>7, <1>9
<1> QED
  BY <1>9, <1>10, <1>11 DEF after

\* on_cdn_headers raises only the flags of the fetch.
LEMMA CdnHeadersLinter ==
  ASSUME NEW linter \in Linters, NEW fetch \in Fetches
  PROVE  LET after == OnCdnHeaders(linter, fetch)
         IN  /\ after \in Linters
             /\ linter.flags \subseteq after.flags
             /\ after.flags \subseteq linter.flags \cup {"cdn_miss", "high_ttfb"}
<1> DEFINE pushed == Push(linter, FetchRules(fetch))
           after == OnCdnHeaders(linter, fetch)
<1>1. FetchRules(fetch) \subseteq CdnRules
  BY DEF FetchRules, When, CdnRules
<1>2. FetchRules(fetch) \in SUBSET Rules /\ FlagsOf(FetchRules(fetch)) = {}
  BY <1>1 DEF Rules, RfcRules, RfcErrors, RfcOthers, StallRules, CdnRules, FlagsOf
<1>3. pushed \in Linters /\ pushed.flags = linter.flags
  <2>1. FetchRules(fetch) \in SUBSET Rules
    BY <1>2
  <2>2. pushed \in Linters /\ pushed.flags = linter.flags \cup FlagsOf(FetchRules(fetch))
    BY <2>1, PushLinter
  <2> QED
    BY <1>2, <2>2
<1>4. after = [pushed EXCEPT !.flags = pushed.flags \cup FetchFlags(fetch)]
  BY DEF OnCdnHeaders
<1>5. FetchFlags(fetch) \subseteq {"cdn_miss", "high_ttfb"}
  BY DEF FetchFlags, When
<1> HIDE DEF pushed, after
<1>6. after \in Linters /\ after.flags = linter.flags \cup FetchFlags(fetch)
  BY <1>3, <1>4, <1>5 DEF Linters, HealthFlags
<1> QED
  BY <1>5, <1>6 DEF after

\* What a cycle's end does: the flush empties the buffer, only rfc_violation
\* may fall before the health is computed, and only the per-cycle flags after.
LEMMA CycleEndLinter ==
  ASSUME NEW linter \in Linters
  PROVE  LET flushed == ClearRfcFlagIfClean(TakeFindings(linter))
         IN  /\ flushed.flags = linter.flags \ {"rfc_violation"}
             /\ AfterHealth(flushed) \in Linters
             /\ AfterHealth(flushed).findings_buffer = {}
             /\ AfterHealth(flushed).since_new_segment = linter.since_new_segment
             /\ AfterHealth(flushed).flags
                  = linter.flags \ {"rfc_violation", "cdn_miss", "high_ttfb"}
<1>1. /\ TakeFindings(linter) \in Linters
      /\ TakeFindings(linter).findings_buffer = {}
      /\ TakeFindings(linter).flags = linter.flags
      /\ TakeFindings(linter).since_new_segment = linter.since_new_segment
  BY DEF TakeFindings, Linters
<1> DEFINE taken == TakeFindings(linter)
           flushed == ClearRfcFlagIfClean(taken)
<1>2. flushed = [taken EXCEPT !.flags = taken.flags \ {"rfc_violation"}]
  BY <1>1 DEF ClearRfcFlagIfClean, Linters
<1> HIDE DEF taken
<1>3. /\ flushed \in Linters
      /\ flushed.findings_buffer = {}
      /\ flushed.flags = linter.flags \ {"rfc_violation"}
      /\ flushed.since_new_segment = linter.since_new_segment
  BY <1>1, <1>2 DEF Linters, taken
<1> HIDE DEF flushed
<1>4. /\ AfterHealth(flushed) \in Linters
      /\ AfterHealth(flushed).findings_buffer = {}
      /\ AfterHealth(flushed).flags
           = linter.flags \ {"rfc_violation", "cdn_miss", "high_ttfb"}
      /\ AfterHealth(flushed).since_new_segment = linter.since_new_segment
  BY <1>3 DEF AfterHealth, Linters
<1> QED
  BY <1>3, <1>4 DEF flushed, taken

-----------------------------------------------------------------------------
(* What a linter remembers of earlier playlists and segments, and the three *)
(* findings that accuse the packager of stepping back from it.              *)
SameMemory(after, linter) ==
  /\ after.last_media_sequence = linter.last_media_sequence
  /\ after.last_highest_seq = linter.last_highest_seq
  /\ after.last_discontinuity_seq = linter.last_discontinuity_seq
StepsBack == {"MEDIA_SEQUENCE_REGRESS", "DISCONTINUITY_SEQ", "SEQ_REGRESS"}
Accuses(linter) == linter.findings_buffer \cap StepsBack

\* Time, the stall check, the fetch and the end of a cycle leave the memory
\* alone and accuse nobody.
LEMMA AgedMemory ==
  ASSUME NEW linter \in Linters, NEW ticks
  PROVE  /\ SameMemory(Aged(linter, ticks), linter)
         /\ Accuses(Aged(linter, ticks)) = Accuses(linter)
BY DEF Aged, SameMemory, Accuses, Linters

LEMMA PushMemory ==
  ASSUME NEW linter \in Linters, NEW rules
  PROVE  /\ SameMemory(Push(linter, rules), linter)
         /\ Accuses(Push(linter, rules)) = Accuses(linter) \cup (rules \cap StepsBack)
BY DEF Push, SameMemory, Accuses, Linters

LEMMA StallingMemory ==
  ASSUME NEW linter \in Linters, NEW target_duration
  PROVE  /\ SameMemory(CheckStalling(linter, target_duration), linter)
         /\ Accuses(CheckStalling(linter, target_duration)) = Accuses(linter)
<1>1. StallRules \cap StepsBack = {}
  BY DEF StallRules, StepsBack
<1> QED
  BY <1>1, PushMemory DEF CheckStalling, SameMemory

LEMMA FetchMemory ==
  ASSUME NEW linter \in Linters, NEW fetch \in Fetches
  PROVE  LET after == LintPdtWireDrift(OnCdnHeaders(linter, fetch), fetch)
         IN  SameMemory(after, linter) /\ Accuses(after) = Accuses(linter)
<1> DEFINE pushed == Push(linter, FetchRules(fetch))
           headers == OnCdnHeaders(linter, fetch)
           drift == When(fetch.drift, "PDT_WIRE_DRIFT")
<1>1. FetchRules(fetch) \cap StepsBack = {} /\ FetchRules(fetch) \in SUBSET Rules
      /\ drift \cap StepsBack = {}
  BY DEF FetchRules, When, StepsBack, Rules, CdnRules
<1>2. pushed \in Linters /\ SameMemory(pushed, linter) /\ Accuses(pushed) = Accuses(linter)
  <2> HIDE DEF drift, headers
  <2>1. pushed \in Linters
    BY <1>1, PushLinter
  <2>2. SameMemory(pushed, linter)
          /\ Accuses(pushed) = Accuses(linter) \cup (FetchRules(fetch) \cap StepsBack)
    BY PushMemory
  <2> QED
    BY <1>1, <2>1, <2>2
<1>3. headers \in Linters
  BY CdnHeadersLinter
<1>4. headers = [pushed EXCEPT !.flags = @ \cup FetchFlags(fetch)]
  BY DEF OnCdnHeaders
<1> HIDE DEF pushed, headers, drift
<1>5. SameMemory(headers, linter) /\ Accuses(headers) = Accuses(linter)
  BY <1>2, <1>4 DEF SameMemory, Accuses, Linters
<1>6. SameMemory(Push(headers, drift), headers)
      /\ Accuses(Push(headers, drift)) = Accuses(headers)
  BY <1>1, <1>3, PushMemory
<1> QED
  BY <1>5, <1>6 DEF SameMemory, LintPdtWireDrift, headers, drift

LEMMA CycleEndMemory ==
  ASSUME NEW linter \in Linters
  PROVE  LET after == AfterHealth(ClearRfcFlagIfClean(TakeFindings(linter)))
         IN  SameMemory(after, linter) /\ Accuses(after) = {}
<1> DEFINE taken == TakeFindings(linter)
           clear == ClearRfcFlagIfClean(taken)
<1>1. taken \in Linters /\ SameMemory(taken, linter) /\ taken.findings_buffer = {}
  BY DEF TakeFindings, SameMemory, Linters
<1> HIDE DEF taken
<1>2. clear \in Linters /\ SameMemory(clear, linter) /\ clear.findings_buffer = {}
  BY <1>1 DEF ClearRfcFlagIfClean, SameMemory, Linters
<1> HIDE DEF clear
<1>3. SameMemory(AfterHealth(clear), linter) /\ AfterHealth(clear).findings_buffer = {}
  BY <1>2 DEF AfterHealth, SameMemory, Linters
<1> QED
  BY <1>3 DEF Accuses, clear, taken

\* A playlist is accused of a step back only if it took one.
LEMMA RefreshMemory ==
  ASSUME NEW linter \in Linters, NEW media_sequence \in Nat,
         NEW target_duration \in Nat, NEW segment_count \in Nat
  PROVE  LET after == OnPlaylistRefresh(linter, media_sequence, target_duration, segment_count)
         IN  /\ after.last_media_sequence = media_sequence
             /\ after.last_highest_seq = linter.last_highest_seq
             /\ after.last_discontinuity_seq = linter.last_discontinuity_seq
             /\ Accuses(after) \subseteq Accuses(linter) \cup {"MEDIA_SEQUENCE_REGRESS"}
             /\ "MEDIA_SEQUENCE_REGRESS" \in Accuses(after) =>
                  \/ "MEDIA_SEQUENCE_REGRESS" \in Accuses(linter)
                  \/ media_sequence < linter.last_media_sequence
<1> DEFINE rules == RefreshRules(linter, media_sequence, target_duration, segment_count)
           pushed == Push(linter, rules)
           after == OnPlaylistRefresh(linter, media_sequence, target_duration, segment_count)
<1>1. /\ rules \cap StepsBack \subseteq {"MEDIA_SEQUENCE_REGRESS"}
      /\ "MEDIA_SEQUENCE_REGRESS" \in rules => media_sequence < linter.last_media_sequence
  BY DEF RefreshRules, When, StepsBack
<1>2. SameMemory(pushed, linter) /\ Accuses(pushed) = Accuses(linter) \cup (rules \cap StepsBack)
  BY PushMemory
<1>3. after = [pushed EXCEPT !.since_refresh = 0, !.last_media_sequence = media_sequence]
  BY DEF OnPlaylistRefresh
<1>4. {"last_media_sequence", "last_highest_seq", "last_discontinuity_seq", "findings_buffer"}
        \subseteq DOMAIN pushed
  BY DEF Push, Linters
<1> HIDE DEF rules, pushed, after
<1>5. /\ after.last_media_sequence = media_sequence
      /\ after.last_highest_seq = linter.last_highest_seq
      /\ after.last_discontinuity_seq = linter.last_discontinuity_seq
      /\ after.findings_buffer = pushed.findings_buffer
  BY <1>2, <1>3, <1>4 DEF SameMemory
<1>6. Accuses(after) = Accuses(linter) \cup (rules \cap StepsBack)
  BY <1>2, <1>5 DEF Accuses
<1>7. "MEDIA_SEQUENCE_REGRESS" \in Accuses(after) =>
        "MEDIA_SEQUENCE_REGRESS" \in Accuses(linter) \/ media_sequence < linter.last_media_sequence
  BY <1>1, <1>6
<1>8. Accuses(after) \subseteq Accuses(linter) \cup {"MEDIA_SEQUENCE_REGRESS"}
  BY <1>1, <1>6
<1> QED
  BY <1>5, <1>7, <1>8 DEF after

\* A segment is accused of a step back only if it, or its discontinuity number,
\* took one.
LEMMA NewSegmentMemory ==
  ASSUME NEW linter \in Linters, NEW seq \in Nat, NEW too_long,
         NEW discontinuity \in BOOLEAN, NEW discontinuity_sequence \in Nat
  PROVE  LET after == OnNewSegment(linter, seq, too_long, discontinuity, discontinuity_sequence)
         IN  /\ after.last_media_sequence = linter.last_media_sequence
             /\ after.last_highest_seq = MaxSeqOf(seq, linter.last_highest_seq)
             /\ after.last_discontinuity_seq
                  \in {linter.last_discontinuity_seq, discontinuity_sequence}
             /\ Accuses(after) \subseteq Accuses(linter) \cup {"DISCONTINUITY_SEQ", "SEQ_REGRESS"}
             /\ "DISCONTINUITY_SEQ" \in Accuses(after) =>
                  \/ "DISCONTINUITY_SEQ" \in Accuses(linter)
                  \/ discontinuity_sequence < linter.last_discontinuity_seq
             /\ "SEQ_REGRESS" \in Accuses(after) =>
                  "SEQ_REGRESS" \in Accuses(linter) \/ seq < linter.last_highest_seq
<1> DEFINE rules == SegmentRules(linter, seq, too_long, discontinuity, discontinuity_sequence)
           pushed == Push(linter, rules)
           after == OnNewSegment(linter, seq, too_long, discontinuity, discontinuity_sequence)
           number == IF discontinuity /\ discontinuity_sequence > 0
                     THEN discontinuity_sequence ELSE pushed.last_discontinuity_seq
<1>1. /\ rules \cap StepsBack \subseteq {"DISCONTINUITY_SEQ", "SEQ_REGRESS"}
      /\ "DISCONTINUITY_SEQ" \in rules => discontinuity_sequence < linter.last_discontinuity_seq
      /\ "SEQ_REGRESS" \in rules => seq < linter.last_highest_seq
  BY DEF SegmentRules, When, StepsBack, Regresses
<1>2. SameMemory(pushed, linter) /\ Accuses(pushed) = Accuses(linter) \cup (rules \cap StepsBack)
  BY PushMemory
<1>3. after = [pushed EXCEPT
                 !.last_highest_seq = MaxSeqOf(seq, @), !.last_discontinuity_seq = number,
                 !.since_new_segment = 0, !.flags = @ \ {"origin_stall"}]
  <2>1. "last_discontinuity_seq" \in DOMAIN pushed
    BY DEF Push, Linters
  <2> QED
    BY <2>1 DEF OnNewSegment
<1>4. {"last_media_sequence", "last_highest_seq", "last_discontinuity_seq", "findings_buffer"}
        \subseteq DOMAIN pushed
  BY DEF Push, Linters
<1>5. number \in {pushed.last_discontinuity_seq, discontinuity_sequence}
  OBVIOUS
<1> HIDE DEF rules, pushed, after, number
<1>6. /\ after.last_media_sequence = linter.last_media_sequence
      /\ after.last_highest_seq = MaxSeqOf(seq, linter.last_highest_seq)
      /\ after.last_discontinuity_seq \in {linter.last_discontinuity_seq, discontinuity_sequence}
      /\ after.findings_buffer = pushed.findings_buffer
  BY <1>2, <1>3, <1>4, <1>5 DEF SameMemory
<1>7. Accuses(after) = Accuses(linter) \cup (rules \cap StepsBack)
  BY <1>2, <1>6 DEF Accuses
<1>8. /\ "DISCONTINUITY_SEQ" \in Accuses(after) =>
           "DISCONTINUITY_SEQ" \in Accuses(linter)
             \/ discontinuity_sequence < linter.last_discontinuity_seq
      /\ "SEQ_REGRESS" \in Accuses(after) =>
           "SEQ_REGRESS" \in Accuses(linter) \/ seq < linter.last_highest_seq
  BY <1>1, <1>7
<1>9. Accuses(after) \subseteq Accuses(linter) \cup {"DISCONTINUITY_SEQ", "SEQ_REGRESS"}
  BY <1>1, <1>7
<1> QED
  BY <1>6, <1>8, <1>9 DEF after
=============================================================================
