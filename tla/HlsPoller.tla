------------------------------- MODULE HlsPoller -------------------------------
(***************************************************************************)
(* The HLS poll loop (src/src/engine/poller/hls_poll.rs) against a live    *)
(* origin.  The poller is one task; what runs beside it is the packager,   *)
(* which publishes, slides its window, ends the event or restarts while    *)
(* the poller awaits a response, so a playlist is stale while its segments *)
(* are being fetched.                                                      *)
(*                                                                         *)
(* One cycle of run_hls_loop is Wake (the sleep ends, check_stalling), at  *)
(* most two playlist fetches (FetchMaster, FetchMedia: the first half of   *)
(* handle_media), one ProcessSegment per segment from the start index, and *)
(* EndCycle (status, flush_findings, clear_rfc_flag_if_clean and           *)
(* compute_health, with no await between them).                            *)
(*                                                                         *)
(* Playlists with LL-HLS tags are left out of this module.  Time passes in *)
(* ticks of half a second while the poller sleeps or awaits.               *)
(***************************************************************************)
EXTENDS SpecLinter, FiniteSets

CONSTANTS
  SourceIsMaster,   \* is the given URL that of a master playlist?
  TargetDuration,   \* EXT-X-TARGETDURATION of the media playlist, in seconds
  Interval,         \* the --interval option in ticks, None when absent
  Window,           \* most segments the packager keeps in its playlist
  LongSegments,     \* media sequences of segments longer than the target + 0.5 s
  Discontinuities,  \* media sequences of segments after an EXT-X-DISCONTINUITY
  SegmentFetches,   \* how a successful segment fetch may look (see Fetches)
  MaxSeq,           \* bound: the packager publishes no media sequence above it
  MaxDelay,         \* bound: ticks one response may take
  MaxRestarts,      \* bound: packager restarts, each back to media sequence 0
  MaxPollErrors,    \* bound: failed playlist polls
  MaxSegmentErrors  \* bound: failed segment fetches

ASSUME HlsAssumption ==
  /\ SourceIsMaster \in BOOLEAN
  /\ TargetDuration \in Nat
  /\ Interval \in Option(Nat \ {0})
  /\ Window \in Nat \ {0}
  /\ LongSegments \subseteq Nat /\ Discontinuities \subseteq Nat
  /\ SegmentFetches \subseteq Fetches
  /\ MaxSeq \in Nat /\ MaxDelay \in Nat /\ MaxRestarts \in Nat
  /\ MaxPollErrors \in Nat /\ MaxSegmentErrors \in Nat

VARIABLES
  origin,              \* the packager's current media playlist
  restarts,            \* how often the packager has restarted
  pc,                  \* where the poll loop is
  playlist,            \* the media playlist of the last successful fetch
  index,               \* of the next segment of `playlist` to process
  poll_ok,             \* did this cycle's poll_once return Ok?
  has_master,
  last_seen_seq,
  target_duration,
  consecutive_errors,
  ended,               \* ll_hls_state.ended
  linter,
  status,              \* of the last Status event
  health,              \* deductions of the last Health event
  reported,            \* rules of the findings the cycle that just ended flushed
  poll_errors, segment_errors,     \* the bounds' counters
  delivered,           \* history: sequences of the Segment events
  failed,              \* history: sequences whose fetch failed at least once
  skip_reported        \* history: sequences a SEQ_SKIP finding spoke of

originVars == <<origin, restarts>>
loopVars == <<has_master, target_duration, consecutive_errors, status, health, reported>>
vars == <<origin, restarts, pc, playlist, index, poll_ok, has_master, last_seen_seq,
          target_duration, consecutive_errors, ended, linter, status, health,
          reported, poll_errors, segment_errors, delivered, failed, skip_reported>>

-----------------------------------------------------------------------------
(* The packager.                                                           *)

Playlists == [media_sequence : Nat, segments : 0..Window,
              discontinuity_sequence : Nat, end_list : BOOLEAN]

EmptyPlaylist == [media_sequence |-> 0, segments |-> 0,
                  discontinuity_sequence |-> 0, end_list |-> FALSE]

Edge(p) == p.media_sequence + p.segments       \* the first unpublished sequence

\* A full window slides: its first segment, and the discontinuity tag of that
\* segment, leave the playlist.
Publish ==
  /\ ~origin.end_list
  /\ Edge(origin) <= MaxSeq
  /\ origin' = IF origin.segments < Window
               THEN [origin EXCEPT !.segments = @ + 1]
               ELSE [origin EXCEPT
                       !.media_sequence = @ + 1,
                       !.discontinuity_sequence =
                          IF origin.media_sequence \in Discontinuities THEN @ + 1 ELSE @]
  /\ UNCHANGED <<restarts, pc, playlist, index, poll_ok, has_master, last_seen_seq,
                 target_duration, consecutive_errors, ended, linter, status, health,
                 reported, poll_errors, segment_errors, delivered, failed,
                 skip_reported>>

EndEvent ==
  /\ ~origin.end_list
  /\ origin' = [origin EXCEPT !.end_list = TRUE]
  /\ UNCHANGED <<restarts, pc, playlist, index, poll_ok, has_master, last_seen_seq,
                 target_duration, consecutive_errors, ended, linter, status, health,
                 reported, poll_errors, segment_errors, delivered, failed,
                 skip_reported>>

Restart ==
  /\ restarts < MaxRestarts
  /\ restarts' = restarts + 1
  /\ origin' = EmptyPlaylist
  /\ UNCHANGED <<pc, playlist, index, poll_ok, has_master, last_seen_seq,
                 target_duration, consecutive_errors, ended, linter, status, health,
                 reported, poll_errors, segment_errors, delivered, failed,
                 skip_reported>>

-----------------------------------------------------------------------------
(* The poll loop.                                                          *)

\* `target_duration: u64 = 6` until a playlist has been read.
DefaultTargetDuration == 6

\* The sleep between two polls: --interval, else half the target duration,
\* else two seconds.
Wait == IF Interval # None THEN Interval
        ELSE IF target_duration = 0 THEN 2 * TicksPerSecond ELSE target_duration

\* base_fetch: the source URL is fetched until a master playlist was read.
FirstFetch == IF SourceIsMaster /\ ~has_master THEN "master" ELSE "media"

\* The sleep ends and the next cycle begins with the stall check.
Wake ==
  /\ pc = "sleep"
  /\ LET aged == Aged(linter, Wait)
     IN  linter' = IF ended THEN aged ELSE CheckStalling(aged, target_duration)
  /\ reported' = {}
  /\ pc' = FirstFetch
  /\ UNCHANGED <<originVars, has_master, target_duration, consecutive_errors, status,
                 health, playlist, index, poll_ok, last_seen_seq, ended,
                 poll_errors, segment_errors, delivered, failed, skip_reported>>

\* poll_once on the source URL: a master playlist.  The variant's playlist is
\* fetched next, from this cycle on.
FetchMaster ==
  /\ pc = "master"
  /\ \E d \in 0..MaxDelay : linter' = Aged(linter, d)
  /\ has_master' = TRUE
  /\ last_seen_seq' = None
  /\ pc' = "media"
  /\ UNCHANGED <<originVars, target_duration, consecutive_errors, status, health,
                 reported, playlist, index, poll_ok, ended, poll_errors,
                 segment_errors, delivered, failed, skip_reported>>

\* Variants of StartIndex: the last segment is fetched again; a window that
\* slid past it is not noticed (the subtraction wraps below zero).
StartIndexRepeats(p) ==
  IF last_seen_seq = None \/ last_seen_seq < p.media_sequence
  THEN p.segments - 1
  ELSE last_seen_seq - p.media_sequence
StartIndexUnderflows(p) ==
  IF last_seen_seq = None THEN p.segments - 1
  ELSE last_seen_seq + 1 - p.media_sequence

\* Where handle_media starts in a fetched playlist: at the live edge on the
\* first visit and when the window slid past the last processed segment,
\* else right behind that segment.
StartIndex(p) ==
  IF last_seen_seq = None \/ last_seen_seq + 1 < p.media_sequence
  THEN p.segments - 1
  ELSE last_seen_seq + 1 - p.media_sequence

\* Variant: the newest segment is left for later.
HasOlderSegments(p) == p.segments > 0 /\ StartIndex(p) + 1 < p.segments
HasNewSegments(p) == p.segments > 0 /\ StartIndex(p) < p.segments

\* A media playlist arrives: the part of handle_media before the segments.
FetchMedia ==
  /\ pc = "media"
  /\ \E d \in 0..MaxDelay :
       linter' = OnPlaylistRefresh(Aged(linter, d), origin.media_sequence,
                                   TargetDuration, origin.segments)
  /\ playlist' = origin
  /\ ended' = origin.end_list
  /\ poll_ok' = TRUE
  /\ index' = IF HasNewSegments(origin) THEN StartIndex(origin) ELSE 0
  /\ pc' = IF HasNewSegments(origin) THEN "segment" ELSE "report"
  /\ UNCHANGED <<originVars, loopVars, last_seen_seq, poll_errors, segment_errors,
                 delivered, failed, skip_reported>>

\* poll_once returns Err: no response, an IPTV list, no playlist, no variant.
FetchFailed ==
  /\ pc \in {"master", "media"}
  /\ poll_errors < MaxPollErrors
  /\ poll_errors' = poll_errors + 1
  /\ \E d \in 0..MaxDelay : linter' = Aged(linter, d)
  /\ poll_ok' = FALSE
  /\ pc' = "report"
  /\ UNCHANGED <<originVars, loopVars, playlist, index, last_seen_seq, ended,
                 segment_errors, delivered, failed, skip_reported>>

Current == playlist.media_sequence + index

\* on_new_segment runs before the segment is fetched, whatever comes of that.
Announced ==
  OnNewSegment(linter, Current, Current \in LongSegments,
               Current \in Discontinuities, playlist.discontinuity_sequence)

NextSegment ==
  /\ index' = index + 1
  /\ pc' = IF index + 1 < playlist.segments THEN "segment" ELSE "report"
  /\ skip_reported' =
       IF Skips(linter, Current)
       THEN skip_reported \cup (linter.last_highest_seq + 1)..(Current - 1)
       ELSE skip_reported

\* process_segment returns Ok: the Segment event has been sent.
ProcessSegment ==
  /\ pc = "segment"
  /\ \E d \in 0..MaxDelay, fetch \in SegmentFetches :
       linter' = LintPdtWireDrift(OnCdnHeaders(Aged(Announced, d), fetch), fetch)
  /\ last_seen_seq' = Current
  /\ delivered' = delivered \cup {Current}
  /\ NextSegment
  /\ UNCHANGED <<originVars, loopVars, playlist, poll_ok, ended, poll_errors,
                 segment_errors, failed>>

\* process_segment returns Err; the loop goes on with the next segment.
SegmentFailed ==
  /\ pc = "segment"
  /\ segment_errors < MaxSegmentErrors
  /\ segment_errors' = segment_errors + 1
  /\ \E d \in 0..MaxDelay : linter' = Aged(Announced, d)
  /\ failed' = failed \cup {Current}
  /\ NextSegment
  /\ UNCHANGED <<originVars, loopVars, playlist, poll_ok, last_seen_seq, ended,
                 poll_errors, delivered>>

\* clear_rfc_flag_if_clean looks at the buffer flush_findings has just drained.
Flushed == ClearRfcFlagIfClean(TakeFindings(linter))

\* Variant: a good poll does not reset the count.
ErrorsNeverReset == IF poll_ok THEN consecutive_errors ELSE consecutive_errors + 1
ErrorsAfter == IF poll_ok THEN 0 ELSE consecutive_errors + 1

StatusAfter ==
  CASE ErrorsAfter = 0 -> IF ended THEN "vod" ELSE "live"
    [] ErrorsAfter \in 1..2 -> "degraded"
    [] OTHER -> "error"

\* The rest of the cycle, without an await.  The playlist is dropped: it was
\* local to poll_once.
EndCycle ==
  /\ pc = "report"
  /\ target_duration' = IF poll_ok THEN TargetDuration ELSE target_duration
  /\ consecutive_errors' = ErrorsAfter
  /\ status' = StatusAfter
  /\ reported' = linter.findings_buffer
  /\ health' = Deductions(Flushed)
  /\ linter' = AfterHealth(Flushed)
  /\ pc' = "sleep"
  /\ playlist' = EmptyPlaylist /\ index' = 0 /\ poll_ok' = FALSE
  /\ UNCHANGED <<originVars, has_master, last_seen_seq, ended,
                 poll_errors, segment_errors, delivered, failed, skip_reported>>

-----------------------------------------------------------------------------
Init ==
  /\ \E published \in 0..Window : origin = [EmptyPlaylist EXCEPT !.segments = published]
  /\ Edge(origin) <= MaxSeq + 1
  /\ restarts = 0
  /\ has_master = FALSE
  /\ pc = FirstFetch
  /\ playlist = EmptyPlaylist /\ index = 0 /\ poll_ok = FALSE
  /\ last_seen_seq = None
  /\ target_duration = DefaultTargetDuration
  /\ consecutive_errors = 0
  /\ ended = FALSE
  /\ linter = NewLinter
  /\ status = "connecting" /\ health = {} /\ reported = {}
  /\ poll_errors = 0 /\ segment_errors = 0
  /\ delivered = {} /\ failed = {} /\ skip_reported = {}

Poller ==
  \/ Wake \/ FetchMaster \/ FetchMedia \/ FetchFailed
  \/ ProcessSegment \/ SegmentFailed \/ EndCycle

Packager == Publish \/ EndEvent \/ Restart

Next == Poller \/ Packager

\* The poller's task is scheduled and its requests end (they have timeouts).
\* Nothing obliges the packager to do anything.
Spec == Init /\ [][Next]_vars /\ WF_vars(Poller)

-----------------------------------------------------------------------------
TypeOK ==
  /\ origin \in Playlists /\ playlist \in Playlists
  /\ restarts \in 0..MaxRestarts
  /\ pc \in {"sleep", "master", "media", "segment", "report"}
  /\ index \in 0..Window
  /\ poll_ok \in BOOLEAN /\ has_master \in BOOLEAN /\ ended \in BOOLEAN
  /\ last_seen_seq \in Option(Nat)
  /\ target_duration \in {TargetDuration, DefaultTargetDuration}
  /\ consecutive_errors \in 0..MaxPollErrors
  /\ linter \in Linters
  /\ status \in {"connecting", "live", "vod", "degraded", "error"}
  /\ health \in SUBSET HealthFlags /\ reported \in SUBSET Rules
  /\ poll_errors \in 0..MaxPollErrors /\ segment_errors \in 0..MaxSegmentErrors
  /\ delivered \in SUBSET Nat /\ failed \in SUBSET Nat /\ skip_reported \in SUBSET Nat

\* A Segment event is sent at most once per media sequence and in increasing
\* order, whatever fails, slides away or restarts in between: start_idx never
\* goes back behind a segment that was delivered.
DeliveredInOrder ==
  [][ProcessSegment => \A earlier \in delivered : earlier < Current]_vars

\* The sequence checks accuse the packager only of what it did.  SEQ_REGRESS,
\* however, also shows after two segment failures that the poller itself
\* retries (on_new_segment runs again for an already announced sequence).
NoFalseAlarm ==
  /\ "MEDIA_SEQUENCE_REGRESS" \in linter.findings_buffer => restarts > 0
  /\ "DISCONTINUITY_SEQ" \in linter.findings_buffer => restarts > 0
  /\ "SEQ_REGRESS" \in linter.findings_buffer
       => restarts > 0 \/ \E s, t \in failed : s < t

Attempted == delivered \cup failed

\* Segments lost between two polls are noticed: two neighbouring sequences
\* that were never tried, between ones that were, were reported by SEQ_SKIP
\* (the tolerance lets a single one pass), whichever of "slid window",
\* "first visit" or "retry" chose the start index.  (After a restart the
\* sequences start over and the old highest one hides the new gaps.)
LossIsReported ==
  restarts = 0 => \A low, high \in Attempted : \A s \in low..(high - 2) :
    {s, s + 1} \cap Attempted = {} => {s, s + 1} \subseteq skip_reported

\* What a cycle's Health event deducts agrees with the findings that cycle
\* flushed: a cache miss or a slow first byte is deducted in its own cycle and
\* in no later one, and a stall found is deducted unless a segment came after.
HealthAgreesWithFindings ==
  pc = "sleep" =>
    /\ "cdn_miss" \in health <=> "CACHE_MISS" \in reported
    /\ "high_ttfb" \in health <=> "TTFB_HIGH" \in reported
    /\ "ORIGIN_STALL" \in reported =>
         ("origin_stall" \in health \/ linter.since_new_segment <= MaxDelay)

\* A Health event deducts for a stalling origin or for the cycle's own fetches,
\* never for both, so that without an ABR penalty its score is at least 80.  (It
\* is then never below the 70 that the shi_below_70 alert of webhook.rs:371
\* waits for.)
HealthBlamesOneSide == Score(health) >= 80

\* The poller delivers the newest segment of a packager that has stopped
\* publishing, however many (finitely many) polls and segment fetches fail
\* before: a failed newest segment is retried until it comes.
CatchesUp ==
  <>[](restarts > 0 \/ origin.segments = 0 \/ Edge(origin) - 1 \in delivered)

\* A packager that has stopped publishing without EXT-X-ENDLIST is seen as
\* stalling, once and for all, if any segment was ever announced.
StallIsNoticed ==
  <>[](ended \/ Attempted = {} \/ TargetDuration = 0 \/ "origin_stall" \in health)

\* Errors do not stick: the status gets back to live or vod.
StatusRecovers == <>[](status \in {"live", "vod"})

-----------------------------------------------------------------------------
(* What the repository says of this loop, and the code does not do.        *)

\* "Do not advance last_seen_seq - retry this seq on the next cycle."
\* (hls_poll.rs:703)  A failed segment stays ahead of last_seen_seq until it
\* was delivered or slid out of the playlist.
FailedSegmentIsRetried ==
  restarts = 0 =>
    \A s \in failed \ delivered :
      last_seen_seq = None \/ last_seen_seq < s \/ s < origin.media_sequence

\* "Linter score (TUI) uses four flags: RFC -15, ..." (docs/src/limits.md:12)
\* A cycle that found an RFC error deducts for it.
RfcErrorsAreDeducted ==
  pc = "sleep" /\ reported \cap RfcErrors # {} => "rfc_violation" \in health
=============================================================================
