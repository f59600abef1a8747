---------------------------- MODULE HlsPollerProofs ----------------------------
(***************************************************************************)
(* Proofs about the HLS poll loop, for every value of the constants.  Type *)
(* correctness, delivery in order, and agreement of the Health event with  *)
(* the findings of its cycle follow from one inductive invariant, Inv.     *)
(* That no loss goes unreported and no alarm is false follows from a       *)
(* second one on top of it, History: what the linter remembers against     *)
(* what the packager published and the loop tried.                         *)
(***************************************************************************)
EXTENDS HlsPoller, SpecLinterProofs

\* A failed poll on its way to EndCycle has been counted by the bound, and not
\* yet by the loop.
ErrorsCounted ==
  /\ pc \in {"sleep", "master", "media"} => ~poll_ok
  /\ pc = "segment" => poll_ok
  /\ consecutive_errors <= poll_errors
  /\ pc = "report" /\ ~poll_ok => consecutive_errors + 1 <= poll_errors

\* last_seen_seq is the newest delivered segment, and what is processed next
\* lies behind it.  Reading a master playlist resets it, which is harmless
\* because that happens before anything was delivered.
DeliveryOrder ==
  /\ \A s \in delivered : s <= last_seen_seq
  /\ ~has_master => (pc # "media" /\ pc # "segment" /\ last_seen_seq = None) \/ ~SourceIsMaster
  /\ pc = "master" => last_seen_seq = None
  /\ pc = "segment" => last_seen_seq < Current /\ index < playlist.segments

\* While a cycle runs, the per-cycle flags and the stall flag go with the
\* findings that raised them.
FlagsMatchFindings ==
  /\ "cdn_miss" \in linter.flags <=> "CACHE_MISS" \in linter.findings_buffer
  /\ "high_ttfb" \in linter.flags <=> "TTFB_HIGH" \in linter.findings_buffer
  /\ "ORIGIN_STALL" \in linter.findings_buffer =>
       \/ "origin_stall" \in linter.flags
       \/ pc \in {"segment", "report"} /\ linter.since_new_segment <= MaxDelay
  /\ pc = "sleep" => linter.findings_buffer = {}

\* The stall flag falls with the first segment of a cycle, and the flags of the
\* fetches rise only after that and fall when the cycle ends.
OneSide(flags) ==
  "origin_stall" \in flags => "cdn_miss" \notin flags /\ "high_ttfb" \notin flags

FlagsBlameOneSide ==
  /\ OneSide(linter.flags)
  /\ pc \in {"sleep", "master", "media"} =>
       "cdn_miss" \notin linter.flags /\ "high_ttfb" \notin linter.flags
  /\ "rfc_violation" \notin health /\ OneSide(health)

Inv ==
  TypeOK /\ ErrorsCounted /\ DeliveryOrder /\ FlagsMatchFindings
    /\ FlagsBlameOneSide /\ HealthAgreesWithFindings

-----------------------------------------------------------------------------
(* Where handle_media starts is inside the playlist and behind the last    *)
(* delivered segment.                                                      *)
LEMMA StartIndexBounds ==
  ASSUME TypeOK, NEW p \in Playlists, HasNewSegments(p)
  PROVE  /\ StartIndex(p) \in 0..Window
         /\ StartIndex(p) < p.segments
         /\ last_seen_seq < p.media_sequence + StartIndex(p)
BY HlsAssumption DEF TypeOK, Playlists, HasNewSegments, StartIndex, Option, None

\* Wait is a number of ticks.
LEMMA WaitType == TypeOK => Wait \in Nat
BY HlsAssumption DEF TypeOK, Wait, Option, None, TicksPerSecond, DefaultTargetDuration

\* The announcement of the current segment is a linter whose stall is over.
LEMMA AnnouncedLinter ==
  ASSUME TypeOK
  PROVE  /\ Current \in Nat
         /\ Announced \in Linters
         /\ Announced.since_new_segment = 0
         /\ linter.flags \ {"origin_stall"} \subseteq Announced.flags
         /\ Announced.flags \subseteq (linter.flags \cup {"rfc_violation"}) \ {"origin_stall"}
         /\ "CACHE_MISS" \in Announced.findings_buffer
              <=> "CACHE_MISS" \in linter.findings_buffer
         /\ "TTFB_HIGH" \in Announced.findings_buffer
              <=> "TTFB_HIGH" \in linter.findings_buffer
<1> DEFINE long == Current \in LongSegments
           discontinuity == Current \in Discontinuities
           number == playlist.discontinuity_sequence
           after == OnNewSegment(linter, Current, long, discontinuity, number)
<1>1. Current \in Nat /\ linter \in Linters /\ number \in Nat
  BY HlsAssumption DEF TypeOK, Current, Playlists
<1> HIDE DEF long, discontinuity, number
<1>2. /\ after \in Linters
      /\ after.since_new_segment = 0
      /\ after.findings_buffer \ linter.findings_buffer
           \subseteq {"TARGET_DURATION", "SEQ_REGRESS", "SEQ_SKIP",
                      "DISCONTINUITY", "DISCONTINUITY_SEQ"}
      /\ linter.findings_buffer \subseteq after.findings_buffer
      /\ linter.flags \ {"origin_stall"} \subseteq after.flags
      /\ after.flags \subseteq (linter.flags \cup {"rfc_violation"}) \ {"origin_stall"}
  BY <1>1, NewSegmentLinter
<1>3. Announced = after
  BY DEF Announced, long, discontinuity, number
<1> HIDE DEF after
<1> QED
  BY <1>1, <1>2, <1>3

-----------------------------------------------------------------------------
LEMMA InitInv == Init => Inv
<1> SUFFICES ASSUME Init PROVE Inv
  OBVIOUS
<1> USE HlsAssumption
<1>1. NewLinter \in Linters /\ NewLinter.flags = {} /\ NewLinter.findings_buffer = {}
  BY DEF NewLinter, Linters, Option, None
<1>2. TypeOK
  <2>1. origin \in Playlists
    <3>1. PICK published \in 0..Window :
            origin = [EmptyPlaylist EXCEPT !.segments = published]
      BY DEF Init
    <3> QED
      BY <3>1 DEF Playlists, EmptyPlaylist
  <2>5. playlist \in Playlists
    BY DEF Init, Playlists, EmptyPlaylist
  <2>2. /\ pc \in {"sleep", "master", "media", "segment", "report"}
        /\ status \in {"connecting", "live", "vod", "degraded", "error"}
    BY DEF Init, FirstFetch
  <2>3. linter \in Linters /\ last_seen_seq \in Option(Nat)
    BY <1>1 DEF Init, Option
  <2>4. /\ restarts \in 0..MaxRestarts /\ index \in 0..Window
        /\ consecutive_errors \in 0..MaxPollErrors
        /\ poll_errors \in 0..MaxPollErrors /\ segment_errors \in 0..MaxSegmentErrors
    BY DEF Init
  <2> QED
    BY <2>1, <2>2, <2>3, <2>4, <2>5 DEF Init, TypeOK
<1>3. ErrorsCounted /\ DeliveryOrder
  BY DEF Init, ErrorsCounted, DeliveryOrder, FirstFetch
<1>4. FlagsMatchFindings /\ HealthAgreesWithFindings
  BY <1>1 DEF Init, FlagsMatchFindings, HealthAgreesWithFindings, FirstFetch
<1>5. FlagsBlameOneSide
  BY <1>1 DEF Init, FlagsBlameOneSide, OneSide
<1> QED
  BY <1>2, <1>3, <1>4, <1>5 DEF Inv

\* The packager's steps touch nothing the poller's invariant speaks of.
LEMMA PackagerInv == Inv /\ Packager => Inv'
<1> SUFFICES ASSUME Inv, Packager PROVE Inv'
  OBVIOUS
<1> USE HlsAssumption DEF Inv
<1>1. origin' \in Playlists /\ restarts' \in 0..MaxRestarts
  <2>1. CASE Publish
    <3>1. origin \in Playlists
      BY DEF TypeOK
    <3>2. CASE origin.segments < Window
      <4>1. origin.segments + 1 \in 0..Window
        BY <3>1, <3>2 DEF Playlists
      <4>2. origin' = [origin EXCEPT !.segments = origin.segments + 1]
        BY <2>1, <3>1, <3>2 DEF Publish
      <4> QED
        BY <2>1, <3>1, <4>1, <4>2 DEF Publish, TypeOK, Playlists
    <3>3. CASE ~(origin.segments < Window)
      <4> DEFINE number == IF origin.media_sequence \in Discontinuities
                           THEN origin.discontinuity_sequence + 1
                           ELSE origin.discontinuity_sequence
      <4>1. number \in Nat /\ origin.media_sequence + 1 \in Nat
        BY <3>1 DEF Playlists
      <4>2. origin' = [origin EXCEPT !.media_sequence = origin.media_sequence + 1,
                                     !.discontinuity_sequence = number]
        BY <2>1, <3>1, <3>3 DEF Publish
      <4> HIDE DEF number
      <4> QED
        BY <2>1, <3>1, <4>1, <4>2 DEF Publish, TypeOK, Playlists
    <3> QED
      BY <3>2, <3>3
  <2>2. CASE EndEvent
    BY <2>2 DEF EndEvent, TypeOK, Playlists
  <2>3. CASE Restart
    BY <2>3 DEF Restart, TypeOK, Playlists, EmptyPlaylist
  <2> QED
    BY <2>1, <2>2, <2>3 DEF Packager
<1>2. UNCHANGED <<pc, playlist, index, poll_ok, has_master, last_seen_seq,
                  target_duration, consecutive_errors, ended, linter, status, health,
                  reported, poll_errors, segment_errors, delivered, failed,
                  skip_reported>>
  BY DEF Packager, Publish, EndEvent, Restart
<1>3. TypeOK'
  BY <1>1, <1>2 DEF TypeOK
<1>4. (ErrorsCounted /\ DeliveryOrder)'
  BY <1>2 DEF ErrorsCounted, DeliveryOrder, Current
<1>5. (FlagsMatchFindings /\ HealthAgreesWithFindings)'
  BY <1>2 DEF FlagsMatchFindings, HealthAgreesWithFindings
<1>6. FlagsBlameOneSide'
  BY <1>2 DEF FlagsBlameOneSide
<1> QED
  BY <1>3, <1>4, <1>5, <1>6

LEMMA WakeInv == Inv /\ Wake => Inv'
<1> SUFFICES ASSUME Inv, Wake PROVE Inv'
  OBVIOUS
<1> USE HlsAssumption DEF Inv
<1> DEFINE aged == Aged(linter, Wait)
<1>1. /\ aged \in Linters
      /\ aged.flags = linter.flags /\ aged.findings_buffer = linter.findings_buffer
  BY WaitType, AgedLinter DEF TypeOK
<1>2. target_duration \in Nat
  BY DEF TypeOK, DefaultTargetDuration
<1>3. linter' = aged \/ linter' = CheckStalling(aged, target_duration)
  BY DEF Wake
<1> HIDE DEF aged
<1>4. /\ linter' \in Linters
      /\ \/ linter'.flags = aged.flags /\ linter'.findings_buffer = aged.findings_buffer
         \/ /\ linter'.findings_buffer = aged.findings_buffer \cup {"ORIGIN_STALL"}
            /\ linter'.flags = aged.flags \cup {"origin_stall"}
  BY <1>1, <1>2, <1>3, StallingLinter
<1>5. TypeOK'
  BY <1>4 DEF TypeOK, Wake, originVars, FirstFetch
<1>6. (ErrorsCounted /\ DeliveryOrder)'
  BY DEF TypeOK, ErrorsCounted, DeliveryOrder, Wake, FirstFetch, Current
<1>7. FlagsMatchFindings'
  BY <1>1, <1>4 DEF FlagsMatchFindings, Wake, FirstFetch
<1>8. HealthAgreesWithFindings'
  BY DEF HealthAgreesWithFindings, Wake, FirstFetch
<1>9. FlagsBlameOneSide'
  BY <1>1, <1>4 DEF FlagsBlameOneSide, OneSide, Wake
<1> QED
  BY <1>5, <1>6, <1>7, <1>8, <1>9

LEMMA FetchMasterInv == Inv /\ FetchMaster => Inv'
<1> SUFFICES ASSUME Inv, FetchMaster PROVE Inv'
  OBVIOUS
<1> USE HlsAssumption DEF Inv
<1>1. PICK d \in 0..MaxDelay : linter' = Aged(linter, d)
  BY DEF FetchMaster
<1>2. /\ linter' \in Linters
      /\ linter'.flags = linter.flags
      /\ linter'.findings_buffer = linter.findings_buffer
  BY <1>1, AgedLinter DEF TypeOK
<1>3. TypeOK'
  BY <1>2 DEF TypeOK, FetchMaster, originVars, Option
<1>4. (ErrorsCounted /\ DeliveryOrder)'
  BY DEF TypeOK, ErrorsCounted, DeliveryOrder, FetchMaster
<1>5. (FlagsMatchFindings /\ HealthAgreesWithFindings)'
  BY <1>2 DEF FlagsMatchFindings, HealthAgreesWithFindings, FetchMaster
<1>6. FlagsBlameOneSide'
  BY <1>2 DEF FlagsBlameOneSide, FetchMaster
<1> QED
  BY <1>3, <1>4, <1>5, <1>6

LEMMA FetchMediaInv == Inv /\ FetchMedia => Inv'
<1> SUFFICES ASSUME Inv, FetchMedia PROVE Inv'
  OBVIOUS
<1> USE HlsAssumption DEF Inv
<1>1. PICK d \in 0..MaxDelay :
        linter' = OnPlaylistRefresh(Aged(linter, d), origin.media_sequence,
                                    TargetDuration, origin.segments)
  BY DEF FetchMedia
<1> DEFINE aged == Aged(linter, d)
<1>2. /\ aged \in Linters
      /\ aged.flags = linter.flags /\ aged.findings_buffer = linter.findings_buffer
  BY AgedLinter DEF TypeOK
<1>3. origin.media_sequence \in Nat /\ origin.segments \in Nat
  BY DEF TypeOK, Playlists
<1> HIDE DEF aged
<1>4. linter' = OnPlaylistRefresh(aged, origin.media_sequence, TargetDuration, origin.segments)
  BY <1>1 DEF aged
<1>5. /\ linter' \in Linters
      /\ linter'.findings_buffer \ aged.findings_buffer
           \subseteq {"PLAYLIST_REFRESH", "MEDIA_SEQUENCE_REGRESS", "MEDIA_SEQUENCE_GAP"}
      /\ aged.findings_buffer \subseteq linter'.findings_buffer
      /\ aged.flags \subseteq linter'.flags
      /\ linter'.flags \subseteq aged.flags \cup {"rfc_violation"}
  BY <1>2, <1>3, <1>4, RefreshLinter
<1>6. origin \in Playlists
  BY DEF TypeOK
<1>7. HasNewSegments(origin) =>
        /\ StartIndex(origin) \in 0..Window
        /\ StartIndex(origin) < origin.segments
        /\ last_seen_seq < origin.media_sequence + StartIndex(origin)
  BY <1>6, StartIndexBounds
<1>8. TypeOK'
  BY <1>5, <1>7 DEF TypeOK, FetchMedia, originVars, loopVars, Playlists
<1>9. ErrorsCounted'
  BY DEF TypeOK, ErrorsCounted, FetchMedia, loopVars
<1>10. DeliveryOrder'
  BY <1>7 DEF DeliveryOrder, FetchMedia, loopVars, Current
<1>11. FlagsMatchFindings'
  BY <1>2, <1>5 DEF FlagsMatchFindings, FetchMedia
<1>12. HealthAgreesWithFindings'
  BY DEF HealthAgreesWithFindings, FetchMedia
<1>13. FlagsBlameOneSide'
  BY <1>2, <1>5 DEF FlagsBlameOneSide, OneSide, FetchMedia, loopVars
<1> QED
  BY <1>8, <1>9, <1>10, <1>11, <1>12, <1>13

LEMMA FetchFailedInv == Inv /\ FetchFailed => Inv'
<1> SUFFICES ASSUME Inv, FetchFailed PROVE Inv'
  OBVIOUS
<1> USE HlsAssumption DEF Inv
<1>1. PICK d \in 0..MaxDelay : linter' = Aged(linter, d)
  BY DEF FetchFailed
<1>2. /\ linter' \in Linters
      /\ linter'.flags = linter.flags
      /\ linter'.findings_buffer = linter.findings_buffer
  BY <1>1, AgedLinter DEF TypeOK
<1>3. poll_errors' \in 0..MaxPollErrors
  BY DEF TypeOK, FetchFailed
<1>6. TypeOK'
  BY <1>2, <1>3 DEF TypeOK, FetchFailed, originVars, loopVars
<1>4. (ErrorsCounted /\ DeliveryOrder)'
  BY DEF TypeOK, ErrorsCounted, DeliveryOrder, FetchFailed, loopVars
<1>5. (FlagsMatchFindings /\ HealthAgreesWithFindings)'
  BY <1>2 DEF FlagsMatchFindings, HealthAgreesWithFindings, FetchFailed
<1>7. FlagsBlameOneSide'
  BY <1>2 DEF FlagsBlameOneSide, FetchFailed, loopVars
<1> QED
  BY <1>4, <1>5, <1>6, <1>7

\* What ProcessSegment and SegmentFailed have in common.
LEMMA NextSegmentType ==
  ASSUME Inv, NextSegment, pc = "segment"
  PROVE  /\ index' \in 0..Window
         /\ pc' \in {"segment", "report"}
         /\ skip_reported' \in SUBSET Nat
         /\ pc' = "segment" => index' < playlist.segments
         /\ index' = index + 1
<1> USE HlsAssumption DEF Inv
<1>1. /\ index \in Nat /\ index < playlist.segments /\ playlist.segments \in 0..Window
  BY DEF TypeOK, Playlists, DeliveryOrder
<1>2. linter.last_highest_seq + 1 \in Nat /\ Current \in Nat
  BY DEF TypeOK, Linters, Option, None, Current, Playlists
<1>3. (linter.last_highest_seq + 1)..(Current - 1) \in SUBSET Nat
  BY <1>2
<1>4. index' = index + 1 /\ index' \in 0..Window
  BY <1>1 DEF NextSegment
<1>5. pc' \in {"segment", "report"} /\ (pc' = "segment" => index' < playlist.segments)
  BY DEF NextSegment
<1>6. skip_reported' \in SUBSET Nat
  <2>1. skip_reported \in SUBSET Nat
    BY DEF TypeOK
  <2> QED
    BY <1>3, <2>1 DEF NextSegment
<1> QED
  BY <1>4, <1>5, <1>6

LEMMA ProcessSegmentInv == Inv /\ ProcessSegment => Inv'
<1> SUFFICES ASSUME Inv, ProcessSegment PROVE Inv'
  OBVIOUS
<1> USE HlsAssumption DEF Inv
<1>1. PICK d \in 0..MaxDelay, fetch \in SegmentFetches :
        linter' = LintPdtWireDrift(OnCdnHeaders(Aged(Announced, d), fetch), fetch)
  BY DEF ProcessSegment
<1>2. pc = "segment" /\ NextSegment
  BY DEF ProcessSegment
<1>3. /\ Announced \in Linters /\ Announced.since_new_segment = 0 /\ Current \in Nat
  BY AnnouncedLinter
<1> DEFINE aged == Aged(Announced, d)
<1>4. /\ aged \in Linters
      /\ aged.flags = Announced.flags
      /\ aged.findings_buffer = Announced.findings_buffer
      /\ aged.since_new_segment <= MaxDelay
  <2>1. d \in Nat /\ d <= MaxDelay
    OBVIOUS
  <2>2. aged.since_new_segment <= d /\ aged \in Linters
    BY <1>3, <2>1, AgedLinter
  <2>3. aged.since_new_segment \in Int
    BY <2>2 DEF Linters, Option, None
  <2> QED
    BY <1>3, <2>1, <2>2, <2>3, AgedLinter
<1> HIDE DEF aged
<1>5. fetch \in Fetches
  OBVIOUS
<1>6. /\ linter' \in Linters
      /\ linter'.since_new_segment = aged.since_new_segment
      /\ "origin_stall" \in linter'.flags => "origin_stall" \in aged.flags
      /\ "CACHE_MISS" \in linter'.findings_buffer
           <=> "CACHE_MISS" \in aged.findings_buffer \/ fetch.verdict = "Miss"
      /\ "cdn_miss" \in linter'.flags
           <=> "cdn_miss" \in aged.flags \/ fetch.verdict = "Miss"
      /\ "TTFB_HIGH" \in linter'.findings_buffer
           <=> "TTFB_HIGH" \in aged.findings_buffer \/ fetch.ttfb = "high"
      /\ "high_ttfb" \in linter'.flags
           <=> "high_ttfb" \in aged.flags \/ fetch.ttfb = "high"
  <2>1. linter' = LintPdtWireDrift(OnCdnHeaders(aged, fetch), fetch)
    BY <1>1 DEF aged
  <2> QED
    BY <1>4, <1>5, <2>1, FetchLinter
<1>7. TypeOK'
  BY <1>2, <1>3, <1>6, NextSegmentType
     DEF TypeOK, ProcessSegment, originVars, loopVars, Option
<1>8. ErrorsCounted'
  BY <1>2, NextSegmentType DEF TypeOK, ErrorsCounted, ProcessSegment, loopVars
<1>9. DeliveryOrder'
  <2>1. index' = index + 1 /\ (pc' = "segment" => index' < playlist.segments)
    BY <1>2, NextSegmentType
  <2>2. UNCHANGED <<playlist, has_master>> /\ last_seen_seq' = Current
        /\ delivered' = delivered \cup {Current}
    BY DEF ProcessSegment, loopVars
  <2>3. \A s \in delivered : s \in Nat /\ s <= last_seen_seq /\ last_seen_seq < Current
    BY <1>2 DEF TypeOK, DeliveryOrder
  <2>4. \A s \in delivered' : s <= last_seen_seq'
    BY <1>3, <2>2, <2>3 DEF TypeOK, Option, None
  <2>5. last_seen_seq' < Current'
    BY <1>3, <2>1, <2>2 DEF Current, TypeOK, Playlists
  <2>6. pc' # "master"
    BY <1>2, NextSegmentType
  <2> QED
    BY <1>2, <2>1, <2>2, <2>4, <2>5, <2>6 DEF DeliveryOrder
<1>10. FlagsMatchFindings'
  <2>1. /\ "cdn_miss" \in aged.flags <=> "CACHE_MISS" \in aged.findings_buffer
        /\ "high_ttfb" \in aged.flags <=> "TTFB_HIGH" \in aged.findings_buffer
    BY <1>4, AnnouncedLinter DEF FlagsMatchFindings
  <2>2. pc' \in {"segment", "report"}
    BY <1>2, NextSegmentType
  <2> QED
    BY <1>4, <1>6, <2>1, <2>2 DEF FlagsMatchFindings
<1>11. HealthAgreesWithFindings'
  BY <1>2, NextSegmentType DEF HealthAgreesWithFindings
<1>12. FlagsBlameOneSide'
  <2>1. "origin_stall" \notin linter'.flags
    BY <1>4, <1>6, AnnouncedLinter
  <2>2. pc' \in {"segment", "report"} /\ health' = health
    BY <1>2, NextSegmentType DEF ProcessSegment, loopVars
  <2> QED
    BY <2>1, <2>2 DEF FlagsBlameOneSide, OneSide
<1> QED
  BY <1>7, <1>8, <1>9, <1>10, <1>11, <1>12

LEMMA SegmentFailedInv == Inv /\ SegmentFailed => Inv'
<1> SUFFICES ASSUME Inv, SegmentFailed PROVE Inv'
  OBVIOUS
<1> USE HlsAssumption DEF Inv
<1>1. PICK d \in 0..MaxDelay : linter' = Aged(Announced, d)
  BY DEF SegmentFailed
<1>2. pc = "segment" /\ NextSegment
  BY DEF SegmentFailed
<1>3. /\ Announced \in Linters /\ Announced.since_new_segment = 0 /\ Current \in Nat
  BY AnnouncedLinter
<1>4. /\ linter' \in Linters
      /\ linter'.flags = Announced.flags
      /\ linter'.findings_buffer = Announced.findings_buffer
      /\ linter'.since_new_segment <= MaxDelay
  <2>1. d \in Nat /\ d <= MaxDelay
    OBVIOUS
  <2>2. linter'.since_new_segment <= d /\ linter' \in Linters
    BY <1>1, <1>3, <2>1, AgedLinter
  <2>3. linter'.since_new_segment \in Int
    BY <2>2 DEF Linters, Option, None
  <2> QED
    BY <1>1, <1>3, <2>1, <2>2, <2>3, AgedLinter
<1>5. TypeOK'
  BY <1>2, <1>3, <1>4, NextSegmentType
     DEF TypeOK, SegmentFailed, originVars, loopVars
<1>6. ErrorsCounted'
  BY <1>2, NextSegmentType DEF TypeOK, ErrorsCounted, SegmentFailed, loopVars
<1>7. DeliveryOrder'
  <2>1. /\ index' = index + 1 /\ (pc' = "segment" => index' < playlist.segments)
        /\ pc' # "master"
    BY <1>2, NextSegmentType
  <2>2. UNCHANGED <<playlist, has_master, last_seen_seq, delivered>>
    BY DEF SegmentFailed, loopVars
  <2>3. last_seen_seq < Current' /\ last_seen_seq \in Int
    BY <1>2, <1>3, <2>1, <2>2 DEF Current, TypeOK, Playlists, DeliveryOrder, Option, None
  <2> QED
    BY <1>2, <2>1, <2>2, <2>3 DEF DeliveryOrder
<1>8. FlagsMatchFindings'
  BY <1>2, <1>4, AnnouncedLinter, NextSegmentType DEF FlagsMatchFindings
<1>9. HealthAgreesWithFindings'
  BY <1>2, NextSegmentType DEF HealthAgreesWithFindings
<1>10. FlagsBlameOneSide'
  <2>1. "origin_stall" \notin linter'.flags
    BY <1>4, AnnouncedLinter
  <2>2. pc' \in {"segment", "report"} /\ health' = health
    BY <1>2, NextSegmentType DEF SegmentFailed, loopVars
  <2> QED
    BY <2>1, <2>2 DEF FlagsBlameOneSide, OneSide
<1> QED
  BY <1>5, <1>6, <1>7, <1>8, <1>9, <1>10

LEMMA EndCycleInv == Inv /\ EndCycle => Inv'
<1> SUFFICES ASSUME Inv, EndCycle PROVE Inv'
  OBVIOUS
<1> USE HlsAssumption DEF Inv
<1>1. linter \in Linters
  BY DEF TypeOK
<1>2. /\ Flushed.flags = linter.flags \ {"rfc_violation"}
      /\ linter' \in Linters
      /\ linter'.findings_buffer = {}
      /\ linter'.since_new_segment = linter.since_new_segment
      /\ linter'.flags = linter.flags \ {"rfc_violation", "cdn_miss", "high_ttfb"}
  BY <1>1, CycleEndLinter DEF EndCycle, Flushed
<1>3. health' = linter.flags \ {"rfc_violation"} /\ reported' = linter.findings_buffer
  BY <1>2 DEF EndCycle, Deductions
<1>4. consecutive_errors' \in 0..MaxPollErrors /\ consecutive_errors' <= poll_errors
  BY DEF EndCycle, ErrorsAfter, TypeOK, ErrorsCounted
<1>5. StatusAfter \in {"live", "vod", "degraded", "error"}
  BY DEF StatusAfter
<1>6. TypeOK'
  <2>1. playlist' \in Playlists /\ index' \in 0..Window
    BY DEF EndCycle, EmptyPlaylist, Playlists
  <2>2. health' \in SUBSET HealthFlags /\ reported' \in SUBSET Rules
    BY <1>1, <1>3 DEF Linters
  <2>3. status' \in {"connecting", "live", "vod", "degraded", "error"}
    BY <1>5 DEF EndCycle
  <2>4. target_duration' \in {TargetDuration, DefaultTargetDuration}
    BY DEF EndCycle, TypeOK
  <2>5. pc' = "sleep" /\ poll_ok' = FALSE
    BY DEF EndCycle
  <2>6. UNCHANGED <<origin, restarts, has_master, last_seen_seq, ended, poll_errors,
                    segment_errors, delivered, failed, skip_reported>>
    BY DEF EndCycle, originVars
  <2> QED
    BY <1>2, <1>4, <2>1, <2>2, <2>3, <2>4, <2>5, <2>6 DEF TypeOK
<1>7. ErrorsCounted'
  BY <1>4 DEF EndCycle, ErrorsCounted
<1>8. DeliveryOrder'
  BY DEF EndCycle, DeliveryOrder
<1>9. FlagsMatchFindings'
  BY <1>2 DEF FlagsMatchFindings, EndCycle
<1>10. HealthAgreesWithFindings'
  BY <1>2, <1>3 DEF FlagsMatchFindings, HealthAgreesWithFindings, EndCycle
<1>11. FlagsBlameOneSide'
  BY <1>2, <1>3 DEF FlagsBlameOneSide, OneSide
<1> QED
  BY <1>6, <1>7, <1>8, <1>9, <1>10, <1>11

LEMMA StepInv == Inv /\ [Next]_vars => Inv'
<1> SUFFICES ASSUME Inv, [Next]_vars PROVE Inv'
  OBVIOUS
<1>1. CASE Packager
  BY <1>1, PackagerInv
<1>2. CASE Wake
  BY <1>2, WakeInv
<1>3. CASE FetchMaster
  BY <1>3, FetchMasterInv
<1>4. CASE FetchMedia
  BY <1>4, FetchMediaInv
<1>5. CASE FetchFailed
  BY <1>5, FetchFailedInv
<1>6. CASE ProcessSegment
  BY <1>6, ProcessSegmentInv
<1>7. CASE SegmentFailed
  BY <1>7, SegmentFailedInv
<1>8. CASE EndCycle
  BY <1>8, EndCycleInv
<1>9. CASE UNCHANGED vars
  <2>1. UNCHANGED <<origin, restarts, pc, playlist, index, poll_ok, has_master,
                    last_seen_seq, target_duration, consecutive_errors, ended, linter,
                    status, health, reported, poll_errors, segment_errors, delivered,
                    failed, skip_reported>>
    BY <1>9 DEF vars
  <2>2. (TypeOK /\ ErrorsCounted)'
    BY <2>1 DEF Inv, TypeOK, ErrorsCounted
  <2>3. (DeliveryOrder /\ FlagsMatchFindings /\ HealthAgreesWithFindings)'
    BY <2>1 DEF Inv, DeliveryOrder, Current, FlagsMatchFindings, HealthAgreesWithFindings
  <2>4. FlagsBlameOneSide'
    BY <2>1 DEF Inv, FlagsBlameOneSide
  <2> QED
    BY <2>2, <2>3, <2>4 DEF Inv
<1> QED
  BY <1>1, <1>2, <1>3, <1>4, <1>5, <1>6, <1>7, <1>8, <1>9 DEF Next, Poller

LEMMA SpecInv == Spec => []Inv
<1> QED
  BY InitInv, StepInv, PTL DEF Spec

-----------------------------------------------------------------------------
\* Every variable of the poll loop keeps its type: in particular the segment
\* index stays inside the fetched playlist's window, and no counter passes its
\* bound (run_hls_loop, poll_once, handle_media).
THEOREM TypeCorrect == Spec => []TypeOK
<1>1. Inv => TypeOK
  BY DEF Inv
<1> QED
  BY <1>1, SpecInv, PTL

\* Segment events leave handle_media in increasing order of their media
\* sequence, each at most once, through failures, slides and restarts.
THEOREM InOrder == Spec => DeliveredInOrder
<1>1. Inv /\ ProcessSegment => \A earlier \in delivered : earlier < Current
  <2> SUFFICES ASSUME Inv, ProcessSegment, NEW earlier \in delivered
               PROVE  earlier < Current
    OBVIOUS
  <2>1. earlier <= last_seen_seq /\ last_seen_seq < Current
    BY DEF Inv, DeliveryOrder, ProcessSegment
  <2>2. earlier \in Int /\ last_seen_seq \in Int /\ Current \in Int
    BY DEF Inv, TypeOK, Option, None, Current, Playlists
  <2> QED
    BY <2>1, <2>2
<1> QED
  BY <1>1, SpecInv, PTL DEF DeliveredInOrder

\* A Health event never deducts for a stall and for the fetches of its cycle at
\* once, nor ever for an RFC violation: the linter's own score is at least 80
\* (on_new_segment, flush_findings, compute_health).
THEOREM OneSideBlamed == Spec => []HealthBlamesOneSide
<1>1. Inv => HealthBlamesOneSide
  BY DEF Inv, FlagsBlameOneSide, OneSide, HealthBlamesOneSide, Score
<1> QED
  BY <1>1, SpecInv, PTL

\* The Health event at the end of a cycle deducts for a cache miss, a slow
\* first byte or a stall exactly as the findings flushed just before say.
THEOREM HealthAgrees == Spec => []HealthAgreesWithFindings
<1>1. Inv => HealthAgreesWithFindings
  BY DEF Inv
<1> QED
  BY <1>1, SpecInv, PTL

-----------------------------------------------------------------------------
(* What the linter remembers, against what the packager published and the  *)
(* loop tried.  All of it holds of a packager that has not restarted.      *)
Highest == linter.last_highest_seq

\* An honest packager is ahead of all that was read of it.
OriginGrows ==
  restarts = 0 =>
    /\ linter.last_media_sequence <= origin.media_sequence
    /\ linter.last_discontinuity_seq <= origin.discontinuity_sequence
    /\ Highest < Edge(origin)
    /\ pc = "segment" =>
         /\ playlist.media_sequence <= origin.media_sequence
         /\ linter.last_discontinuity_seq <= playlist.discontinuity_sequence
         /\ playlist.discontinuity_sequence <= origin.discontinuity_sequence
         /\ Highest < Edge(playlist) /\ Edge(playlist) <= Edge(origin)

\* The highest announced sequence was tried, and nothing above it; the last
\* one seen was delivered.
HighestIsTried ==
  restarts = 0 =>
    /\ \A s \in Attempted : s <= Highest
    /\ Highest # None => Highest \in Attempted
    /\ last_seen_seq # None => last_seen_seq \in delivered

\* As long as the playlist still reaches back to the last delivered segment,
\* every sequence from there to the highest one failed and is tried again, in
\* order; a loop that fell behind tries the live edge alone.
AllFailedSince == \A s \in (last_seen_seq + 1)..Highest : s \in failed
Behind(p) == last_seen_seq = None \/ last_seen_seq + 1 < p.media_sequence
FailedUpToHighest ==
  restarts = 0 =>
    /\ pc # "segment" /\ ~Behind(origin) => AllFailedSince
    /\ pc = "segment" /\ ~Behind(playlist) => Current <= Highest + 1 /\ AllFailedSince
    /\ pc = "segment" /\ Behind(playlist) => index + 1 = playlist.segments

NoAccusation ==
  /\ "MEDIA_SEQUENCE_REGRESS" \in Accuses(linter) => restarts > 0
  /\ "DISCONTINUITY_SEQ" \in Accuses(linter) => restarts > 0
  /\ "SEQ_REGRESS" \in Accuses(linter) => restarts > 0 \/ \E s, t \in failed : s < t

History ==
  OriginGrows /\ HighestIsTried /\ FailedUpToHighest /\ NoAccusation /\ LossIsReported

LEMMA HistoryInit == Init => History
<1> SUFFICES ASSUME Init PROVE History
  OBVIOUS
<1> USE HlsAssumption
<1>1. /\ Highest = None /\ linter.last_media_sequence = None
      /\ linter.last_discontinuity_seq = None /\ Accuses(linter) = {}
  BY DEF Init, NewLinter, Highest, Accuses
<1>2. Attempted = {} /\ last_seen_seq = None /\ pc # "segment"
  BY DEF Init, Attempted, FirstFetch
<1>3. origin \in Playlists
  BY InitInv DEF Inv, TypeOK
<1>4. OriginGrows
  BY <1>1, <1>2, <1>3 DEF OriginGrows, Playlists, Edge, None
<1>5. HighestIsTried /\ FailedUpToHighest /\ NoAccusation /\ LossIsReported
  BY <1>1, <1>2 DEF HighestIsTried, FailedUpToHighest, Behind, NoAccusation, LossIsReported
<1> QED
  BY <1>4, <1>5 DEF History

\* Nothing is disturbed by a step that tries no segment, reads no playlist and
\* keeps the linter's memory; a new accusation would have to be one of the
\* linter's.
LEMMA HistoryKept ==
  ASSUME Inv, History,
         SameMemory(linter', linter), Accuses(linter') \subseteq Accuses(linter),
         UNCHANGED <<origin, restarts, last_seen_seq, delivered, failed, skip_reported>>,
         pc # "segment", pc' # "segment"
  PROVE  History'
<1>1. OriginGrows'
  BY DEF History, OriginGrows, SameMemory, Edge, Highest
<1>2. HighestIsTried'
  BY DEF History, HighestIsTried, SameMemory, Highest, Attempted
<1>3. FailedUpToHighest'
  BY DEF History, FailedUpToHighest, SameMemory, Behind, AllFailedSince, Highest
<1>4. NoAccusation'
  BY DEF History, NoAccusation
<1>5. LossIsReported'
  BY DEF History, LossIsReported, Attempted
<1> QED
  BY <1>1, <1>2, <1>3, <1>4, <1>5 DEF History

\* A full window slides, another grows; either way its edge moves by one.
LEMMA PublishGrows ==
  ASSUME TypeOK, Publish
  PROVE  /\ origin' \in Playlists
         /\ origin.media_sequence <= origin'.media_sequence
         /\ origin.discontinuity_sequence <= origin'.discontinuity_sequence
         /\ Edge(origin') = Edge(origin) + 1
<1> USE HlsAssumption
<1>1. origin \in Playlists
  BY DEF TypeOK
<1>2. CASE origin.segments < Window
  <2>1. origin' = [origin EXCEPT !.segments = origin.segments + 1]
    BY <1>1, <1>2 DEF Publish
  <2>2. origin.segments + 1 \in 0..Window
    BY <1>1, <1>2 DEF Playlists
  <2> QED
    BY <1>1, <2>1, <2>2 DEF Playlists, Edge
<1>3. CASE ~(origin.segments < Window)
  <2>1. PICK number \in Nat :
          /\ origin.discontinuity_sequence <= number
          /\ origin' = [origin EXCEPT !.media_sequence = origin.media_sequence + 1,
                                      !.discontinuity_sequence = number]
    <3> DEFINE number == IF origin.media_sequence \in Discontinuities
                         THEN origin.discontinuity_sequence + 1
                         ELSE origin.discontinuity_sequence
    <3>1. number \in Nat /\ origin.discontinuity_sequence <= number
      BY <1>1 DEF Playlists
    <3>2. origin' = [origin EXCEPT !.media_sequence = origin.media_sequence + 1,
                                   !.discontinuity_sequence = number]
      BY <1>1, <1>3 DEF Publish
    <3> HIDE DEF number
    <3> QED
      BY <3>1, <3>2
  <2>2. /\ origin.media_sequence \in Nat /\ origin.segments \in 0..Window
        /\ origin.segments \in Nat /\ origin.media_sequence + 1 \in Nat
    BY <1>1 DEF Playlists
  <2>3. /\ origin' \in Playlists
        /\ origin'.media_sequence = origin.media_sequence + 1
        /\ origin'.discontinuity_sequence = number
        /\ origin'.segments = origin.segments
    BY <1>1, <2>1, <2>2 DEF Playlists
  <2> QED
    BY <2>1, <2>2, <2>3 DEF Edge
<1> QED
  BY <1>2, <1>3

LEMMA HistoryPackager == Inv /\ History /\ Packager => History'
<1> SUFFICES ASSUME Inv, History, Packager PROVE History'
  OBVIOUS
<1>0. UNCHANGED <<pc, playlist, index, last_seen_seq, linter, delivered, failed, skip_reported>>
  BY DEF Packager, Publish, EndEvent, Restart
<1>1. CASE Restart
  <2>1. restarts \in Nat /\ restarts' = restarts + 1
    BY <1>1 DEF Restart, Inv, TypeOK
  <2>2. restarts' # 0 /\ restarts' > 0
    BY <2>1
  <2> QED
    BY <1>0, <2>2 DEF History, OriginGrows, HighestIsTried, FailedUpToHighest, NoAccusation,
                      LossIsReported
<1>2. CASE Publish \/ EndEvent
  <2>0. UNCHANGED restarts
    BY <1>2 DEF Publish, EndEvent
  <2>1. /\ origin \in Playlists /\ origin' \in Playlists /\ playlist \in Playlists
        /\ origin.media_sequence <= origin'.media_sequence
        /\ origin.discontinuity_sequence <= origin'.discontinuity_sequence
        /\ Edge(origin) <= Edge(origin')
    <3>1. CASE Publish
      BY <3>1, PublishGrows DEF Inv, TypeOK, Playlists, Edge
    <3>2. CASE EndEvent
      <4>1. origin \in Playlists /\ playlist \in Playlists
        BY DEF Inv, TypeOK
      <4>2. /\ origin' \in Playlists
            /\ origin'.media_sequence = origin.media_sequence
            /\ origin'.discontinuity_sequence = origin.discontinuity_sequence
            /\ origin'.segments = origin.segments
        BY <3>2, <4>1 DEF EndEvent, Playlists
      <4>3. /\ origin.media_sequence \in Nat /\ origin.discontinuity_sequence \in Nat
            /\ origin.segments \in Nat
        BY <4>1 DEF Playlists
      <4> QED
        BY <4>1, <4>2, <4>3 DEF Edge
    <3> QED
      BY <1>2, <3>1, <3>2
  <2>2. linter \in Linters /\ last_seen_seq \in Option(Nat)
    BY DEF Inv, TypeOK
  <2>3. OriginGrows'
    <3>1. /\ linter.last_media_sequence \in Int /\ linter.last_discontinuity_seq \in Int
          /\ Highest \in Int
          /\ origin.media_sequence \in Nat /\ origin'.media_sequence \in Nat
          /\ origin.discontinuity_sequence \in Nat /\ origin'.discontinuity_sequence \in Nat
          /\ Edge(origin) \in Nat /\ Edge(origin') \in Nat /\ Edge(playlist) \in Nat
          /\ playlist.media_sequence \in Nat /\ playlist.discontinuity_sequence \in Nat
      BY <2>1, <2>2 DEF Playlists, Edge, Linters, Option, None, Highest
    <3>2. Edge(playlist') = Edge(playlist) /\ Highest' = Highest
      BY <1>0 DEF Edge, Highest
    <3>3. OriginGrows
      BY DEF History
    <3> QED
      BY <1>0, <2>0, <2>1, <3>1, <3>2, <3>3 DEF OriginGrows
  <2>4. FailedUpToHighest'
    <3>1. Behind(origin) => Behind(origin')
      BY <2>1, <2>2 DEF Behind, Playlists, Option, None
    <3> QED
      BY <1>0, <2>0, <3>1
         DEF History, FailedUpToHighest, Behind, AllFailedSince, Highest, Current
  <2>5. (HighestIsTried /\ NoAccusation /\ LossIsReported)'
    BY <1>0, <2>0 DEF History, HighestIsTried, NoAccusation, LossIsReported, Attempted, Highest
  <2> QED
    BY <2>3, <2>4, <2>5 DEF History
<1> QED
  BY <1>1, <1>2 DEF Packager

\* A cycle begins, a poll fails, a master playlist is read or a cycle ends.
LEMMA HistoryBetweenSegments ==
  Inv /\ History /\ (Wake \/ FetchMaster \/ FetchFailed \/ EndCycle) => History'
<1> SUFFICES ASSUME Inv, History, Wake \/ FetchMaster \/ FetchFailed \/ EndCycle
             PROVE  History'
  OBVIOUS
<1>1. linter \in Linters
  BY DEF Inv, TypeOK
<1>2. UNCHANGED <<origin, restarts, delivered, failed, skip_reported>>
        /\ pc # "segment" /\ pc' # "segment"
  BY DEF Wake, FetchMaster, FetchFailed, EndCycle, originVars, FirstFetch
<1>3. UNCHANGED last_seen_seq
  BY DEF Wake, FetchMaster, FetchFailed, EndCycle, Inv, DeliveryOrder
<1>4. SameMemory(linter', linter) /\ Accuses(linter') \subseteq Accuses(linter)
  <2>1. CASE Wake
    <3> DEFINE aged == Aged(linter, Wait)
    <3>1. aged \in Linters
      BY <1>1, WaitType, AgedLinter DEF Inv
    <3>2. SameMemory(aged, linter) /\ Accuses(aged) = Accuses(linter)
      BY <1>1, AgedMemory
    <3>3. linter' = aged \/ linter' = CheckStalling(aged, target_duration)
      BY <2>1 DEF Wake
    <3> HIDE DEF aged
    <3>4. SameMemory(linter', aged) /\ Accuses(linter') = Accuses(aged)
      BY <3>1, <3>3, StallingMemory DEF SameMemory
    <3> QED
      BY <3>2, <3>4 DEF SameMemory
  <2>2. CASE FetchMaster \/ FetchFailed
    <3>1. PICK d : linter' = Aged(linter, d)
      BY <2>2 DEF FetchMaster, FetchFailed
    <3> QED
      BY <1>1, <3>1, AgedMemory
  <2>3. CASE EndCycle
    BY <1>1, <2>3, CycleEndMemory DEF EndCycle, Flushed
  <2> QED
    BY <2>1, <2>2, <2>3
<1> QED
  BY <1>2, <1>3, <1>4, HistoryKept

\* A playlist is read.  Unless the loop fell behind it, the first segment to be
\* tried follows the last one seen.
LEMMA HistoryFetchMedia == Inv /\ History /\ FetchMedia => History'
<1> SUFFICES ASSUME Inv, History, FetchMedia PROVE History'
  OBVIOUS
<1>1. linter \in Linters /\ origin \in Playlists /\ last_seen_seq \in Option(Nat)
        /\ last_seen_seq \in Int
  BY DEF Inv, TypeOK, Option, None
<1>2. /\ UNCHANGED <<origin, restarts, last_seen_seq, delivered, failed, skip_reported>>
      /\ playlist' = origin /\ pc = "media" /\ pc' \in {"segment", "report"}
      /\ pc' = "segment" => HasNewSegments(origin) /\ index' = StartIndex(origin)
  BY DEF FetchMedia, originVars, loopVars
<1>3. PICK d \in 0..MaxDelay :
        linter' = OnPlaylistRefresh(Aged(linter, d), origin.media_sequence,
                                    TargetDuration, origin.segments)
  BY DEF FetchMedia
<1> DEFINE aged == Aged(linter, d)
<1>4. aged \in Linters /\ SameMemory(aged, linter) /\ Accuses(aged) = Accuses(linter)
  BY <1>1, AgedLinter, AgedMemory, HlsAssumption
<1>5. linter' = OnPlaylistRefresh(aged, origin.media_sequence, TargetDuration, origin.segments)
  BY <1>3
<1>6. origin.media_sequence \in Nat /\ origin.segments \in Nat /\ TargetDuration \in Nat
        /\ origin.discontinuity_sequence \in Nat
  BY <1>1, HlsAssumption DEF Playlists
<1> HIDE DEF aged
<1>7. /\ linter'.last_media_sequence = origin.media_sequence
      /\ linter'.last_highest_seq = linter.last_highest_seq
      /\ linter'.last_discontinuity_seq = linter.last_discontinuity_seq
      /\ Accuses(linter') \subseteq Accuses(linter) \cup {"MEDIA_SEQUENCE_REGRESS"}
      /\ "MEDIA_SEQUENCE_REGRESS" \in Accuses(linter') =>
           \/ "MEDIA_SEQUENCE_REGRESS" \in Accuses(linter)
           \/ origin.media_sequence < linter.last_media_sequence
  BY <1>4, <1>5, <1>6, RefreshMemory DEF SameMemory
<1>8. Highest' = Highest
  BY <1>7 DEF Highest
<1>9. OriginGrows'
  <2>1. Edge(playlist') = Edge(origin) /\ Edge(origin') = Edge(origin) /\ Edge(origin) \in Nat
    BY <1>2, <1>6 DEF Edge
  <2> QED
    BY <1>2, <1>6, <1>7, <1>8, <2>1 DEF History, OriginGrows
<1>10. HighestIsTried'
  BY <1>2, <1>8 DEF History, HighestIsTried, Attempted
<1>11. FailedUpToHighest'
  <2>1. AllFailedSince' <=> AllFailedSince
    BY <1>2, <1>8 DEF AllFailedSince
  <2>2. Behind(origin)' <=> Behind(origin)
    BY <1>2 DEF Behind
  <2>3. ASSUME pc' = "segment", ~Behind(origin), restarts = 0
        PROVE  Current' <= Highest + 1
    <3>1. Current' = last_seen_seq + 1
      BY <1>1, <1>2, <1>6, <2>3 DEF Current, StartIndex, Behind
    <3>2. last_seen_seq \in Attempted /\ last_seen_seq <= Highest
      BY <1>2, <2>3 DEF History, HighestIsTried, Behind, Attempted
    <3>3. Highest \in Int
      BY <1>1 DEF Highest, Linters, Option, None
    <3> QED
      BY <1>1, <3>1, <3>2, <3>3
  <2>4. ASSUME pc' = "segment", Behind(origin) PROVE index' + 1 = origin.segments
    BY <1>1, <1>2, <1>6, <2>4 DEF StartIndex, Behind
  <2> QED
    BY <1>2, <1>8, <2>1, <2>2, <2>3, <2>4 DEF History, FailedUpToHighest, Behind
<1>12. NoAccusation'
  <2>1. "MEDIA_SEQUENCE_REGRESS" \in Accuses(linter') => restarts > 0
    <3>1. restarts \in Nat
      BY DEF Inv, TypeOK
    <3>2. linter.last_media_sequence \in Int
      BY <1>1 DEF Linters, Option, None
    <3> QED
      BY <1>6, <1>7, <3>1, <3>2 DEF History, NoAccusation, OriginGrows
  <2>2. /\ "DISCONTINUITY_SEQ" \in Accuses(linter') => "DISCONTINUITY_SEQ" \in Accuses(linter)
        /\ "SEQ_REGRESS" \in Accuses(linter') => "SEQ_REGRESS" \in Accuses(linter)
    BY <1>7
  <2> QED
    BY <1>2, <2>1, <2>2 DEF History, NoAccusation
<1>13. LossIsReported'
  BY <1>2 DEF History, LossIsReported, Attempted
<1> QED
  BY <1>9, <1>10, <1>11, <1>12, <1>13 DEF History

\* A segment was tried, delivered or not.
Tried(seq) ==
  \/ last_seen_seq' = seq /\ delivered' = delivered \cup {seq} /\ failed' = failed
  \/ last_seen_seq' = last_seen_seq /\ delivered' = delivered /\ failed' = failed \cup {seq}

\* A segment below the highest one was announced before and failed then, as all
\* between the two did.
LEMMA RetriesOnly ==
  ASSUME Inv, History, pc = "segment", restarts = 0, NEW s \in Current..Highest,
         Current < Highest
  PROVE  s \in failed
<1>1. /\ last_seen_seq \in Int /\ Current \in Int /\ Highest \in Int
      /\ last_seen_seq < Current /\ playlist \in Playlists /\ index \in Int
  BY AnnouncedLinter DEF Inv, TypeOK, DeliveryOrder, Option, None, Linters, Highest
<1>2. ~Behind(playlist)
  BY <1>1 DEF History, FailedUpToHighest, OriginGrows, Edge, Playlists, Current
<1>3. AllFailedSince
  BY <1>2 DEF History, FailedUpToHighest
<1> QED
  BY <1>1, <1>3 DEF AllFailedSince

\* Where two neighbouring sequences were not tried although later ones were,
\* their loss was reported when the later one was announced.
LEMMA LossReportedOnTry ==
  ASSUME Inv, History, NextSegment, pc = "segment", Tried(Current), UNCHANGED restarts
  PROVE  LossIsReported'
<1> SUFFICES ASSUME restarts = 0, NEW low \in Attempted', NEW high \in Attempted',
                    NEW s \in low..(high - 2), {s, s + 1} \cap Attempted' = {}
             PROVE  {s, s + 1} \subseteq skip_reported'
  BY DEF LossIsReported
<1>1. Attempted' = Attempted \cup {Current}
  BY DEF Tried, Attempted
<1>2. /\ Current \in Nat /\ Highest \in Int /\ Attempted \subseteq Nat
      /\ \A t \in Attempted : t <= Highest
      /\ Highest # None => Highest \in Attempted
  BY AnnouncedLinter DEF Inv, TypeOK, Attempted, Highest, Linters, Option, None,
                         History, HighestIsTried
<1>3. low \in Nat /\ high \in Nat /\ s \in Nat
  BY <1>1, <1>2
<1>4. s \notin Attempted /\ s + 1 \notin Attempted
  BY <1>1
<1>5. skip_reported \subseteq skip_reported'
  BY DEF NextSegment
<1>6. ASSUME NEW earlier \in Attempted, NEW later \in Attempted,
             s \in earlier..(later - 2)
      PROVE  {s, s + 1} \subseteq skip_reported
  BY <1>4, <1>6 DEF History, LossIsReported
<1>7. CASE low \in Attempted
  <2>1. Highest \in Attempted
    BY <1>2, <1>3, <1>7 DEF None
  <2>2. CASE s < Highest
    <3>1. s # Highest /\ s + 1 # Highest
      BY <1>4, <2>1
    <3>2. s \in low..(Highest - 2)
      BY <1>2, <1>3, <2>2, <3>1
    <3> QED
      BY <1>5, <1>6, <1>7, <2>1, <3>2
  <2>3. CASE ~(s < Highest)
    <3>1. high = Current
      BY <1>1, <1>2, <1>3, <2>3
    <3>2. s # Highest
      BY <1>4, <2>1
    <3>3. s > Highest /\ s + 1 <= Current - 1
      BY <1>2, <1>3, <2>3, <3>1, <3>2
    <3>4. Skips(linter, Current)
      BY <1>2, <1>3, <2>1, <3>3 DEF Skips, Highest, None, MEDIA_SEQ_GAP_TOLERANCE
    <3>5. (Highest + 1)..(Current - 1) \subseteq skip_reported'
      BY <3>4 DEF NextSegment, Highest
    <3>6. {s, s + 1} \subseteq (Highest + 1)..(Current - 1)
      BY <1>2, <1>3, <3>3
    <3> QED
      BY <3>5, <3>6
  <2> QED
    BY <2>2, <2>3
<1>8. CASE low = Current
  <2>1. high \in Attempted
    BY <1>1, <1>3, <1>8
  <2>2. s \in Current..Highest /\ Current < Highest
    BY <1>2, <1>3, <1>8, <2>1
  <2>3. s \in failed
    BY <2>2, RetriesOnly
  <2> QED
    BY <1>4, <2>3 DEF Attempted
<1> QED
  BY <1>1, <1>7, <1>8

\* After a try, everything from the last delivered segment to the highest one
\* has failed, unless the loop was already behind.
LEMMA FailedSinceTry ==
  ASSUME Inv, History, pc = "segment", Tried(Current), restarts = 0,
         Highest' = MaxSeqOf(Current, Highest)
  PROVE  /\ ~Behind(playlist) => AllFailedSince'
         /\ last_seen_seq' = Current /\ Behind(playlist) => AllFailedSince'
         /\ Current <= Highest' /\ Highest <= Highest'
<1>1. /\ last_seen_seq \in Int /\ Current \in Int /\ Highest \in Int
      /\ last_seen_seq < Current /\ playlist \in Playlists /\ index \in Int
  BY AnnouncedLinter DEF Inv, TypeOK, DeliveryOrder, Option, None, Linters, Highest
<1>2. CASE ~Behind(playlist)
  <2>1. AllFailedSince /\ Current <= Highest + 1
    BY <1>2 DEF History, FailedUpToHighest
  <2>2. CASE last_seen_seq' = Current /\ failed' = failed
    <3>1. \A t \in (Current + 1)..Highest' : t \in (last_seen_seq + 1)..Highest
      BY <1>1 DEF MaxSeqOf
    <3>2. AllFailedSince'
      BY <2>1, <2>2, <3>1 DEF AllFailedSince
    <3> QED
      BY <1>1, <3>2 DEF MaxSeqOf
  <2>3. CASE last_seen_seq' = last_seen_seq /\ failed' = failed \cup {Current}
    <3>1. \A t \in (last_seen_seq + 1)..Highest' :
            t \in (last_seen_seq + 1)..Highest \/ t = Current
      BY <1>1, <2>1 DEF MaxSeqOf
    <3>2. AllFailedSince'
      BY <2>1, <2>3, <3>1 DEF AllFailedSince
    <3> QED
      BY <1>1, <3>2 DEF MaxSeqOf
  <2> QED
    BY <2>2, <2>3 DEF Tried
<1>3. CASE Behind(playlist)
  <2>1. Highest <= Current
    BY <1>1, <1>3 DEF History, FailedUpToHighest, OriginGrows, Edge, Playlists, Current
  <2>2. Highest' = Current
    BY <1>1, <2>1 DEF MaxSeqOf
  <2>3. last_seen_seq' = Current => AllFailedSince'
    <3>1. (Current + 1)..Current = {}
      BY <1>1
    <3> QED
      BY <2>2, <3>1 DEF AllFailedSince
  <2> QED
    BY <1>1, <1>3, <2>1, <2>2, <2>3
<1> QED
  BY <1>2, <1>3

\* One segment of the playlist is announced and tried.
LEMMA HistoryTry ==
  ASSUME Inv, History, NextSegment, pc = "segment", Tried(Current),
         UNCHANGED <<origin, restarts, playlist>>,
         SameMemory(linter', Announced), Accuses(linter') = Accuses(Announced)
  PROVE  History'
<1>1. /\ last_seen_seq \in Option(Nat) /\ last_seen_seq \in Int
      /\ Current \in Nat /\ Highest \in Int /\ last_seen_seq < Current
      /\ playlist \in Playlists /\ origin \in Playlists /\ index \in Int
      /\ index < playlist.segments /\ linter \in Linters /\ restarts \in Nat
  BY AnnouncedLinter DEF Inv, TypeOK, DeliveryOrder, Option, None, Linters, Highest
<1>2. /\ playlist.media_sequence \in Nat /\ playlist.segments \in Nat
      /\ playlist.discontinuity_sequence \in Nat
      /\ origin.media_sequence \in Nat /\ origin.discontinuity_sequence \in Nat
      /\ linter.last_discontinuity_seq \in Int /\ Edge(playlist) \in Nat
      /\ Edge(origin) \in Int
  BY <1>1 DEF Playlists, Linters, Option, None, Edge
<1>3. /\ linter'.last_media_sequence = linter.last_media_sequence
      /\ Highest' = MaxSeqOf(Current, Highest)
      /\ linter'.last_discontinuity_seq
           \in {linter.last_discontinuity_seq, playlist.discontinuity_sequence}
      /\ Accuses(linter') \subseteq Accuses(linter) \cup {"DISCONTINUITY_SEQ", "SEQ_REGRESS"}
      /\ "DISCONTINUITY_SEQ" \in Accuses(linter') =>
           \/ "DISCONTINUITY_SEQ" \in Accuses(linter)
           \/ playlist.discontinuity_sequence < linter.last_discontinuity_seq
      /\ "SEQ_REGRESS" \in Accuses(linter') =>
           "SEQ_REGRESS" \in Accuses(linter) \/ Current < Highest
  <2> DEFINE long == Current \in LongSegments
             discontinuity == Current \in Discontinuities
             number == playlist.discontinuity_sequence
             after == OnNewSegment(linter, Current, long, discontinuity, number)
  <2>1. discontinuity \in BOOLEAN /\ number \in Nat
    BY <1>2
  <2>2. Announced = after
    BY DEF Announced
  <2> HIDE DEF long, discontinuity, number, after
  <2>3. /\ after.last_media_sequence = linter.last_media_sequence
        /\ after.last_highest_seq = MaxSeqOf(Current, linter.last_highest_seq)
        /\ after.last_discontinuity_seq \in {linter.last_discontinuity_seq, number}
        /\ Accuses(after) \subseteq Accuses(linter) \cup {"DISCONTINUITY_SEQ", "SEQ_REGRESS"}
        /\ "DISCONTINUITY_SEQ" \in Accuses(after) =>
             \/ "DISCONTINUITY_SEQ" \in Accuses(linter)
             \/ number < linter.last_discontinuity_seq
        /\ "SEQ_REGRESS" \in Accuses(after) =>
             "SEQ_REGRESS" \in Accuses(linter) \/ Current < linter.last_highest_seq
    BY <1>1, <2>1, NewSegmentMemory DEF after
  <2> QED
    BY <2>2, <2>3 DEF SameMemory, Highest, number
<1>4. /\ index' = index + 1 /\ pc' \in {"segment", "report"}
      /\ pc' = "segment" => index' < playlist.segments
      /\ Current' = Current + 1
  <2>1. /\ index' = index + 1 /\ pc' \in {"segment", "report"}
        /\ pc' = "segment" => index' < playlist.segments
    BY NextSegmentType
  <2> QED
    BY <1>1, <1>2, <2>1 DEF Current
<1>5. restarts = 0 =>
        /\ Highest' < Edge(playlist) /\ Current < Edge(playlist)
        /\ Current <= Highest' /\ Highest <= Highest'
        /\ Highest' \in {Current, Highest}
  BY <1>1, <1>2, <1>3 DEF History, OriginGrows, MaxSeqOf, Edge, Current
<1>6. OriginGrows'
  <2>1. Highest' \in Int /\ Edge(playlist') = Edge(playlist) /\ Edge(origin') = Edge(origin)
    BY <1>1, <1>3 DEF MaxSeqOf, Edge
  <2>2. OriginGrows
    BY DEF History
  <2> QED
    BY <1>1, <1>2, <1>3, <1>5, <2>1, <2>2 DEF OriginGrows
<1>7. HighestIsTried'
  <2>1. Attempted' = Attempted \cup {Current} /\ Attempted \subseteq Nat
    BY DEF Tried, Attempted, Inv, TypeOK
  <2>2. last_seen_seq' # None /\ restarts = 0 => last_seen_seq' \in delivered'
    BY DEF Tried, History, HighestIsTried
  <2>3. HighestIsTried
    BY DEF History
  <2>4. restarts = 0 => \A s \in Attempted' : s <= Highest'
    BY <1>1, <1>5, <2>1, <2>3 DEF HighestIsTried
  <2>5. restarts = 0 => Highest' \in Attempted'
    BY <1>1, <1>5, <2>1, <2>3 DEF HighestIsTried, None
  <2> QED
    BY <2>2, <2>4, <2>5 DEF HighestIsTried
<1>8. FailedUpToHighest'
  <2> SUFFICES ASSUME restarts = 0
               PROVE  /\ pc' # "segment" /\ ~Behind(origin)' => AllFailedSince'
                      /\ pc' = "segment" =>
                           ~Behind(playlist)' /\ Current' <= Highest' + 1 /\ AllFailedSince'
    BY DEF FailedUpToHighest
  <2>1. /\ ~Behind(playlist) => AllFailedSince'
        /\ last_seen_seq' = Current /\ Behind(playlist) => AllFailedSince'
    BY <1>3, FailedSinceTry
  <2>2. pc' = "segment" => ~Behind(playlist)
    BY <1>1, <1>2, <1>4 DEF History, FailedUpToHighest
  <2>3. ~Behind(playlist) => ~Behind(playlist)'
    BY <1>1, <1>2 DEF Behind, Tried, Current, None, Inv, TypeOK
  <2>4. Behind(playlist) /\ last_seen_seq' = last_seen_seq => Behind(origin)'
    BY <1>1, <1>2 DEF Behind, History, OriginGrows
  <2>5. Current' <= Highest' + 1
    BY <1>1, <1>4, <1>5
  <2> QED
    BY <2>1, <2>2, <2>3, <2>4, <2>5 DEF Tried
<1>9. NoAccusation'
  <2>1. NoAccusation /\ OriginGrows
    BY DEF History
  <2>2. "MEDIA_SEQUENCE_REGRESS" \in Accuses(linter') =>
          "MEDIA_SEQUENCE_REGRESS" \in Accuses(linter)
    BY <1>3
  <2>3. "DISCONTINUITY_SEQ" \in Accuses(linter') => restarts > 0
    BY <1>1, <1>2, <1>3, <2>1 DEF NoAccusation, OriginGrows
  <2>4. failed \subseteq failed' /\ failed \subseteq Nat
    BY DEF Tried, Inv, TypeOK
  <2>5. ASSUME restarts = 0, Current < Highest
        PROVE  \E s, t \in failed : s < t
    <3>1. Current \in failed /\ Highest \in failed
      BY <1>1, <2>5, RetriesOnly
    <3> QED
      BY <2>5, <3>1
  <2>6. "SEQ_REGRESS" \in Accuses(linter') => restarts > 0 \/ \E s, t \in failed' : s < t
    BY <1>1, <1>3, <2>1, <2>4, <2>5 DEF NoAccusation
  <2> QED
    BY <2>1, <2>2, <2>3, <2>6 DEF NoAccusation
<1>10. LossIsReported'
  BY LossReportedOnTry
<1> QED
  BY <1>6, <1>7, <1>8, <1>9, <1>10 DEF History

LEMMA HistorySegment == Inv /\ History /\ (ProcessSegment \/ SegmentFailed) => History'
<1> SUFFICES ASSUME Inv, History, ProcessSegment \/ SegmentFailed PROVE History'
  OBVIOUS
<1>1. /\ pc = "segment" /\ NextSegment /\ Tried(Current)
      /\ UNCHANGED <<origin, restarts, playlist>>
  BY DEF ProcessSegment, SegmentFailed, Tried, originVars
<1>2. Announced \in Linters
  BY AnnouncedLinter DEF Inv
<1>3. SameMemory(linter', Announced) /\ Accuses(linter') = Accuses(Announced)
  <2>1. CASE ProcessSegment
    <3>1. PICK d \in 0..MaxDelay, fetch \in SegmentFetches :
            linter' = LintPdtWireDrift(OnCdnHeaders(Aged(Announced, d), fetch), fetch)
      BY <2>1 DEF ProcessSegment
    <3> DEFINE aged == Aged(Announced, d)
    <3>2. aged \in Linters /\ SameMemory(aged, Announced) /\ Accuses(aged) = Accuses(Announced)
      BY <1>2, AgedLinter, AgedMemory, HlsAssumption
    <3>3. fetch \in Fetches /\ linter' = LintPdtWireDrift(OnCdnHeaders(aged, fetch), fetch)
      BY <3>1, HlsAssumption
    <3> HIDE DEF aged
    <3>4. SameMemory(linter', aged) /\ Accuses(linter') = Accuses(aged)
      BY <3>2, <3>3, FetchMemory
    <3> QED
      BY <3>2, <3>4 DEF SameMemory
  <2>2. CASE SegmentFailed
    BY <1>2, <2>2, AgedMemory DEF SegmentFailed
  <2> QED
    BY <2>1, <2>2
<1> QED
  BY <1>1, <1>3, HistoryTry

LEMMA HistoryStep == Inv /\ History /\ [Next]_vars => History'
<1> SUFFICES ASSUME Inv, History, [Next]_vars PROVE History'
  OBVIOUS
<1>1. CASE Next
  BY <1>1, HistoryPackager, HistoryBetweenSegments, HistoryFetchMedia, HistorySegment
     DEF Next, Poller
<1>2. CASE UNCHANGED vars
  BY <1>2 DEF vars, History, OriginGrows, HighestIsTried, FailedUpToHighest, NoAccusation,
              LossIsReported, Highest, Edge, Attempted, AllFailedSince, Behind, Current
<1> QED
  BY <1>1, <1>2

LEMMA SpecHistory == Spec => []History
<1> QED
  BY HistoryInit, HistoryStep, InitInv, StepInv, PTL DEF Spec

\* Segments lost between two polls are noticed: wherever two neighbouring
\* sequences were never tried between ones that were, SEQ_SKIP spoke of both
\* (on_new_segment, with the start index of handle_media).
THEOREM LossReported == Spec => []LossIsReported
<1>1. History => LossIsReported
  BY DEF History
<1> QED
  BY <1>1, SpecHistory, PTL

\* The sequence checks of the linter accuse only a packager that restarted; a
\* SEQ_REGRESS may also stem from two failed segments that are fetched again.
THEOREM NoFalseAlarms == Spec => []NoFalseAlarm
<1>1. History => NoFalseAlarm
  BY DEF History, NoAccusation, NoFalseAlarm, Accuses, StepsBack
<1> QED
  BY <1>1, SpecHistory, PTL
=============================================================================
