------------------------------ MODULE DashPoller ------------------------------
(***************************************************************************)
(* The DASH poll loop (src/src/engine/poller/dash_poll.rs) beside a        *)
(* packager and the local clock.  A cycle of run_dash_loop is Wake (the    *)
(* sleep ends, check_stalling), FetchManifest (poll_dash_once up to the    *)
(* segment request), at most one ProbeSegment, and EndCycle.               *)
(*                                                                         *)
(* An MPD may tell its newest segment (the live edge) or only when it was  *)
(* published, or neither.  The edge of a SegmentTimeline moves with the    *)
(* packager; that of a duration template is computed from the local clock  *)
(* and moves on whether or not the packager still lives.  poll_dash_once   *)
(* remembers the edge before it knows whether the segment request          *)
(* succeeds, so a failed edge is not tried again.  Edges are their keys; a *)
(* tick is half a second.                                                  *)
(***************************************************************************)
EXTENDS SpecLinter

CONSTANTS
  TargetDuration,      \* the segment duration hint, rounded up, in seconds
  MinimumUpdatePeriod, \* of the MPD in ticks, None when absent
  Interval,            \* the --interval option in ticks, None when absent
  IopRules,            \* what audit_dash_iop finds in a dynamic MPD
  ProbeResults,        \* how a successful segment response may look
  MaxProbeSeq,         \* probe_seq, a saturating counter, stops here
  MaxEdge,             \* bound: keys of live edges and publish times
  MaxDelay,            \* bound: ticks one response may take
  MaxPollErrors,       \* bound: failed manifest fetches
  MaxProbeErrors       \* bound: failed segment requests

ASSUME DashAssumption ==
  /\ TargetDuration \in Nat \ {0}
  /\ MinimumUpdatePeriod \in Option(Nat \ {0}) /\ Interval \in Option(Nat \ {0})
  /\ IopRules \subseteq {"DASH_AVAIL_START", "DASH_SPD_MUP", "DASH_TIMELINE_GAP"}
  /\ ProbeResults \subseteq Fetches
  /\ MaxProbeSeq \in Nat \ {0} /\ MaxEdge \in Nat /\ MaxDelay \in Nat
  /\ MaxPollErrors \in Nat /\ MaxProbeErrors \in Nat

VARIABLES
  origin,              \* the packager's current MPD
  pc,                  \* where the poll loop is
  manifest,            \* the MPD of this cycle
  poll_ok,             \* did this cycle's poll_dash_once return Ok?
  last_publish, last_edge_key, probe_seq,
  target_duration, last_mup, consecutive_errors, is_static,
  linter,
  status,              \* of the last Status event
  health,              \* deductions of the last Health event
  poll_errors, probe_errors,       \* the bounds' counters
  tried, fetched       \* history: edges that were requested, and received

vars == <<origin, pc, manifest, poll_ok, last_publish, last_edge_key, probe_seq,
          target_duration, last_mup, consecutive_errors, is_static, linter,
          status, health, poll_errors, probe_errors, tried, fetched>>
pollVars == <<last_publish, last_edge_key, probe_seq>>
loopVars == <<target_duration, last_mup, consecutive_errors, is_static, status, health>>

-----------------------------------------------------------------------------
(* The packager, and what the clock makes of its MPD.  publishTime may or  *)
(* may not change with the live edge.                                      *)

Manifests == [edge : Option(0..MaxEdge), publish : Option(0..MaxEdge), live : BOOLEAN,
              byClock : BOOLEAN]  \* a duration template, no SegmentTimeline

Later(mark) == IF mark = None THEN {None} ELSE {mark, mark + 1} \cap 0..MaxEdge

\* A SegmentTimeline gets its next segment.
NewEdge ==
  /\ origin.live /\ origin.edge # None /\ origin.edge < MaxEdge /\ ~origin.byClock
  /\ \E publish \in Later(origin.publish) :
       origin' = [origin EXCEPT !.edge = @ + 1, !.publish = publish]

Republish ==
  /\ origin.live /\ origin.publish # None /\ origin.publish < MaxEdge
  /\ origin' = [origin EXCEPT !.publish = @ + 1]

\* A static MPD has no live edge.
EndEvent ==
  /\ origin.live
  /\ \E publish \in Later(origin.publish) :
       origin' = [edge |-> None, publish |-> publish, live |-> FALSE, byClock |-> FALSE]

Packager ==
  /\ NewEdge \/ Republish \/ EndEvent
  /\ UNCHANGED <<pc, manifest, poll_ok, pollVars, loopVars, linter, poll_errors,
                 probe_errors, tried, fetched>>

\* A segment duration goes by: the edge of a duration template is the next one,
\* whatever the packager does.
ClockEdge ==
  /\ origin.live /\ origin.edge # None /\ origin.edge < MaxEdge /\ origin.byClock
  /\ origin' = [origin EXCEPT !.edge = @ + 1]
  /\ UNCHANGED <<pc, manifest, poll_ok, pollVars, loopVars, linter, poll_errors,
                 probe_errors, tried, fetched>>

-----------------------------------------------------------------------------
(* The poll loop.                                                          *)

\* --interval, else the MPD's update period, else half the target duration.
Wait == IF Interval # None THEN Interval
        ELSE IF last_mup # None THEN last_mup
        ELSE IF target_duration = 0 THEN 2 * TicksPerSecond ELSE target_duration

Wake ==
  /\ pc = "sleep"
  /\ LET aged == Aged(linter, Wait)
     IN  linter' = IF is_static THEN aged ELSE CheckStalling(aged, target_duration)
  /\ pc' = "manifest"
  /\ UNCHANGED <<origin, pollVars, loopVars, manifest, poll_ok, poll_errors,
                 probe_errors, tried, fetched>>

PublishChanged == origin.publish = None \/ last_publish = None \/ origin.publish # last_publish

\* Variants: the edge is looked at only in a republished MPD; every poll probes.
ShouldProbeRepublished == PublishChanged \/ probe_seq = 0
ShouldProbeAlways == TRUE

ShouldProbe == IF origin.edge # None THEN last_edge_key # origin.edge
               ELSE PublishChanged \/ probe_seq = 0

NextProbe == IF probe_seq < MaxProbeSeq THEN probe_seq + 1 ELSE probe_seq

\* What audit_dash_iop finds: the live rules need a dynamic MPD.
AuditDashIop(mpd) == IF mpd.live THEN IopRules ELSE IopRules \cap {"DASH_TIMELINE_GAP"}

Known(mark, last) == IF mark = None THEN last ELSE mark

\* The MPD arrives.  Its marks are remembered and a new segment is announced to
\* the linter, all before the segment is requested.
FetchManifest ==
  /\ pc = "manifest"
  /\ manifest' = origin
  /\ last_publish' = Known(origin.publish, last_publish)
  /\ last_edge_key' = Known(origin.edge, last_edge_key)
  /\ probe_seq' = IF ShouldProbe THEN NextProbe ELSE probe_seq
  /\ \E d \in 0..MaxDelay :
       LET audited == Push(Aged(linter, d), AuditDashIop(origin))
       IN  linter' = IF ShouldProbe
                     THEN OnNewSegment(audited, NextProbe, FALSE, FALSE, 0)
                     ELSE audited
  /\ poll_ok' = ~ShouldProbe
  /\ pc' = IF ShouldProbe THEN "probe" ELSE "report"
  /\ UNCHANGED <<origin, loopVars, poll_errors, probe_errors, tried, fetched>>

\* poll_dash_once returns Err before it has read an MPD.
FetchFailed ==
  /\ pc = "manifest"
  /\ poll_errors < MaxPollErrors
  /\ poll_errors' = poll_errors + 1
  /\ \E d \in 0..MaxDelay : linter' = Aged(linter, d)
  /\ poll_ok' = FALSE
  /\ pc' = "report"
  /\ UNCHANGED <<origin, pollVars, loopVars, manifest, probe_errors, tried, fetched>>

Requested == IF manifest.edge = None THEN {} ELSE {manifest.edge}

\* The segment arrives and its Segment event is sent.
ProbeSegment ==
  /\ pc = "probe"
  /\ \E d \in 0..MaxDelay, result \in ProbeResults :
       linter' = OnCdnHeaders(Aged(linter, d), result)
  /\ tried' = tried \cup Requested
  /\ fetched' = fetched \cup Requested
  /\ poll_ok' = TRUE
  /\ pc' = "report"
  /\ UNCHANGED <<origin, pollVars, loopVars, manifest, poll_errors, probe_errors>>

\* The `?` of the segment request: poll_dash_once returns Err.
ProbeFailed ==
  /\ pc = "probe"
  /\ probe_errors < MaxProbeErrors
  /\ probe_errors' = probe_errors + 1
  /\ \E d \in 0..MaxDelay : linter' = Aged(linter, d)
  /\ tried' = tried \cup Requested
  /\ pc' = "report"
  /\ UNCHANGED <<origin, pollVars, loopVars, manifest, poll_ok, poll_errors, fetched>>

Flushed == ClearRfcFlagIfClean(TakeFindings(linter))

ErrorsAfter == IF poll_ok THEN 0 ELSE consecutive_errors + 1

\* The rest of the cycle, without an await.
EndCycle ==
  /\ pc = "report"
  /\ consecutive_errors' = ErrorsAfter
  /\ IF poll_ok
     THEN /\ target_duration' = TargetDuration
          /\ last_mup' = Known(MinimumUpdatePeriod, last_mup)
          /\ is_static' = ~manifest.live
          /\ status' = IF manifest.live THEN "live" ELSE "vod"
     ELSE /\ status' = IF ErrorsAfter >= 3 THEN "error" ELSE "degraded"
          /\ UNCHANGED <<target_duration, last_mup, is_static>>
  /\ health' = Deductions(Flushed)
  /\ linter' = AfterHealth(Flushed)
  /\ poll_ok' = FALSE
  /\ pc' = "sleep"
  /\ UNCHANGED <<origin, pollVars, manifest, poll_errors, probe_errors, tried, fetched>>

-----------------------------------------------------------------------------
Init ==
  /\ origin \in [edge : {None, 0}, publish : {None, 0}, live : {TRUE}, byClock : BOOLEAN]
  /\ origin.byClock => origin.edge # None
  /\ pc = "manifest"
  /\ manifest = [edge |-> None, publish |-> None, live |-> TRUE, byClock |-> FALSE]
  /\ poll_ok = FALSE
  /\ last_publish = None /\ last_edge_key = None /\ probe_seq = 0
  /\ target_duration = 2 /\ last_mup = None
  /\ consecutive_errors = 0 /\ is_static = FALSE
  /\ linter = NewLinter
  /\ status = "connecting" /\ health = {}
  /\ poll_errors = 0 /\ probe_errors = 0
  /\ tried = {} /\ fetched = {}

Poller == Wake \/ FetchManifest \/ FetchFailed \/ ProbeSegment \/ ProbeFailed \/ EndCycle

Next == Poller \/ Packager \/ ClockEdge

\* As for HLS: the task is scheduled and its requests end.
Spec == Init /\ [][Next]_vars /\ WF_vars(Poller)

-----------------------------------------------------------------------------
(* Properties.                                                             *)

\* The loop's state has its type, and consecutive_errors counts failures only:
\* a poll that finds nothing new is not one of them.
TypeOK ==
  /\ origin \in Manifests /\ manifest \in Manifests
  /\ pc \in {"sleep", "manifest", "probe", "report"}
  /\ poll_ok \in BOOLEAN /\ is_static \in BOOLEAN
  /\ last_publish \in Option(0..MaxEdge) /\ last_edge_key \in Option(0..MaxEdge)
  /\ probe_seq \in 0..MaxProbeSeq
  /\ target_duration \in {2, TargetDuration}
  /\ last_mup \in {None, MinimumUpdatePeriod}
  /\ linter \in Linters
  /\ status \in {"connecting", "live", "vod", "degraded", "error"}
  /\ health \in SUBSET HealthFlags
  /\ poll_errors \in 0..MaxPollErrors /\ probe_errors \in 0..MaxProbeErrors
  /\ consecutive_errors \in 0..(poll_errors + probe_errors)
  /\ tried \in SUBSET (0..MaxEdge) /\ fetched \in SUBSET tried

\* A Health event never blames the origin's stall and the CDN together: a
\* segment that shows a cache miss or a slow first byte has ended the stall.
HealthBlamesOneSide == Score(health) >= 80

\* No edge is requested twice, however often its MPD is polled or republished
\* and whether or not its request succeeded; edges are requested in order.
ProbesOnlyNewEdges ==
  [][pc = "manifest" /\ pc' = "probe" /\ manifest'.edge # None
       => \A edge \in tried : edge < manifest'.edge]_vars

\* An edge that no newer one follows gets requested, also when the MPD does not
\* change its publishTime with it and whatever polls fail.
NewestEdgeIsTried == <>[](origin.edge = None \/ origin.edge \in tried)

\* A live packager that stops is reported as stalled, and stays so, if its MPD
\* tells anything of its progress: a SegmentTimeline, or publishTime.  With
\* neither, every poll probes and counts as a new segment.  With a duration
\* template the clock brings new edges for ever: each is announced to the linter
\* before its request fails, which clears the stall, so that a packager that died
\* is not reported as stalled and byClock has to be left out here.
StallIsNoticed ==
  <>[](\/ ~origin.live \/ origin.byClock
       \/ origin.edge = None /\ origin.publish = None
       \/ "origin_stall" \in health)
=============================================================================
