---------------------------- MODULE DashPollerProofs ----------------------------
(***************************************************************************)
(* Proofs about the DASH poll loop, for every value of the constants: type *)
(* correctness with the error count, that edges are requested once and in  *)
(* order, and that a Health event blames one side.                         *)
(***************************************************************************)
EXTENDS DashPoller, SpecLinterProofs

\* A failed poll on its way to EndCycle has been counted by the bounds, and not
\* yet by the loop.
ErrorsCounted ==
  /\ pc # "report" => ~poll_ok
  /\ pc = "report" /\ ~poll_ok => consecutive_errors + 1 <= poll_errors + probe_errors

\* last_edge_key is the newest edge that was requested or is about to be, and
\* the packager is never behind it.
EdgesInOrder ==
  /\ \A edge \in tried : edge <= last_edge_key
  /\ pc = "probe" => manifest.edge \in {None, last_edge_key}
  /\ origin.edge # None => last_edge_key <= origin.edge

\* The stall flag falls when a segment is announced, the flags of its fetch rise
\* after that and fall when the cycle ends.
OneSide(flags) ==
  "origin_stall" \in flags => "cdn_miss" \notin flags /\ "high_ttfb" \notin flags

FlagsBlameOneSide ==
  /\ OneSide(linter.flags)
  /\ pc # "report" => "cdn_miss" \notin linter.flags /\ "high_ttfb" \notin linter.flags
  /\ pc = "probe" => "origin_stall" \notin linter.flags
  /\ "rfc_violation" \notin health /\ OneSide(health)

Inv == TypeOK /\ ErrorsCounted /\ EdgesInOrder /\ FlagsBlameOneSide

LEMMA WaitType == TypeOK => Wait \in Nat
BY DashAssumption DEF TypeOK, Wait, Option, None, TicksPerSecond

LEMMA InitInv == Init => Inv
<1> SUFFICES ASSUME Init PROVE Inv
  OBVIOUS
<1> USE DashAssumption DEF Init
<1>1. NewLinter \in Linters /\ NewLinter.flags = {}
  BY DEF NewLinter, Linters, Option, None
<1>2. origin \in Manifests
  <2>1. /\ origin.edge \in {None, 0} /\ origin.publish \in {None, 0}
        /\ origin.live = TRUE /\ origin.byClock \in BOOLEAN
        /\ origin = [edge |-> origin.edge, publish |-> origin.publish, live |-> origin.live,
                     byClock |-> origin.byClock]
    OBVIOUS
  <2>2. origin.edge \in Option(0..MaxEdge) /\ origin.publish \in Option(0..MaxEdge)
    BY <2>1 DEF Option
  <2> QED
    BY <2>1, <2>2 DEF Manifests
<1>3. manifest \in Manifests
  BY DEF Manifests, Option
<1>4. TypeOK
  <2>1. last_publish \in Option(0..MaxEdge) /\ last_edge_key \in Option(0..MaxEdge)
    BY DEF Option
  <2>2. poll_ok \in BOOLEAN /\ is_static \in BOOLEAN
    OBVIOUS
  <2>3. /\ probe_seq \in 0..MaxProbeSeq /\ target_duration \in {2, TargetDuration}
        /\ last_mup \in {None, MinimumUpdatePeriod}
    OBVIOUS
  <2>4. /\ poll_errors \in 0..MaxPollErrors /\ probe_errors \in 0..MaxProbeErrors
        /\ consecutive_errors \in 0..(poll_errors + probe_errors)
    OBVIOUS
  <2>5. /\ pc \in {"sleep", "manifest", "probe", "report"}
        /\ status \in {"connecting", "live", "vod", "degraded", "error"}
        /\ health \in SUBSET HealthFlags
        /\ tried \in SUBSET (0..MaxEdge) /\ fetched \in SUBSET tried
    OBVIOUS
  <2>6. linter \in Linters
    BY <1>1
  <2> QED
    BY <1>2, <1>3, <2>1, <2>2, <2>3, <2>4, <2>5, <2>6 DEF TypeOK
<1>5. ErrorsCounted /\ FlagsBlameOneSide
  BY <1>1 DEF ErrorsCounted, FlagsBlameOneSide, OneSide
<1>6. EdgesInOrder
  BY DEF EdgesInOrder, None
<1> QED
  BY <1>4, <1>5, <1>6 DEF Inv

\* The packager, and the clock that moves the edge of a duration template.
LEMMA PackagerInv == Inv /\ (Packager \/ ClockEdge) => Inv'
<1> SUFFICES ASSUME Inv, Packager \/ ClockEdge PROVE Inv'
  OBVIOUS
<1> USE DashAssumption DEF Inv
<1>1. ASSUME NEW mark \in Option(0..MaxEdge) PROVE Later(mark) \subseteq Option(0..MaxEdge)
  BY <1>1 DEF Later, Option, None
<1>2. /\ origin.edge \in Option(0..MaxEdge) /\ origin.publish \in Option(0..MaxEdge)
      /\ origin.live \in BOOLEAN /\ origin.byClock \in BOOLEAN
      /\ origin = [edge |-> origin.edge, publish |-> origin.publish, live |-> origin.live,
                   byClock |-> origin.byClock]
  BY DEF TypeOK, Manifests
<1>3. /\ origin' \in Manifests
      /\ origin'.edge # None => origin.edge # None /\ origin.edge <= origin'.edge
  <2>1. CASE NewEdge
    <3>1. PICK publish \in Later(origin.publish) :
            origin' = [origin EXCEPT !.edge = origin.edge + 1, !.publish = publish]
      BY <2>1 DEF NewEdge
    <3>2. publish \in Option(0..MaxEdge)
      BY <1>1, <1>2
    <3>3. origin.edge \in 0..MaxEdge /\ origin.edge + 1 \in 0..MaxEdge
      BY <1>2, <2>1 DEF NewEdge, Option
    <3>4. origin.edge + 1 \in Option(0..MaxEdge)
      BY <3>3 DEF Option
    <3>5. origin' = [edge |-> origin.edge + 1, publish |-> publish, live |-> origin.live,
                     byClock |-> origin.byClock]
      BY <1>2, <3>1
    <3>6. origin' \in Manifests
      BY <1>2, <3>2, <3>4, <3>5 DEF Manifests
    <3>7. origin'.edge = origin.edge + 1 /\ origin.edge # None
      BY <2>1, <3>5 DEF NewEdge
    <3> QED
      BY <3>3, <3>6, <3>7
  <2>2. CASE ClockEdge
    <3>1. origin.edge \in 0..MaxEdge /\ origin.edge + 1 \in 0..MaxEdge
      BY <1>2, <2>2 DEF ClockEdge, Option
    <3>2. origin.edge + 1 \in Option(0..MaxEdge)
      BY <3>1 DEF Option
    <3>3. origin' = [edge |-> origin.edge + 1, publish |-> origin.publish,
                     live |-> origin.live, byClock |-> origin.byClock]
      BY <1>2, <2>2 DEF ClockEdge
    <3>4. origin' \in Manifests
      BY <1>2, <3>2, <3>3 DEF Manifests
    <3> QED
      BY <2>2, <3>1, <3>3, <3>4 DEF ClockEdge
  <2>3. CASE Republish
    <3>1. origin.publish + 1 \in Option(0..MaxEdge)
      BY <1>2, <2>3 DEF Republish, Option
    <3>2. origin' = [edge |-> origin.edge, publish |-> origin.publish + 1, live |-> origin.live,
                     byClock |-> origin.byClock]
      BY <1>2, <2>3 DEF Republish
    <3> QED
      BY <1>2, <3>1, <3>2 DEF Manifests, Option, None
  <2>4. CASE EndEvent
    <3>1. PICK publish \in Later(origin.publish) :
            origin' = [edge |-> None, publish |-> publish, live |-> FALSE, byClock |-> FALSE]
      BY <2>4 DEF EndEvent
    <3>2. publish \in Option(0..MaxEdge) /\ None \in Option(0..MaxEdge)
      BY <1>1, <1>2 DEF Option
    <3> QED
      BY <3>1, <3>2 DEF Manifests
  <2> QED
    BY <2>1, <2>2, <2>3, <2>4 DEF Packager
<1>4. UNCHANGED <<pc, manifest, poll_ok, last_publish, last_edge_key, probe_seq,
                  target_duration, last_mup, consecutive_errors, is_static, linter, status,
                  health, poll_errors, probe_errors, tried, fetched>>
  BY DEF Packager, ClockEdge, pollVars, loopVars
<1>5. TypeOK'
  BY <1>3, <1>4 DEF TypeOK
<1>6. (ErrorsCounted /\ FlagsBlameOneSide)'
  BY <1>4 DEF ErrorsCounted, FlagsBlameOneSide
<1>7. EdgesInOrder'
  BY <1>2, <1>3, <1>4 DEF EdgesInOrder, TypeOK, Manifests, Option, None
<1> QED
  BY <1>5, <1>6, <1>7

LEMMA WakeInv == Inv /\ Wake => Inv'
<1> SUFFICES ASSUME Inv, Wake PROVE Inv'
  OBVIOUS
<1> USE DashAssumption DEF Inv
<1> DEFINE aged == Aged(linter, Wait)
<1>1. aged \in Linters /\ aged.flags = linter.flags
  BY WaitType, AgedLinter DEF TypeOK
<1>2. target_duration \in Nat
  BY DEF TypeOK
<1>3. linter' = aged \/ linter' = CheckStalling(aged, target_duration)
  BY DEF Wake
<1> HIDE DEF aged
<1>4. /\ linter' \in Linters
      /\ linter'.flags \in {aged.flags, aged.flags \cup {"origin_stall"}}
  BY <1>1, <1>2, <1>3, StallingLinter
<1>5. UNCHANGED <<origin, manifest, poll_ok, last_publish, last_edge_key, probe_seq,
                  target_duration, last_mup, consecutive_errors, is_static, status,
                  health, poll_errors, probe_errors, tried, fetched>>
      /\ pc = "sleep" /\ pc' = "manifest"
  BY DEF Wake, pollVars, loopVars
<1>6. TypeOK'
  BY <1>4, <1>5 DEF TypeOK
<1>7. (ErrorsCounted /\ EdgesInOrder)'
  BY <1>5 DEF ErrorsCounted, EdgesInOrder
<1>8. FlagsBlameOneSide'
  BY <1>1, <1>4, <1>5 DEF FlagsBlameOneSide, OneSide
<1> QED
  BY <1>6, <1>7, <1>8

\* What the MPD's audit and the announcement of a probe make of the linter.
LEMMA FetchManifestLinter ==
  ASSUME Inv, FetchManifest
  PROVE  /\ linter' \in Linters
         /\ pc' \in {"probe", "report"}
         /\ linter'.flags \subseteq linter.flags \cup {"rfc_violation"}
         /\ pc' = "probe" => "origin_stall" \notin linter'.flags
<1> USE DashAssumption DEF Inv
<1>1. PICK d \in 0..MaxDelay :
        LET audited == Push(Aged(linter, d), AuditDashIop(origin))
        IN  linter' = IF ShouldProbe THEN OnNewSegment(audited, NextProbe, FALSE, FALSE, 0)
                      ELSE audited
  BY DEF FetchManifest
<1> DEFINE aged == Aged(linter, d)
           audited == Push(aged, AuditDashIop(origin))
<1>2. aged \in Linters /\ aged.flags = linter.flags
  BY AgedLinter DEF TypeOK
<1> HIDE DEF aged
<1>3. /\ AuditDashIop(origin) \in SUBSET Rules
      /\ FlagsOf(AuditDashIop(origin)) \subseteq {"rfc_violation"}
  BY DEF AuditDashIop, Rules, RfcRules, RfcErrors, RfcOthers, StallRules, FlagsOf
<1>4. audited \in Linters /\ audited.flags \subseteq linter.flags \cup {"rfc_violation"}
  BY <1>2, <1>3, PushLinter
<1>5. linter' = IF ShouldProbe THEN OnNewSegment(audited, NextProbe, FALSE, FALSE, 0) ELSE audited
  BY <1>1 DEF aged
<1> HIDE DEF audited
<1>6. NextProbe \in Nat
  BY DEF NextProbe, TypeOK
<1>7. pc' = IF ShouldProbe THEN "probe" ELSE "report"
  BY DEF FetchManifest
<1>8. CASE ShouldProbe
  <2>1. /\ linter' \in Linters
        /\ linter'.flags \subseteq (audited.flags \cup {"rfc_violation"}) \ {"origin_stall"}
    BY <1>4, <1>5, <1>6, <1>8, NewSegmentLinter
  <2> QED
    BY <1>4, <1>7, <1>8, <2>1
<1>9. CASE ~ShouldProbe
  BY <1>4, <1>5, <1>7, <1>9
<1> QED
  BY <1>8, <1>9

LEMMA FetchManifestInv == Inv /\ FetchManifest => Inv'
<1> SUFFICES ASSUME Inv, FetchManifest PROVE Inv'
  OBVIOUS
<1> USE DashAssumption DEF Inv
<1>1. /\ linter' \in Linters
      /\ linter'.flags \subseteq linter.flags \cup {"rfc_violation"}
      /\ pc' \in {"probe", "report"}
      /\ pc' = "probe" => "origin_stall" \notin linter'.flags
  BY FetchManifestLinter
<1>2. /\ origin.edge \in Option(0..MaxEdge) /\ origin.publish \in Option(0..MaxEdge)
      /\ last_edge_key \in Option(0..MaxEdge) /\ last_publish \in Option(0..MaxEdge)
  BY DEF TypeOK, Manifests
<1>3. /\ last_publish' \in Option(0..MaxEdge) /\ last_edge_key' \in Option(0..MaxEdge)
      /\ last_edge_key <= last_edge_key'
      /\ origin.edge # None => last_edge_key' = origin.edge
  BY <1>2 DEF FetchManifest, Known, EdgesInOrder, Option, None
<1>4. /\ pc = "manifest" /\ manifest' = origin
      /\ poll_ok' \in BOOLEAN /\ pc' = "probe" => poll_ok' = FALSE
      /\ pc' = "report" => poll_ok' = TRUE
  BY DEF FetchManifest
<1>5. UNCHANGED <<origin, target_duration, last_mup, consecutive_errors, is_static, status,
                  health, poll_errors, probe_errors, tried, fetched>>
  BY DEF FetchManifest, loopVars
<1>6. probe_seq' \in 0..MaxProbeSeq
  BY DEF FetchManifest, NextProbe, TypeOK
<1>7. poll_ok' \in BOOLEAN
  BY DEF FetchManifest
<1>8. TypeOK'
  BY <1>1, <1>3, <1>4, <1>5, <1>6, <1>7 DEF TypeOK
<1>9. ErrorsCounted'
  BY <1>1, <1>4 DEF ErrorsCounted
<1>10. EdgesInOrder'
  <2>1. ASSUME NEW edge \in tried' PROVE edge <= last_edge_key'
    <3>1. edge <= last_edge_key /\ edge \in Int
      BY <1>5, <2>1 DEF EdgesInOrder, TypeOK
    <3> QED
      BY <1>2, <1>3, <3>1 DEF Option, None
  <2>2. pc' = "probe" => manifest'.edge \in {None, last_edge_key'}
    BY <1>3, <1>4
  <2>3. origin'.edge # None => last_edge_key' <= origin'.edge
    BY <1>2, <1>3, <1>5 DEF Option, None
  <2> QED
    BY <2>1, <2>2, <2>3 DEF EdgesInOrder
<1>11. FlagsBlameOneSide'
  BY <1>1, <1>4, <1>5 DEF FlagsBlameOneSide, OneSide
<1> QED
  BY <1>8, <1>9, <1>10, <1>11

LEMMA FetchFailedInv == Inv /\ FetchFailed => Inv'
<1> SUFFICES ASSUME Inv, FetchFailed PROVE Inv'
  OBVIOUS
<1> USE DashAssumption DEF Inv
<1>1. PICK d \in 0..MaxDelay : linter' = Aged(linter, d)
  BY DEF FetchFailed
<1>2. linter' \in Linters /\ linter'.flags = linter.flags
  BY <1>1, AgedLinter DEF TypeOK
<1>3. UNCHANGED <<origin, manifest, last_publish, last_edge_key, probe_seq, target_duration,
                  last_mup, consecutive_errors, is_static, status, health, probe_errors,
                  tried, fetched>>
  BY DEF FetchFailed, pollVars, loopVars
<1>4. /\ pc = "manifest" /\ pc' = "report" /\ poll_ok' = FALSE
      /\ poll_errors' = poll_errors + 1 /\ poll_errors < MaxPollErrors
  BY DEF FetchFailed
<1>5. /\ poll_errors' \in 0..MaxPollErrors
      /\ consecutive_errors' \in 0..(poll_errors' + probe_errors')
      /\ consecutive_errors' + 1 <= poll_errors' + probe_errors'
  BY <1>3, <1>4 DEF TypeOK
<1>6. TypeOK'
  BY <1>2, <1>3, <1>4, <1>5 DEF TypeOK
<1>7. ErrorsCounted'
  BY <1>4, <1>5 DEF ErrorsCounted
<1>8. EdgesInOrder'
  BY <1>3, <1>4 DEF EdgesInOrder
<1>9. FlagsBlameOneSide'
  BY <1>2, <1>3, <1>4 DEF FlagsBlameOneSide
<1> QED
  BY <1>6, <1>7, <1>8, <1>9

\* Both ends of a segment request add its edge to those tried.
LEMMA RequestedEdges ==
  ASSUME Inv, pc = "probe", tried' = tried \cup Requested
  PROVE  /\ tried' \in SUBSET (0..MaxEdge)
         /\ Requested \in SUBSET tried' /\ tried \subseteq tried'
         /\ \A edge \in tried' : edge <= last_edge_key
<1>1. manifest.edge \in Option(0..MaxEdge) /\ manifest.edge \in {None, last_edge_key}
  BY DEF Inv, TypeOK, Manifests, EdgesInOrder
<1>2. Requested \subseteq (0..MaxEdge) \cap {last_edge_key}
  BY <1>1 DEF Requested, Option
<1>3. \A edge \in Requested : edge <= last_edge_key
  BY <1>2
<1> QED
  BY <1>2, <1>3 DEF Inv, TypeOK, EdgesInOrder

LEMMA ProbeSegmentInv == Inv /\ ProbeSegment => Inv'
<1> SUFFICES ASSUME Inv, ProbeSegment PROVE Inv'
  OBVIOUS
<1> USE DashAssumption DEF Inv
<1>1. PICK d \in 0..MaxDelay, result \in ProbeResults :
        linter' = OnCdnHeaders(Aged(linter, d), result)
  BY DEF ProbeSegment
<1> DEFINE aged == Aged(linter, d)
<1>2. aged \in Linters /\ aged.flags = linter.flags /\ result \in Fetches
  BY AgedLinter DEF TypeOK
<1>3. linter' = OnCdnHeaders(aged, result)
  BY <1>1
<1> HIDE DEF aged
<1>4. /\ linter' \in Linters
      /\ linter'.flags \subseteq linter.flags \cup {"cdn_miss", "high_ttfb"}
  BY <1>2, <1>3, CdnHeadersLinter
<1>5. UNCHANGED <<origin, manifest, last_publish, last_edge_key, probe_seq, target_duration,
                  last_mup, consecutive_errors, is_static, status, health, poll_errors,
                  probe_errors>>
  BY DEF ProbeSegment, pollVars, loopVars
<1>6. /\ pc = "probe" /\ pc' = "report" /\ poll_ok' = TRUE
      /\ tried' = tried \cup Requested /\ fetched' = fetched \cup Requested
  BY DEF ProbeSegment
<1>7. /\ tried' \in SUBSET (0..MaxEdge)
      /\ Requested \in SUBSET tried' /\ tried \subseteq tried'
      /\ \A edge \in tried' : edge <= last_edge_key
  BY <1>6, RequestedEdges
<1>8. fetched' \in SUBSET tried'
  BY <1>6, <1>7 DEF TypeOK
<1>9. TypeOK'
  BY <1>4, <1>5, <1>6, <1>7, <1>8 DEF TypeOK
<1>10. ErrorsCounted'
  BY <1>6 DEF ErrorsCounted
<1>11. EdgesInOrder'
  BY <1>5, <1>6, <1>7 DEF EdgesInOrder
<1>12. FlagsBlameOneSide'
  BY <1>4, <1>5, <1>6 DEF FlagsBlameOneSide, OneSide
<1> QED
  BY <1>9, <1>10, <1>11, <1>12

LEMMA ProbeFailedInv == Inv /\ ProbeFailed => Inv'
<1> SUFFICES ASSUME Inv, ProbeFailed PROVE Inv'
  OBVIOUS
<1> USE DashAssumption DEF Inv
<1>1. PICK d \in 0..MaxDelay : linter' = Aged(linter, d)
  BY DEF ProbeFailed
<1>2. linter' \in Linters /\ linter'.flags = linter.flags
  BY <1>1, AgedLinter DEF TypeOK
<1>3. UNCHANGED <<origin, manifest, poll_ok, last_publish, last_edge_key, probe_seq,
                  target_duration, last_mup, consecutive_errors, is_static, status, health,
                  poll_errors, fetched>>
  BY DEF ProbeFailed, pollVars, loopVars
<1>4. /\ pc = "probe" /\ pc' = "report" /\ tried' = tried \cup Requested
      /\ probe_errors' = probe_errors + 1 /\ probe_errors < MaxProbeErrors
  BY DEF ProbeFailed
<1>5. /\ tried' \in SUBSET (0..MaxEdge) /\ tried \subseteq tried'
      /\ \A edge \in tried' : edge <= last_edge_key
  BY <1>4, RequestedEdges
<1>6. /\ probe_errors' \in 0..MaxProbeErrors
      /\ consecutive_errors' \in 0..(poll_errors' + probe_errors')
      /\ consecutive_errors' + 1 <= poll_errors' + probe_errors'
  BY <1>3, <1>4 DEF TypeOK
<1>7. fetched' \in SUBSET tried'
  BY <1>3, <1>5 DEF TypeOK
<1>8. TypeOK'
  BY <1>2, <1>3, <1>4, <1>5, <1>6, <1>7 DEF TypeOK
<1>9. ErrorsCounted'
  BY <1>4, <1>6 DEF ErrorsCounted
<1>10. EdgesInOrder'
  BY <1>3, <1>4, <1>5 DEF EdgesInOrder
<1>11. FlagsBlameOneSide'
  BY <1>2, <1>3, <1>4 DEF FlagsBlameOneSide
<1> QED
  BY <1>8, <1>9, <1>10, <1>11

LEMMA EndCycleInv == Inv /\ EndCycle => Inv'
<1> SUFFICES ASSUME Inv, EndCycle PROVE Inv'
  OBVIOUS
<1> USE DashAssumption DEF Inv
<1>1. linter \in Linters
  BY DEF TypeOK
<1>2. /\ Flushed.flags = linter.flags \ {"rfc_violation"}
      /\ linter' \in Linters
      /\ linter'.flags = linter.flags \ {"rfc_violation", "cdn_miss", "high_ttfb"}
  BY <1>1, CycleEndLinter DEF EndCycle, Flushed
<1>3. health' = linter.flags \ {"rfc_violation"}
  BY <1>2 DEF EndCycle, Deductions
<1>4. health' \in SUBSET HealthFlags
  BY <1>1, <1>3 DEF Linters
<1>5. UNCHANGED <<origin, manifest, last_publish, last_edge_key, probe_seq, poll_errors,
                  probe_errors, tried, fetched>>
      /\ pc = "report" /\ pc' = "sleep" /\ poll_ok' = FALSE
  BY DEF EndCycle, pollVars
<1>6. consecutive_errors' \in 0..(poll_errors' + probe_errors')
  BY <1>5 DEF EndCycle, ErrorsAfter, TypeOK, ErrorsCounted
<1>7. /\ target_duration' \in {2, TargetDuration}
      /\ status' \in {"connecting", "live", "vod", "degraded", "error"}
  BY DEF EndCycle, TypeOK
<1>8. last_mup' \in {None, MinimumUpdatePeriod}
  BY DEF EndCycle, Known, TypeOK
<1>9. is_static' \in BOOLEAN
  BY DEF EndCycle, TypeOK, Manifests
<1>10. TypeOK'
  BY <1>2, <1>4, <1>5, <1>6, <1>7, <1>8, <1>9 DEF TypeOK
<1>11. ErrorsCounted'
  BY <1>5 DEF ErrorsCounted
<1>12. EdgesInOrder'
  BY <1>5 DEF EdgesInOrder
<1>13. FlagsBlameOneSide'
  BY <1>2, <1>3, <1>5 DEF FlagsBlameOneSide, OneSide
<1> QED
  BY <1>10, <1>11, <1>12, <1>13

LEMMA StepInv == Inv /\ [Next]_vars => Inv'
<1> SUFFICES ASSUME Inv, [Next]_vars PROVE Inv'
  OBVIOUS
<1>1. CASE UNCHANGED vars
  <2>1. UNCHANGED <<origin, pc, manifest, poll_ok, last_publish, last_edge_key, probe_seq,
                    target_duration, last_mup, consecutive_errors, is_static, linter,
                    status, health, poll_errors, probe_errors, tried, fetched>>
    BY <1>1 DEF vars
  <2>2. (TypeOK /\ ErrorsCounted /\ EdgesInOrder /\ FlagsBlameOneSide)'
    BY <2>1 DEF Inv, TypeOK, ErrorsCounted, EdgesInOrder, FlagsBlameOneSide
  <2> QED
    BY <2>2 DEF Inv
<1> QED
  BY <1>1, PackagerInv, WakeInv, FetchManifestInv, FetchFailedInv, ProbeSegmentInv,
     ProbeFailedInv, EndCycleInv DEF Next, Poller

LEMMA SpecInv == Spec => []Inv
<1> QED
  BY InitInv, StepInv, PTL DEF Spec

-----------------------------------------------------------------------------
(* The theorems.                                                           *)

\* Every variable of run_dash_loop keeps its type, and consecutive_errors never
\* exceeds the failures there were.
THEOREM TypeCorrect == Spec => []TypeOK
<1>1. Inv => TypeOK
  BY DEF Inv
<1> QED
  BY <1>1, SpecInv, PTL

\* poll_dash_once never requests an edge again, however often its MPD is polled
\* or republished, and never one behind another that was requested.
THEOREM EdgesRequestedInOrder == Spec => ProbesOnlyNewEdges
<1>1. Inv /\ [Next]_vars
        => [pc = "manifest" /\ pc' = "probe" /\ manifest'.edge # None
              => \A edge \in tried : edge < manifest'.edge]_vars
  <2> SUFFICES ASSUME Inv, [Next]_vars, pc = "manifest", pc' = "probe", manifest'.edge # None,
                      NEW edge \in tried
               PROVE  edge < manifest'.edge
    OBVIOUS
  <2>1. FetchManifest
    BY DEF Next, Poller, Packager, ClockEdge, Wake, FetchFailed, ProbeSegment, ProbeFailed,
           EndCycle, vars
  <2>2. manifest' = origin /\ ShouldProbe
    BY <2>1 DEF FetchManifest
  <2>3. last_edge_key # origin.edge /\ last_edge_key <= origin.edge /\ edge <= last_edge_key
    BY <2>2 DEF ShouldProbe, Inv, EdgesInOrder
  <2>4. edge \in Int /\ last_edge_key \in Int /\ origin.edge \in Int
    BY DEF Inv, TypeOK, Manifests, Option, None
  <2> QED
    BY <2>2, <2>3, <2>4
<1> QED
  BY <1>1, SpecInv, PTL DEF Spec, ProbesOnlyNewEdges

\* As for HLS, a Health event of run_dash_loop never deducts for a stall and for
\* the fetches of its cycle at once, nor ever for an RFC violation.
THEOREM OneSideBlamed == Spec => []HealthBlamesOneSide
<1>1. Inv => HealthBlamesOneSide
  BY DEF Inv, FlagsBlameOneSide, OneSide, HealthBlamesOneSide, Score
<1> QED
  BY <1>1, SpecInv, PTL
=============================================================================
