------------------------------ MODULE AdBreaks ------------------------------
(***************************************************************************)
(* Ad breaks: the tags of a playlist that announce one (engine/linter.rs), *)
(* the EventStream of an MPD (engine/dash.rs), what the poll loop logs and *)
(* remembers of them (poller/hls_poll.rs), and the check of the remembered *)
(* break against the bytes of a segment (engine/dai_validator.rs).         *)
(*                                                                         *)
(* A tag is a record [kind, id, planned, elapsed, start, binary, ad] whose *)
(* kind is "CUE-OUT", "CUE-OUT-CONT", "CUE-IN", "SCTE35" or "DATERANGE".   *)
(* id, planned, elapsed and start are Options (sets of at most one         *)
(* element), binary is {} or the section of Scte35 that the tag carries,   *)
(* and ad says whether a DATERANGE names an ad.  Times are whole seconds.  *)
(***************************************************************************)
EXTENDS Naturals, Integers, Sequences, FiniteSets, SequencesExt, Scte35

LiveEdgeSegments == 5       \* AD_SCAN_LIVE_EDGE_SEGMENTS
PtsTolerance     == 500     \* PTS_TOLERANCE_MS
DurationSlack    == 3       \* DURATION_TOLERANCE_SECS, in half seconds

LOCAL AtLeastZero(x) == IF x < 0 THEN 0 ELSE x

-----------------------------------------------------------------------------
(* From the playlist to the breaks *)

\* The tags near the live edge: those of the last five segments and those
\* after the last URI.  items is a sequence of tags and of URIs; without a URI
\* nothing is scanned.
IsUri(item) == item.kind = "uri"

NearLiveEdge(items, i) ==
  LET uris == {j \in 1..Len(items) : IsUri(items[j])}
  IN  uris # {} /\ i \notin uris /\ Cardinality({j \in uris : j > i}) <= LiveEdgeSegments

AdInfo(kind, id, planned, remaining, active) ==
  [kind |-> kind, id |-> id, planned |-> planned, remaining |-> remaining,
   active |-> active, binary |-> {}]

\* The break that a binary section describes overrides the tag: its first
\* descriptor gives the id and the length, the flag of the splice the state.
OfSection(info, sections) ==
  LET sec == CHOOSE s \in sections : TRUE
      seg == Head(sec.descriptors)
      described == IF sec.descriptors = << >> THEN info
                   ELSE [info EXCEPT !.planned = seg.duration, !.id = {seg.id},
                                     !.active = @ /\ seg.type \notin ReturnTypes]
  IN  IF sections = {} THEN info
      ELSE [described EXCEPT !.binary = sections,
                             !.active = IF sec.oon = {} THEN @ ELSE TRUE \in sec.oon]

Sections(tag) == UNION {ParseSection(b) : b \in tag.binary}

\* The time that is left of the break, if the tag says how long it is.
TimeLeft(tag, now) ==
  CASE tag.kind = "DATERANGE" /\ tag.start # {} ->
         {s + p - now : s \in tag.start, p \in tag.planned}
    [] tag.kind = "CUE-OUT-CONT" /\ tag.elapsed # {} ->
         {AtLeastZero(p - e) : p \in tag.planned, e \in tag.elapsed}
    [] OTHER -> tag.planned
Open(left) == left = {} \/ \E r \in left : r > 0

\* extract_ad_signals_from_lines, one line.
Signal(tag, now) ==
  LET left == TimeLeft(tag, now)
  IN  CASE tag.kind \in {"CUE-OUT", "CUE-OUT-CONT"} ->
             <<AdInfo(tag.kind, {}, tag.planned, left, TRUE)>>
        [] tag.kind = "CUE-IN" -> <<AdInfo("CUE-IN", {}, {}, {0}, FALSE)>>
        [] tag.kind = "SCTE35" ->
             <<OfSection(AdInfo("SCTE35", {}, {}, {}, TRUE), Sections(tag))>>
        [] tag.kind = "DATERANGE" /\ (tag.ad \/ tag.planned # {}) ->
             <<[AdInfo("DATERANGE", tag.id, tag.planned, left, Open(left))
                  EXCEPT !.binary = Sections(tag)]>>
        [] OTHER -> << >>

\* extract_ad_signals_near_live_edge
ScanItem(list, items, i, now) ==
  IF NearLiveEdge(items, i) THEN list \o Signal(items[i], now) ELSE list
ExtractSignals(items, now) ==
  LET Scan(list, i) == ScanItem(list, items, i, now)
  IN  FoldLeft(Scan, << >>, [i \in 1..Len(items) |-> i])

\* extract_dash_ad_events: only streams of an ad scheme, and only an event
\* with a positive duration is active.
WithEvents(list, s) ==
  IF ~s.ad THEN list
  ELSE list \o [i \in 1..Len(s.events) |->
                  AdInfo("DASH-Event", s.events[i].id, s.events[i].duration,
                         s.events[i].duration, \E d \in s.events[i].duration : d > 0)]
DashEvents(streams) == FoldLeft(WithEvents, << >>, streams)

-----------------------------------------------------------------------------
(* What the poll loop keeps of them *)

\* ad_log_key.  A break with neither an id nor a kind of its own is told apart
\* by its summary, which holds the time that is left.
LogKey(ad) ==
  CASE ad.kind = "CUE-OUT-CONT" -> <<"cont", ad.planned>>
    [] ad.kind = "CUE-OUT"      -> <<"out", ad.planned>>
    [] ad.kind = "CUE-IN"       -> <<"cue-in", {}>>
    [] OTHER -> IF ad.id # {} THEN <<"named", ad.kind, ad.id>>
                ELSE <<"summary", ad.kind, ad.planned, ad.remaining, ad.binary>>

NoAds == [seen |-> {}, active |-> {}]

\* Variant: CUE-IN forgets the lines of a break but not the break.
NoteAdKeeping(ads, ad) ==
  LET opened == IF ad.kind \in {"CUE-OUT", "CUE-OUT-CONT"} THEN ads.seen \ {<<"cue-in", {}>>} ELSE ads.seen
      kept   == IF ad.kind = "CUE-IN" THEN {k \in opened : k[1] \notin {"cont", "out"}} ELSE opened
  IN  [seen   |-> kept \cup {LogKey(ad)},
       active |-> IF ad.active THEN {ad} ELSE ads.active]

\* One turn of the loop over the extracted breaks: CUE-OUT makes the next
\* CUE-IN worth a line, CUE-IN forgets the lines of the break it ends and the
\* break itself, and an active break becomes the one to check.
NoteAd(ads, ad) ==
  LET out    == ad.kind \in {"CUE-OUT", "CUE-OUT-CONT"}
      in     == ad.kind = "CUE-IN"
      opened == IF out THEN ads.seen \ {<<"cue-in", {}>>} ELSE ads.seen
      kept   == IF in THEN {k \in opened : k[1] \notin {"cont", "out"}} ELSE opened
  IN  [seen   |-> kept \cup {LogKey(ad)},
       active |-> IF ad.active THEN {ad} ELSE IF in THEN {} ELSE ads.active]

NoteAds(ads, list) == FoldLeft(NoteAd, ads, list)

-----------------------------------------------------------------------------
(* Manifest against wire *)

\* is_scte_related and inband_events_from_wire: the places of the emsg boxes of
\* a SCTE scheme, each with its decoded section if the bytes are one.
InbandEvents(wire) == {i \in 1..Len(wire.emsg) : wire.emsg[i].scte}

\* validate_ad_alignment: the first rule that is broken.  The binary it looks
\* for is the one of the manifest tag, never one of the segment.
Alignment(ad, wire) ==
  LET cue == ad.kind # "DASH-Event"
      binary == ad.binary # {}
  IN  CASE cue /\ ~binary -> {"DAI_MANIFEST_WITHOUT_BINARY"}
        [] binary /\ ~cue -> {"DAI_BINARY_WITHOUT_MANIFEST"}
        [] /\ cue = binary /\ ad.active
           /\ \E p \in ad.planned, w \in wire.duration : 2 * w + DurationSlack < p ->
             {"DAI_DURATION_DRIFT"}
        [] OTHER -> {"DAI_PTS_DRIFT" : d \in {x \in wire.drift :
                        (IF x < 0 THEN -x ELSE x) > PtsTolerance}}

\* validate_inband_vs_manifest
Inband(ad, event) ==
  CASE ~ad.active /\ event.duration > 0 -> {"DAI_INBAND_WITHOUT_MANIFEST"}
    [] ad.active /\ event.empty         -> {"DAI_MANIFEST_WITHOUT_INBAND"}
    [] OTHER -> {}

\* post_wire_extras: the checks of one segment against the watched break, one
\* for the segment (in place 0) and one for each of its SCTE events.
Mismatches(active, wire) ==
  UNION {{<<0, rule>> : rule \in Alignment(ad, wire)}
         \cup UNION {{<<i, rule>> : rule \in Inband(ad, wire.emsg[i])} : i \in InbandEvents(wire)} :
         ad \in active}

=============================================================================
