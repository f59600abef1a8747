------------------------------ MODULE Pipeline ------------------------------
(***************************************************************************)
(* What one poll of a stream does with the bytes it fetches: the loops of  *)
(* poller/hls_poll.rs and poller/dash_poll.rs around process_segment       *)
(* (poller/segment_fetch.rs), with the state that goes from poll to poll - *)
(* the simulated player, the variants, the ad break that is watched, the   *)
(* key cache, the TR 101 290 engine - and the metrics that every event     *)
(* updates.  The linter and the choice of the segments are in HlsPoller    *)
(* and DashPoller; here a poll has at most one new segment.                *)
(*                                                                         *)
(* An action runs from one await to the next.  In between the environment  *)
(* moves: time passes, a request fails, the key server changes its key.    *)
(*                                                                         *)
(* A stream is a record: how it is polled (proto, probe, tr, clearkey,     *)
(* doh, probeDrm), its master playlist, the playlists and segments that a  *)
(* poll may find, the seconds that may pass between polls, and whether its *)
(* keys change.                                                            *)
(***************************************************************************)
EXTENDS Integers, Sequences, FiniteSets, SequencesExt, FiniteSetsExt,
        Playback, AdBreaks, Keys, Fetch, Metrics
Lad == INSTANCE Ladder
Tr  == INSTANCE Tr101290
Mpd == INSTANCE Mpd

BitsOfUnit == 4194304      \* a size unit of Fetch is the probe window, 512 KiB

CONSTANTS Streams,      \* the streams that may be polled
          MaxPolls,     \* how many polls are looked at
          KeyTtl,       \* KEY_CACHE_TTL
          KeyWait,      \* PROBE_READ_TIMEOUT_SECS, the longest that a key may take
          KeyCacheMax,  \* KEY_CACHE_MAX
          MaxKeys       \* how many keys a key server goes through

ASSUME CacheAssumption ==
  KeyTtl \in Nat \ {0} /\ KeyWait \in Nat /\ KeyCacheMax \in Nat \ {0} /\ MaxKeys \in Nat

IsList(s) == Len(s) \in Nat /\ DOMAIN s = 1..Len(s)

\* What a poll of HLS reads is a list of tags, of DASH lists of periods, of
\* adaptation sets, of representations and of event streams.  A stream of cues
\* tells its breaks by CUE-OUT and CUE-IN alone.
IsMpd(mpd) ==
  /\ IsList(mpd.periods)
  /\ \A i \in DOMAIN mpd.periods :
       LET sets == mpd.periods[i].adaptations
       IN  IsList(sets) /\ \A j \in DOMAIN sets : IsList(sets[j].reps)

Cues == {"uri", "CUE-OUT", "CUE-OUT-CONT", "CUE-IN"}
IsPoll(st, p) ==
  /\ {"n", "key", "summary"} \subseteq DOMAIN p
  /\ st.proto = "hls" =>
       /\ "items" \in DOMAIN p /\ IsList(p.items)
       /\ st.cuesOnly => \A i \in DOMAIN p.items : p.items[i].kind \in Cues
  /\ st.proto = "dash" =>
       /\ {"mpd", "streams"} \subseteq DOMAIN p /\ IsMpd(p.mpd) /\ IsList(p.streams)
       /\ \A i \in DOMAIN p.streams : IsList(p.streams[i].events)

\* Time only passes.
ASSUME StreamsAssumption ==
  \A st \in Streams :
    /\ st.proto \in {"hls", "dash"}
    /\ st.cuesOnly \in BOOLEAN /\ (st.cuesOnly => st.proto = "hls")
    /\ st.waits \subseteq Nat /\ st.keyWaits \subseteq 0..KeyWait /\ IsList(st.master)
    /\ \A p \in st.polls : IsPoll(st, p)
    /\ \A s \in st.segs : /\ s.secs \in Nat /\ s.duration \in Nat
                          /\ IsList(s.window) /\ IsList(s.wire.emsg)

VARIABLES stream,       \* the stream that is polled
          now,          \* seconds since it was opened
          phase,        \* the await the poll stands at
          poll,         \* the number of the poll and the playlist it read
          seg,          \* {} or the segment in hand
          loop,         \* what the loop carries from poll to poll
          buf,          \* the virtual buffer
          ladder,       \* the ladder of the simulated player
          track,        \* decode time and key frames
          ads,          \* the ad breaks that were logged and the one watched
          drm,          \* last_drm
          cache,        \* the key cache
          server,       \* the key server: its key, when older ones ended
          tr,           \* the TR 101 290 engine
          doh,          \* the answer of the resolver that is kept
          snap,         \* the metrics
          ghost         \* what a perfect observer knows (no code reads it)

vars == <<stream, now, phase, poll, seg, loop, buf, ladder, track, ads, drm, cache, server,
          tr, doh, snap, ghost>>

NothingRead == [n |-> 0]

FreshLoop == [clock |-> 0, errors |-> 0, master |-> FALSE, variants |-> << >>,
              announced |-> FALSE, blocks |-> FALSE, wait |-> {}, reload |-> <<0, 0>>,
              edge |-> {}, publish |-> {}, probes |-> 0,
              cdn |-> [hits |-> 0, misses |-> 0, last |-> {}]]

\* The perfect observer: a player that loses only the time that really passed,
\* the downloads it took, the key last used, and whether a window ever raised
\* more alarms than are kept.
Observer == [secs |-> 0, at |-> 0, downloads |-> 0, used |-> {},
             burst |-> FALSE]

Init ==
  /\ stream \in Streams
  /\ now = 0 /\ phase = "sleep" /\ poll = NothingRead /\ seg = {} /\ loop = FreshLoop
  /\ buf = EmptyBuffer /\ ladder = EmptyLadder
  /\ track = FreshTrackers @@ [jumps |-> {}, fixed |-> FALSE] /\ ads = NoAds /\ drm = NoDrm
  /\ cache = {} /\ server = [key |-> 1, ended |-> << >>]
  /\ tr = Tr!NewEngine /\ doh = NoDoh /\ snap = NewSnapshot /\ ghost = Observer

\* send_event: an event is counted before anything else can happen to it.
Send(events) == snap' = UpdateAll(snap, events)

Finding(category, reason) == [type |-> "Finding", category |-> category, reason |-> reason]

-----------------------------------------------------------------------------
(* The top of the loop *)

\* run_hls_loop, run_dash_loop: the buffer drains by the time since it was last
\* credited or drained.
StartPoll ==
  LET Waits == IF poll.n = 0 THEN {0} ELSE stream.waits
  IN  /\ phase = "sleep" /\ poll.n < MaxPolls
      /\ \E w \in Waits, p \in stream.polls :
           LET left == Drain(buf, now + w - loop.clock)
           IN  /\ now' = now + w
               /\ loop' = [loop EXCEPT !.clock = now + w]
               /\ buf' = left
               /\ poll' = [p EXCEPT !.n = poll.n + 1, !.key = server.key]
               /\ Send(<<[type |-> "Buffer", buf |-> left]>>)
      /\ phase' = "manifest"
      /\ UNCHANGED <<stream, seg, ladder, track, ads, drm, cache, server, tr, doh, ghost>>

\* A poll that ends in an error: after three in a row the stream is in error,
\* and the status repeats the code that the error has counted.
Failing(status) ==
  LET n == loop.errors + 1
  IN  <<[type |-> "Error", status |-> status],
        [type |-> "Status", kind |-> IF n >= 3 THEN "error" ELSE "degraded", status |-> status]>>

PollFails ==
  /\ phase \in {"manifest", "media"}
  /\ phase \in poll.fails
  /\ loop' = [loop EXCEPT !.errors = @ + 1]
  /\ Send(Failing(poll.status))
  /\ phase' = "end"
  /\ UNCHANGED <<stream, now, poll, seg, buf, ladder, track, ads, drm, cache, server, tr, doh, ghost>>

\* The bottom of the loop: HLS sends its variants once more.
EndCycle ==
  /\ phase = "end"
  /\ phase' = "sleep"
  /\ Send((IF stream.proto = "hls" /\ loop.variants # << >>
           THEN <<[type |-> "Variants", variants |-> loop.variants]>> ELSE << >>)
          \o <<[type |-> "Buffer", buf |-> buf],
               [type |-> "CdnStats", hits |-> loop.cdn.hits, misses |-> loop.cdn.misses,
                last |-> loop.cdn.last]>>)
  /\ UNCHANGED <<stream, now, poll, seg, loop, buf, ladder, track, ads, drm, cache, server, tr,
                 doh, ghost>>

-----------------------------------------------------------------------------
(* The playlists of HLS *)

ByMaster == stream.master # << >> /\ ~loop.master

\* poll_once, its master half: read once, the richest variant is polled.
ReadMaster ==
  LET variants == Lad!CollectVariants(stream.master)
      rules    == Lad!AlignmentFindings(variants, stream.audio)
  IN  /\ phase = "manifest" /\ stream.proto = "hls" /\ ByMaster /\ phase \notin poll.fails
      /\ IF variants = << >>
         THEN /\ loop' = [loop EXCEPT !.errors = @ + 1]
              /\ Send(Failing({}))
              /\ phase' = "end"
         ELSE /\ loop' = [loop EXCEPT !.master = TRUE, !.variants = Lad!SelectBest(variants)]
              /\ Send([i \in 1..Len(rules) |-> Finding("abr", {})]
                      \o <<[type |-> "Variants", variants |-> Lad!SelectBest(variants)]>>)
              /\ phase' = "media"
      /\ UNCHANGED <<stream, now, poll, seg, buf, ladder, track, ads, drm, cache, server, tr,
                     doh, ghost>>

\* probe_ll_hls_hint: the last part is timed, if its address is known.
HintEvents(ll, probe) ==
  IF ll.hintUri = {} \/ ~probe.ok THEN << >>
  ELSE (IF probe.ratio > 100 THEN <<Finding("ll_hls", {"ERR_PART_RTF_STALL"})>> ELSE << >>)
       \o <<[type |-> "LlHlsPart", ratio |-> {probe.ratio}]>>

\* announce_drm_and_renditions: the licence server is asked by the first
\* playlist that has something to announce.
Licence(asked, scanned) ==
  IF ~asked THEN {}
  ELSE LicenceResult(LicenceRequest(scanned, stream.clearkey, stream.private), stream.licence).ttfb

Described(ll, licence) ==
  [type |-> "PlaylistMeta", ll |-> ll.ll, part |-> {100 * l : l \in ll.last}, licence |-> licence]

\* Three segments behind the live edge, unless the segments have dates.
EdgeEvents ==
  IF ~poll.ended /\ poll.pdt # {} THEN << >>
  ELSE <<[type |-> "Latency", latency |-> IF poll.ended THEN {} ELSE {3000 * poll.target}]>>

AdEvents(list) == [i \in 1..Len(list) |-> [type |-> "AdBreak", active |-> list[i].active]]

\* handle_media, up to the segments.  Its playlist counts as announced when the
\* master playlist that it follows had renditions to announce: a master has no
\* EXT-X-KEY.
ReadMedia ==
  LET ll      == Lad!ScanLl(poll.ll)
      scanned == ScanDrm(poll.keys)
      told    == \/ loop.announced
                 \/ phase = "media" /\ Announces(FALSE, NoDrm, stream.audio)
      asked   == AsksLicence(told, scanned, poll.renditions, stream.probeDrm)
      list    == ExtractSignals(poll.items, now)
  IN  /\ phase = "media" \/ (phase = "manifest" /\ ~ByMaster)
      /\ stream.proto = "hls" /\ phase \notin poll.fails
      /\ \E probe \in poll.hint :
           Send(HintEvents(ll, probe) \o <<Described(ll, Licence(asked, scanned))>>
                \o AdEvents(list) \o EdgeEvents)
      /\ loop' = [loop EXCEPT !.announced = told \/ Announces(told, scanned, poll.renditions),
                              !.blocks    = @ \/ ll.blocks,
                              !.wait      = IF ll.ll THEN {Lad!PollInterval(ll)} ELSE @,
                              !.reload    = IF poll.segments > 0 \/ ll.ll
                                            THEN Lad!BlockingTarget(poll.sequence, poll.segments, ll.parts)
                                            ELSE @,
                              !.errors    = 0]
      /\ drm' = scanned
      /\ ads' = NoteAds(ads, list)
      /\ phase' = IF poll.fresh THEN "fetch" ELSE "end"
      /\ UNCHANGED <<stream, now, poll, seg, buf, ladder, track, cache, server, tr, doh, ghost>>

-----------------------------------------------------------------------------
(* The MPD of DASH *)

LastActive(kept, ad) == IF ad.active THEN {ad} ELSE kept
Watched(list, before) == FoldLeft(LastActive, before, list)

\* The delay the MPD proposes, its minimum buffer time, or three segments.
MpdLatency(summary) ==
  LET told == IF poll.mpd.delay # {} THEN poll.mpd.delay ELSE poll.mpd.minBuffer
  IN  CASE ~poll.mpd.live -> {}
        [] poll.mpd.live /\ told # {} -> {1000 * d : d \in told}
        [] OTHER -> {3000 * summary.hint}

\* poll_dash_once, up to the segment.  An MPD is read anew by every poll, so
\* its breaks are told again and its licence server is asked again; a break
\* that was active stays the one to check.
ReadMpd ==
  LET list == DashEvents(poll.streams)
      Fresh(all) == IF all.edge # {} THEN \E e \in all.edge : loop.edge # {e.key}
                    ELSE loop.probes = 0 \/ poll.publish = {} \/ loop.publish # poll.publish
      Rules(all) == Lad!AlignmentFindings(all.variants, all.audio # << >>)
  IN  /\ stream.proto = "dash" /\ phase = "manifest" /\ phase \notin poll.fails
      /\ \E summary \in {Mpd!ParseMpd(poll.mpd, now)} :
           \/ /\ summary = {}
              /\ loop' = [loop EXCEPT !.errors = @ + 1]
              /\ Send(Failing({}))
              /\ phase' = "end"
              /\ UNCHANGED <<poll, ads>>
           \/ \E all \in summary, fresh \in BOOLEAN :
              /\ fresh = Fresh(all)
              /\ loop' = [loop EXCEPT !.variants = all.variants,
                                      !.edge     = IF all.edge = {} THEN @ ELSE {e.key : e \in all.edge},
                                      !.publish  = IF poll.publish = {} THEN @ ELSE poll.publish,
                                      !.probes   = @ + (IF fresh THEN 1 ELSE 0)]
              /\ poll' = [poll EXCEPT !.summary = summary]
              /\ Send([i \in 1..Len(Rules(all)) |-> Finding("abr", {})]
                      \o <<[type |-> "Variants", variants |-> all.variants],
                           [type |-> "Latency", latency |-> MpdLatency(all)]>>
                      \o AdEvents(list))
              /\ phase' = IF fresh THEN "fetch" ELSE "meta"
              /\ ads' = [ads EXCEPT !.active = Watched(list, @)]
      /\ UNCHANGED <<stream, now, seg, buf, ladder, track, drm, cache, server, tr, doh, ghost>>

\* The end of poll_dash_once: the richest variant is selected, and the playlist
\* is described last.
MpdEvents(variants) ==
  LET all == CHOOSE s \in poll.summary : TRUE
      asked == all.drm.present /\ stream.probeDrm
  IN  <<[type |-> "Variants", variants |-> Lad!SelectBest(variants)],
        [type |-> "PlaylistMeta", ll |-> FALSE, part |-> {},
         licence |-> Licence(asked, [uri |-> all.drm.uri, format |-> all.drm.method,
                                     method |-> all.drm.method])]>>

EndMpd ==
  /\ phase = "meta"
  /\ loop' = [loop EXCEPT !.variants = Lad!SelectBest(@), !.errors = 0]
  /\ Send(MpdEvents(loop.variants))
  /\ phase' = "end"
  /\ UNCHANGED <<stream, now, poll, seg, buf, ladder, track, ads, drm, cache, server, tr, doh, ghost>>

-----------------------------------------------------------------------------
(* A segment *)

\* apply_doh_timing
Answers == IF stream.doh THEN DohAnswers(doh) ELSE {"kept"}
AfterAnswer(answer) == IF stream.doh THEN AfterDoh(doh, answer, stream.dohMs) ELSE doh
DohEvents(answer) ==
  IF stream.doh /\ DohFinding(doh, answer)
  THEN <<Finding("info", {"ERR_DOH_RESOLUTION_FAILED"})>> ELSE << >>

\* emit_transport_failure: each of the findings has a reason of its own.
FailureEvents(findings) ==
  LET Told(reason) == IF reason \in findings THEN <<Finding("rfc", {reason})>> ELSE << >>
  IN  Told("redirect_loop") \o Told("tcp_io_reset")

\* The request fails: HLS logs it and asks for the segment again with the next
\* poll, DASH gives up the poll.
FetchFails ==
  LET dash == stream.proto = "dash"
  IN  /\ phase = "fetch"
      /\ \E s \in stream.segs :
           LET r == Attempt(s.way, s.second, stream.probe)
           IN  /\ ~r.ok
               /\ Send(FailureEvents(r.findings) \o (IF dash THEN Failing(r.refused) ELSE << >>))
      /\ loop' = [loop EXCEPT !.errors = IF dash THEN @ + 1 ELSE @]
      /\ phase' = "end"
      /\ UNCHANGED <<stream, now, poll, seg, buf, ladder, track, ads, drm, cache, server, tr,
                     doh, ghost>>

\* A segment of DASH lasts as long as its MPD says, a minute at most.
DurationOf(s) ==
  IF stream.proto = "dash" THEN AtMost((CHOOSE a \in poll.summary : TRUE).hint, 60)
  ELSE s.duration

\* The rate the ladder is shown.  HLS says 0 for a download that took no time,
\* DASH says nothing.
RateOf(r, s) ==
  LET rate == Rate(r, 1000 * s.secs, BitsOfUnit)
  IN  IF stream.proto = "dash" /\ s.secs = 0 THEN {} ELSE rate

Declared ==
  IF loop.variants = << >> THEN {} ELSE {loop.variants[Lad!Chosen(loop.variants)].bandwidth}

\* CdnStats::record
CdnRecord(cdn, s) ==
  LET provider == Provider(s.marks)
      verdict  == Verdict(provider, s.cached)
  IN  [hits   |-> cdn.hits + (IF verdict = "hit" THEN 1 ELSE 0),
       misses |-> cdn.misses + (IF verdict = "miss" THEN 1 ELSE 0),
       last   |-> {IF provider = "none" THEN "unknown" ELSE provider}]

\* finalize_wire: the segment is compared with the one before it, which it then
\* replaces.
Followed(before, wire) ==
  LET gop == ObserveKeyframe(before.gop, wire.keyframe)
  IN  [timing |-> ObserveTiming(before.timing, wire.base, wire.scale),
       gop    |-> gop,
       jumps  |-> CrossSegment(before.timing, wire.base, wire.scale),
       fixed  |-> Cadence(gop).fixed]

\* emit_g2g: DASH falls back on the time its segment became available, then on
\* its publish time, unless that is more than an hour off.
G2gEvents(s) ==
  LET edges     == UNION {a.edge : a \in poll.summary}
      known     == UNION {e.available : e \in edges}
      told      == IF known # {} THEN known ELSE poll.publish
      available == {t \in told : t - now <= 3600 /\ now - t <= 3600}
      g == IF stream.proto = "hls" THEN G2g(s.wire.prft, poll.pdt, {}, {s.ttfb}, now)
           ELSE G2g(s.wire.prft, {}, available, {s.ttfb}, now)
  IN  <<[type |-> "G2g", total |-> {1000 * t : t \in g.total}]>>

\* post_wire_extras: the mismatches with the watched break and the SCTE events
\* of the segment.
ExtraEvents(wire) ==
  [i \in 1..Cardinality(Mismatches(ads.active, wire)) |-> [type |-> "AdMarkerMismatch"]]
  \o [i \in 1..Cardinality(InbandEvents(wire)) |-> [type |-> "InbandAdEvent"]]

\* The gauges of the resolver and of probe_clearkey are written without an event.
Gauged(metrics, s, answer) ==
  [metrics EXCEPT !.doh        = IF answer = "ok" THEN stream.dohMs ELSE @,
                  !.clearkeyOk = IF stream.clearkey THEN (IF s.clear THEN 1 ELSE 0) ELSE @]

\* What is left at a time of the buffer of a player that lost nothing else.
LeftOf(secs, since, at) == IF secs > at - since THEN secs - (at - since) ELSE 0

\* No key has come yet.
NoAnswer == [bytes |-> 0, key |-> 0]

\* process_segment, and the same part of poll_dash_once, from the answer to the
\* key: the player, the wire against the variants, the watched break.
FetchSegment ==
  /\ phase = "fetch"
  /\ \E s \in stream.segs, answer \in Answers :
       LET r      == Attempt(s.way, s.second, stream.probe)
           at     == now + s.secs
           held   == Observe(ladder, RateOf(r, s), Declared)
           credit == SimulateFetch(buf, held, DurationOf(s), s.secs, at - loop.clock)
       IN  /\ r.ok
           /\ now' = at
           /\ seg' = {[s |-> s, key |-> poll.key, at |-> at, answer |-> NoAnswer]}
           /\ loop' = [loop EXCEPT !.clock = at, !.cdn = CdnRecord(@, s),
                                   !.variants = Lad!ApplyWire(@, s.wire)]
           /\ ladder' = held
           /\ buf' = credit
           /\ track' = Followed(track, s.wire)
           /\ doh' = AfterAnswer(answer)
           /\ snap' = Gauged(UpdateAll(snap,
                DohEvents(answer)
                \o <<[type |-> "Transport", version |-> s.version, quic |-> {}]>>
                \o (IF stream.proto = "dash" THEN <<[type |-> "Buffer", buf |-> credit]>> ELSE << >>)
                \o [i \in 1..Lad!WireLines(loop.variants, s.wire) |-> [type |-> "Mismatch"]]
                \o G2gEvents(s) \o ExtraEvents(s.wire)), s, answer)
           /\ ghost' = [ghost EXCEPT !.secs = AtMost(LeftOf(@, ghost.at, at) + DurationOf(s), BufferCap),
                                     !.at = at, !.downloads = @ + s.secs, !.used = {}]
  /\ phase' = IF stream.proto = "hls" /\ WantsKey(drm) THEN "key" ELSE "finish"
  /\ UNCHANGED <<stream, poll, ads, drm, cache, server, tr>>

-----------------------------------------------------------------------------
(* Its key *)

KeyUri == CHOOSE u \in drm.uri : TRUE

\* fetch_aes128_key, from the cache.
KeyHeld ==
  LET live == Prune(cache, now, KeyTtl)
  IN  /\ phase = "key"
      /\ Lookup(live, KeyUri) # {}
      /\ cache' = live
      /\ ghost' = [ghost EXCEPT !.used = Lookup(live, KeyUri)]
      /\ phase' = "finish"
      /\ UNCHANGED <<stream, now, poll, seg, loop, buf, ladder, track, ads, drm, server, tr,
                     doh, snap>>

\* fetch_aes128_key: the cache has no key, and the server answers with its own.
\* A request that fails or takes too long counts as an answer of another length.
KeyAnswered ==
  LET live == Prune(cache, now, KeyTtl)
  IN  /\ phase = "key"
      /\ Lookup(live, KeyUri) = {}
      /\ cache' = live
      /\ \E w \in stream.keyWaits, bytes \in stream.keyBytes, got \in seg :
           /\ now' = now + w
           /\ seg' = {[got EXCEPT !.answer = [bytes |-> bytes, key |-> server.key]]}
      /\ phase' = "body"
      /\ UNCHANGED <<stream, poll, loop, buf, ladder, track, ads, drm, server, tr, doh, snap, ghost>>

\* fetch_aes128_key: the answer has arrived, within the time for the whole of a
\* request.  Whatever has sixteen bytes is the key, and is as new as its arrival.
KeyFetched ==
  /\ phase = "body"
  /\ \E w \in stream.keyWaits, got \in seg :
       LET at  == now + w
           key == KeyOf(got.answer)
       IN  /\ at - got.at <= KeyWait
           /\ now' = at
           /\ cache' \in IF key = {} THEN {cache}
                         ELSE Insert(cache, KeyUri, got.answer.key, at, KeyTtl, KeyCacheMax)
           /\ ghost' = [ghost EXCEPT !.used = key]
           /\ Send(IF key = {} THEN <<Finding("drm", {"ERR_AES_KEY_FETCH_FAILED"})>> ELSE << >>)
  /\ phase' = "finish"
  /\ UNCHANGED <<stream, poll, seg, loop, buf, ladder, track, ads, drm, server, tr, doh>>

\* The origin goes on to a new key at the same address, also between its answer
\* and the arrival of that.
Rotate ==
  /\ stream.rotates /\ server.key < MaxKeys
  /\ phase \in {"sleep", "manifest", "fetch", "key", "body"}
  /\ server' = [key |-> server.key + 1, ended |-> Append(server.ended, now)]
  /\ UNCHANGED <<stream, now, phase, poll, seg, loop, buf, ladder, track, ads, drm, cache, tr,
                 doh, snap, ghost>>

-----------------------------------------------------------------------------
(* Its diagnostics *)

\* maybe_decrypt_aes128_probe: the packets of a segment that stay unreadable.
\* Bytes that cannot be decrypted are analysed as they came.
Noise == [sync |-> FALSE]
Deciphered(got) ==
  \E k \in ghost.used :
     Decrypts([blocks |-> got.s.blocks, whole |-> got.s.whole, key |-> got.key], k)
Unreadable(got) ==
  CASE ~WantsKey(drm) -> {}
    [] WantsKey(drm) /\ Deciphered(got) ->
         IF StartsPlain(got.s, DeriveIv(poll.sequence, drm.iv)) THEN {} ELSE {1}
    [] OTHER -> 1..Len(got.s.window)

Window(got) == [i \in 1..Len(got.s.window) |->
                  IF i \in Unreadable(got) THEN Noise ELSE got.s.window[i]]

\* post_segment_diagnostics: the alarms of the window that have a reason are
\* sent one by one, the report of the engine after them.
Analysed(got) ==
  /\ stream.tr /\ Window(got) # << >>
  /\ Tr!Analyses(got.s.container, Window(got))

Reported(report) == [type |-> "Tr101290", report |-> report]

AlarmEvents(eng) ==
  LET told  == {i \in 1..Len(eng.fresh) : Tr!HasReason(eng.fresh[i])}
      At(n) == CHOOSE i \in told : Cardinality({j \in told : j < i}) = n - 1
  IN  [n \in 1..Cardinality(told) |-> Finding("info", {eng.fresh[At(n)]})]
      \o <<Reported(eng.report)>>

\* How far behind the live edge the poll was when the segment arrived.
SegmentLatency(at) ==
  CASE stream.proto = "dash" -> MpdLatency(CHOOSE a \in poll.summary : TRUE)
    [] stream.proto = "hls" /\ poll.ended -> {}
    [] stream.proto = "hls" /\ ~poll.ended /\ poll.pdt # {} ->
         {IF at > p THEN 1000 * (at - p) ELSE 0 : p \in poll.pdt}
    [] OTHER -> {3000 * poll.target}

Sampled(s, at) ==
  [type |-> "Segment", ttfb |-> s.ttfb, doh |-> doh.ms, version |-> s.version, quic |-> {},
   ratio   |-> IF DurationOf(s) = 0 THEN {} ELSE {(100 * s.secs) \div DurationOf(s)},
   latency |-> SegmentLatency(at), fps |-> s.wire.fps]

IsSlow(s) == DurationOf(s) > 0 /\ DlToDur(s.secs, DurationOf(s)) = "draining"

\* The end of process_segment.  DASH does not say where the live edge is nor
\* how full the buffer is a second time, and has no finding for a slow segment.
SegmentEvents(got) ==
  <<Sampled(got.s, got.at)>>
  \o (IF stream.proto = "dash" THEN << >>
      ELSE <<[type |-> "Latency", latency |-> SegmentLatency(got.at)], [type |-> "Buffer", buf |-> buf]>>
           \o <<[type |-> "Variants", variants |-> loop.variants]>>
           \o (IF IsSlow(got.s) THEN <<Finding("stalling", {"ERR_RTF_STALL_RISK"})>> ELSE << >>))

Finish ==
  /\ phase = "finish"
  /\ \E got \in seg :
       LET eng == Tr!Ingest(tr, Window(got))
       IN  /\ IF Analysed(got)
              THEN /\ tr' = Tr!TakeFresh(eng)
                   /\ Send(AlarmEvents(eng) \o SegmentEvents(got))
                   /\ ghost' = [ghost EXCEPT !.burst = @ \/ Len(eng.fresh) = Tr!MaxViolations]
              ELSE /\ Send(SegmentEvents(got))
                   /\ UNCHANGED <<tr, ghost>>
  /\ seg' = {}
  /\ phase' = IF stream.proto = "dash" THEN "meta" ELSE "end"
  /\ UNCHANGED <<stream, now, poll, loop, buf, ladder, track, ads, drm, cache, server, doh>>

-----------------------------------------------------------------------------

Next == \/ StartPoll \/ PollFails \/ EndCycle
        \/ ReadMaster \/ ReadMedia \/ ReadMpd \/ EndMpd
        \/ FetchFails \/ FetchSegment
        \/ KeyHeld \/ KeyAnswered \/ KeyFetched \/ Rotate
        \/ Finish

Spec == Init /\ [][Next]_vars

-----------------------------------------------------------------------------
(* Properties *)

\* The simulated player never has more in its buffer than a player that loses
\* only the time that passes, and never less by more than the time spent on
\* downloads, which the code takes off a second time (simulate_segment_fetch
\* after drain_elapsed).  A buffer that is drained too little hides a stall.
BufferTracksThePlayer ==
  LET code   == LeftOf(buf.secs, loop.clock, now)
      player == LeftOf(ghost.secs, ghost.at, now)
  IN  code <= player /\ player - code <= ghost.downloads

\* Every alarm of the TR 101 290 engine is in the totals of the report and, if
\* it has a reason code, in the counter of its reason exactly once, over any
\* number of windows; only a window with more alarms than the engine keeps may
\* lose counts.  The totals and the counters go to the metrics by two paths
\* (the report and the findings of take_new_checks).
Copies(errors, code) == IF code \in DOMAIN errors THEN errors[code] ELSE 0
TrCounted(errors) ==
  Copies(errors, "P1_SYNC") + Copies(errors, "P1_PAT") + Copies(errors, "P1_PMT")
  + Copies(errors, "P1_CC") + Copies(errors, "P2_TEI") + Copies(errors, "P2_PCR_GAP")
  + Copies(errors, "P2_PCR_JITTER")
AlarmsAreCountedOnce ==
  LET counted == TrCounted(snap.errors)
      silent  == tr.report.unref + tr.report.ptsDisc
      total   == tr.report.p1 + tr.report.p2
  IN  /\ snap.p1 = tr.report.p1 /\ snap.p2 = tr.report.p2
      /\ counted + silent <= total
      /\ ~ghost.burst => counted + silent = total

\* Once any PMT is known, every program PID that was ever seen is accounted
\* for: it carries a PMT, some PMT names it, or it was reported as unreferenced,
\* and each report is of another PID.
OrphansAreComplete ==
  /\ tr.report.unref = Cardinality(tr.orphans)
  /\ tr.referenced # {} =>
       \A p \in tr.seen : Tr!IsProgramPid(p) =>
         p \in tr.pmtPids \cup tr.referenced \cup tr.orphans

\* A segment is decrypted with the key that its address serves, or with one
\* that it served less than the life of an entry and the time of a request ago,
\* whatever the order of polls, rotations and refusals: an entry is as new as
\* the arrival of its key, which may end while it is on its way.  The cache
\* holds one key for an address and never more than its limit.
KeysAreFresh ==
  /\ phase = "finish" =>
       \A k \in ghost.used : k = server.key \/ now - server.ended[k] < KeyTtl + KeyWait
  /\ Cardinality(cache) <= KeyCacheMax
  /\ \A e, f \in cache : e.uri = f.uri => e = f

\* The gauge of the metrics and the break that segments are checked against are
\* fed by different paths of one loop: an active gauge has a break behind it,
\* the break that an HLS stream watches was logged since the last CUE-IN, and
\* where breaks are told by cues alone a break is watched only while the gauge
\* is active.
WatchedBreakIsShown ==
  /\ snap.adActive = 1 => ads.active # {}
  /\ stream.proto = "hls" => \A ad \in ads.active : LogKey(ad) \in ads.seen
  /\ stream.cuesOnly /\ ads.active # {} => snap.adActive = 1

=============================================================================
