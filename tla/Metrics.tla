------------------------------- MODULE Metrics -------------------------------
(***************************************************************************)
(* The snapshot behind /metrics (engine/metrics.rs): what each event of a  *)
(* poller does to it, what a scrape renders of it, and who may scrape.     *)
(* Operators only: the module that emits the events keeps the snapshot,    *)
(* because send_event updates it before the event enters any channel.      *)
(*                                                                         *)
(* An event is a record with a type.  Times are milliseconds, ratios are   *)
(* percent, an Option is a set of at most one element, and a map of        *)
(* counters is a bag.                                                      *)
(***************************************************************************)
EXTENDS Integers, Sequences, FiniteSets, Bags, SequencesExt

TtfbBuckets == <<5, 10, 25, 50, 100, 250, 500, 1000, 2500, 5000, 10000>>
PartBuckets == <<50, 100, 200, 500, 1000, 2000, 4000>>
DrmBuckets  == <<50, 100, 250, 500, 1000, 2000, 5000>>

OrElse(option, otherwise) == IF option # {} THEN CHOOSE x \in option : TRUE ELSE otherwise
Flag(b) == IF b THEN 1 ELSE 0

-----------------------------------------------------------------------------
(* Histograms *)

EmptyHist(bounds) == [buckets |-> [i \in 1..(Len(bounds) + 1) |-> 0], sum |-> 0, count |-> 0]

\* The bucket of a value: the first bound that is not below it, or +Inf.
BucketOf(bounds, value) ==
  Len(SelectSeq(bounds, LAMBDA b : b < value)) + 1

\* Hist::observe: a negative value is not a measurement.
ObserveHist(hist, bounds, value) ==
  IF value < 0 THEN hist
  ELSE [buckets |-> [hist.buckets EXCEPT ![BucketOf(bounds, value)] = @ + 1],
        sum |-> hist.sum + value, count |-> hist.count + 1]

\* Hist::render: each bucket counts those below it too.
Cumulative(hist) ==
  [i \in 1..Len(hist.buckets) |-> FoldSet(LAMBDA b, acc : hist.buckets[b] + acc, 0, 1..i)]

-----------------------------------------------------------------------------
(* The snapshot *)

NewSnapshot ==
  [health |-> 0, ttfb |-> 0, ratio |-> 0, latency |-> 0, fps |-> 0, hits |-> 0, misses |-> 0,
   provider |-> "none", buffer |-> 0, rebuffer |-> 0, stallRisk |-> 0, g2g |-> 0, adActive |-> 0,
   stalls |-> 0, httpErrors |-> EmptyBag, ll |-> 0, mismatch |-> 0, p1 |-> 0, p2 |-> 0,
   adMismatch |-> 0, inband |-> 0, clearkeyOk |-> 0, errors |-> EmptyBag, partRatio |-> 0,
   doh |-> 0, version |-> "h1.1", handshake |-> 0, resets |-> 0,
   ttfbHist |-> EmptyHist(TtfbBuckets), partHist |-> EmptyHist(PartBuckets),
   drmHist |-> EmptyHist(DrmBuckets), lastDrm |-> {}]

Positive(option) == {x \in option : x > 0}

OfQuic(snap, quic) ==
  [snap EXCEPT !.handshake = OrElse(UNION {q.handshake : q \in quic}, @),
               !.resets    = OrElse(UNION {q.resets : q \in quic}, @)]

\* A value that the segment does not have leaves the last one on the gauge.
OfSegment(snap, ev) ==
  OfQuic([snap EXCEPT
            !.ttfb     = ev.ttfb,
            !.ttfbHist = ObserveHist(@, TtfbBuckets, ev.ttfb),
            !.ratio    = OrElse(ev.ratio, @),
            !.doh      = OrElse(ev.doh, @),
            !.version  = OrElse(ev.version, @),
            !.latency  = OrElse(ev.latency, @),
            !.fps      = OrElse(Positive(ev.fps), @)], ev.quic)

\* Every list of variants that is sent counts its mismatches anew.
OfVariants(snap, variants) ==
  LET picked == SelectSeq(variants, LAMBDA v : v.selected)
      shown  == IF picked # << >> THEN picked ELSE variants
      fps    == IF shown = << >> THEN {} ELSE Positive(Head(shown).fps)
  IN  [snap EXCEPT !.fps = OrElse(fps, @),
                   !.mismatch = @ + Len(SelectSeq(variants, LAMBDA v : v.mismatch # {}))]

\* A licence answer that took exactly as long as the one before it is taken
\* for the same answer.
OfPlaylist(snap, ev) ==
  [snap EXCEPT !.ll       = Flag(ev.ll),
               !.partHist = IF ev.part = {} THEN @ ELSE ObserveHist(@, PartBuckets, OrElse(ev.part, 0)),
               !.drmHist  = IF ev.licence \in {{}, snap.lastDrm} THEN @
                            ELSE ObserveHist(@, DrmBuckets, OrElse(ev.licence, 0)),
               !.lastDrm  = IF ev.licence = {} THEN @ ELSE ev.licence]

\* parse_http_status: the code of a 4xx or 5xx answer that a message names.
ErrorCodes(status) == {c \in status : c >= 400 /\ c < 600}
CountStatus(snap, status) ==
  [snap EXCEPT !.httpErrors = @ (+) SetToBag(ErrorCodes(status))]

UpdateMetrics(snap, ev) ==
  CASE ev.type = "Health"   -> [snap EXCEPT !.health = ev.score]
    [] ev.type = "Segment"  -> OfSegment(snap, ev)
    [] ev.type = "LlHlsPart" -> [snap EXCEPT !.partRatio = OrElse(ev.ratio, @)]
    [] ev.type = "Variants" -> OfVariants(snap, ev.variants)
    [] ev.type = "Latency"  -> [snap EXCEPT !.latency = OrElse(ev.latency, @)]
    [] ev.type = "CdnStats" -> [snap EXCEPT !.hits = ev.hits, !.misses = ev.misses,
                                            !.provider = OrElse(ev.last, @)]
    [] ev.type = "Buffer"   -> [snap EXCEPT !.buffer = ev.buf.secs, !.rebuffer = ev.buf.rebuffer,
                                            !.stallRisk = ev.buf.index]
    [] ev.type = "G2g"      -> [snap EXCEPT !.g2g = OrElse(ev.total, @)]
    [] ev.type = "AdBreak"  -> [snap EXCEPT !.adActive = Flag(ev.active)]
    [] ev.type = "AdMarkerMismatch" -> [snap EXCEPT !.adMismatch = @ + 1]
    [] ev.type = "InbandAdEvent"    -> [snap EXCEPT !.inband = @ + 1]
    [] ev.type = "PlaylistMeta"     -> OfPlaylist(snap, ev)
    [] ev.type = "Finding"  -> [snap EXCEPT !.stalls = @ + Flag(ev.category = "stalling"),
                                            !.errors = @ (+) SetToBag(ev.reason)]
    [] ev.type = "Mismatch" -> [snap EXCEPT !.mismatch = @ + 1]
    [] ev.type = "Tr101290" -> [snap EXCEPT !.p1 = ev.report.p1, !.p2 = ev.report.p2]
    [] ev.type = "Transport" -> OfQuic([snap EXCEPT !.version = OrElse(ev.version, @)], ev.quic)
    [] ev.type = "Error"    -> CountStatus(snap, ev.status)
    [] ev.type = "Status" /\ ev.kind = "error" -> CountStatus(snap, ev.status)
    [] OTHER -> snap

UpdateAll(snap, events) == FoldLeft(UpdateMetrics, snap, events)

-----------------------------------------------------------------------------
(* A scrape *)

\* The counters by label: a bag that is empty is rendered as a "none" of zero.
LOCAL Labelled(name, bag) ==
  IF bag = EmptyBag THEN {<<name, "none", 0>>}
  ELSE {<<name, ToString(k), bag[k]>> : k \in DOMAIN bag}

LOCAL HistSeries(name, hist) ==
  {<<name, ToString(i), Cumulative(hist)[i]>> : i \in 1..Len(hist.buckets)}
    \cup {<<name, "sum", hist.sum>>, <<name, "count", hist.count>>}

\* render_openmetrics_for_stream: the samples of a page.  dropped is the number
\* of events that this process has lost, of whichever stream.
Samples(snap, dropped) ==
  {<<"health_score", "", snap.health>>, <<"dl_duration_ratio", "", snap.ratio>>,
   <<"part_dl_duration_ratio", "", snap.partRatio>>, <<"dns_doh_duration", "", snap.doh>>,
   <<"latency", "", snap.latency>>, <<"bitstream_fps", "", snap.fps>>,
   <<"cdn_cache_hits", snap.provider, snap.hits>>,
   <<"cdn_cache_misses", snap.provider, snap.misses>>,
   <<"virtual_buffer", "", snap.buffer>>, <<"rebuffer_probability", "", snap.rebuffer>>,
   <<"stall_risk_index", "", snap.stallRisk>>, <<"g2g_total", "", snap.g2g>>,
   <<"ad_active", "", snap.adActive>>, <<"origin_stalls", "", snap.stalls>>,
   <<"ll_hls_enabled", "", snap.ll>>, <<"codec_mismatch", "", snap.mismatch>>,
   <<"tr101290_p1", "", snap.p1>>, <<"tr101290_p2", "", snap.p2>>,
   <<"ad_mismatch", "", snap.adMismatch>>, <<"inband_emsg", "", snap.inband>>,
   <<"clearkey_decrypt_ok", "", snap.clearkeyOk>>, <<"channel_dropped", "", dropped>>,
   <<"quic_handshake", "", snap.handshake>>, <<"quic_stream_resets", "", snap.resets>>}
  \cup {<<"http_version", v, Flag(snap.version = v)>> : v \in {"h1.1", "h2", "h3"}}
  \cup Labelled("http_errors", snap.httpErrors)
  \cup Labelled("stream_errors", snap.errors)
  \cup HistSeries("segment_ttfb", snap.ttfbHist)
  \cup HistSeries("llhls_part_duration", snap.partHist)
  \cup HistSeries("drm_license_ttfb", snap.drmHist)

\* authorize_metrics_bearer.  A header is {} or [scheme, token].
Authorized(header, expected) ==
  expected # "" /\ \E h \in header : h.scheme = "bearer" /\ h.token = expected

\* normalize_metrics_token and require_metrics_token_for_bind
Normalized(token) == token \ {""}
MayBind(loopback, token) == loopback \/ Normalized(token) # {}

\* metrics_handler
Scrape(snap, dropped, token, header) ==
  IF \E t \in token : ~Authorized(header, t) THEN [status |-> 401, page |-> {}]
  ELSE [status |-> 200, page |-> Samples(snap, dropped)]

\* run_prometheus: what is already running when it stops with an error.  The
\* poller and the listener of the webhook start before the port is asked for.
RunPrometheus(session) ==
  CASE ~session.url -> [ok |-> FALSE, started |-> {}]
    [] session.url /\ (~session.doh \/ (session.hook /\ ~session.alerts)) ->
         [ok |-> FALSE, started |-> {}]
    [] OTHER -> [ok |-> session.portFree,
                 started |-> {"poller"} \cup (IF session.hook THEN {"webhook"} ELSE {})]

=============================================================================
