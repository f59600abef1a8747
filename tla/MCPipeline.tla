----------------------------- MODULE MCPipeline -----------------------------
(***************************************************************************)
(* Instances of Pipeline.  Each stream has the inputs of one concern, so   *)
(* that the concerns do not multiply: a transport stream with its alarms,  *)
(* two HLS streams with ad breaks, one with rotating keys, one whose       *)
(* downloads are slow or fail, a low latency stream, and two DASH streams. *)
(***************************************************************************)
EXTENDS Pipeline
LOCAL M == INSTANCE Mpd
LOCAL L == INSTANCE Ladder

-----------------------------------------------------------------------------
(* Building blocks *)

Way == [link |-> "up", hops |-> 0, cycle |-> FALSE, status |-> 200, size |-> 4, sent |-> 4,
        ranged |-> TRUE, broken |-> FALSE]
Refused == [Way EXCEPT !.link = "down"]

Wire == [width |-> {}, height |-> {}, fps |-> {}, codecs |-> {}, duration |-> {}, drift |-> {},
         emsg |-> << >>, prft |-> {}, base |-> {}, scale |-> {}, keyframe |-> {}]

Segment == [secs |-> 1, duration |-> 4, ttfb |-> 30, way |-> Way, second |-> Way, window |-> << >>,
            container |-> "unknown", wire |-> Wire, marks |-> {}, version |-> {"h1.1"},
            cached |-> [xCache |-> "none", cf |-> "none", own |-> "none", any |-> "none",
                        age |-> 0, private |-> FALSE],
            clear |-> FALSE, blocks |-> TRUE, whole |-> TRUE, iv |-> 7]

Hls == [n |-> 0, key |-> 0, fails |-> {}, status |-> {}, ended |-> FALSE, pdt |-> {}, target |-> 4,
        sequence |-> 7, segments |-> 3, ll |-> << >>, keys |-> << >>, renditions |-> FALSE,
        items |-> << >>, hint |-> {[ok |-> FALSE, ratio |-> 0]}, publish |-> {}, summary |-> {}, fresh |-> TRUE]

Stream == [name |-> "", proto |-> "hls", probe |-> FALSE, tr |-> FALSE, clearkey |-> FALSE,
           doh |-> FALSE, dohMs |-> 20, probeDrm |-> FALSE, private |-> FALSE, master |-> << >>,
           audio |-> FALSE, licence |-> [ok |-> TRUE, status |-> 200, ms |-> 40],
           rotates |-> FALSE, keyBytes |-> {16}, keyWaits |-> {0}, cuesOnly |-> FALSE,
           waits |-> {2}, polls |-> {Hls}, segs |-> {Segment}]

-----------------------------------------------------------------------------
(* A transport stream *)

Packet == [sync |-> TRUE, pid |-> 257, tei |-> FALSE, payload |-> {}, counts |-> FALSE, cc |-> 0,
           disc |-> FALSE, pcr |-> {}, pts |-> {}, table |-> {}]
Pat(pids) == [Packet EXCEPT !.pid = 0, !.table = {[id |-> "pat", pids |-> pids]}]
Pmt(pid, pids) == [Packet EXCEPT !.pid = pid, !.table = {[id |-> "pmt", pids |-> pids]}]
Video(cc, bytes) == [Packet EXCEPT !.counts = TRUE, !.cc = cc, !.payload = {bytes}]
Pcr(ms) == [Packet EXCEPT !.pcr = {ms}]
Lost == [sync |-> FALSE]

Windows ==
  {<<Pat({256}), Pmt(256, {257}), Video(15, "a"), Video(0, "b"), Video(0, "b")>>,
   <<Video(3, "a"), Video(5, "b"), Video(5, "c"), [Packet EXCEPT !.pid = 300]>>,
   <<Pat({256}), Lost, Video(1, "a"), Lost, Lost, Packet, [Packet EXCEPT !.tei = TRUE]>>,
   <<Pcr(0), Pat({256}), Pcr(30), Pcr(630), Pat({256, 512}), Pmt(512, {300}), Pcr(660),
     [Packet EXCEPT !.pts = {100}], [Packet EXCEPT !.pts = {9000}]>>,
   <<Pcr(95443700), Pcr(12), [Pcr(700) EXCEPT !.disc = TRUE],
     [Packet EXCEPT !.pid = 0, !.table = {[id |-> "other", pids |-> {}]}], Pcr(1300)>>,
   [i \in 1..34 |-> [Packet EXCEPT !.tei = TRUE]]}

Transport == [Stream EXCEPT !.name = "ts", !.tr = TRUE, !.waits = {4},
                            !.segs = {[Segment EXCEPT !.window = w, !.container = "ts"] : w \in Windows}]

-----------------------------------------------------------------------------
(* Ad breaks *)

Uri == [kind |-> "uri"]
Tag(kind) == [kind |-> kind, id |-> {}, planned |-> {}, elapsed |-> {}, start |-> {},
              binary |-> {}, ad |-> FALSE]
CueOut == [Tag("CUE-OUT") EXCEPT !.planned = {30}]
Cont   == [Tag("CUE-OUT-CONT") EXCEPT !.planned = {30}, !.elapsed = {10}]
CueIn  == Tag("CUE-IN")
Splice(type, oon) ==
  [size |-> 40, known |-> TRUE, command |-> "insert", declared |-> 0, pts |-> {},
   events |-> <<[id |-> 5, cancel |-> FALSE, oon |-> oon, pts |-> {}, duration |-> {20},
                 autoReturn |-> TRUE, whole |-> TRUE]>>,
   descriptors |-> <<[whole |-> TRUE, id |-> 9, cancel |-> FALSE, type |-> type, duration |-> {20}]>>]
Scte(type, oon) == [Tag("SCTE35") EXCEPT !.binary = {Splice(type, oon)}]
Dated(start) == [Tag("DATERANGE") EXCEPT !.id = {"d1"}, !.planned = {4}, !.start = {start}, !.ad = TRUE]

Items(tags) == {[Hls EXCEPT !.items = <<Uri>> \o t] : t \in tags}

Emsg == [Wire EXCEPT !.duration = {8}, !.drift = {900},
                     !.emsg = <<[scte |-> TRUE, duration |-> 5, empty |-> FALSE],
                                [scte |-> TRUE, duration |-> 0, empty |-> TRUE],
                                [scte |-> FALSE, duration |-> 5, empty |-> FALSE]>>]

CueStream == [Stream EXCEPT !.name = "cues", !.cuesOnly = TRUE,
           !.polls = Items({<< >>, <<CueOut, Uri, Cont>>, <<CueOut, Uri, CueIn>>, <<CueIn>>})
                     \cup {[Hls EXCEPT !.items = <<CueIn>>], [Hls EXCEPT !.fails = {"manifest"}],
                           [Hls EXCEPT !.items = <<CueOut>> \o [i \in 1..6 |-> Uri]]},
           !.segs = {[Segment EXCEPT !.wire = Emsg]}]

Mixed == [Stream EXCEPT !.name = "mixed", !.clearkey = TRUE,
            !.polls = Items({<<Scte(52, TRUE)>>, <<Scte(53, FALSE)>>, <<Dated(0)>>, <<Dated(4), CueIn>>,
                             <<CueOut, Scte(52, TRUE)>>}),
            !.segs = {[Segment EXCEPT !.wire = Emsg, !.clear = TRUE]}]

-----------------------------------------------------------------------------
(* Keys *)

\* An IV in quotes is used; without them, as RFC 8216 writes it, it is not.
Keyed(uri, quoted) ==
  [method |-> "AES-128", format |-> "identity", uri |-> {uri}, iv |-> {7}, quoted |-> quoted]
Encrypted == [Stream EXCEPT !.name = "aes", !.rotates = TRUE, !.keyBytes = {15, 16}, !.tr = TRUE,
                !.probeDrm = TRUE, !.waits = {1, 2}, !.keyWaits = {0, 1},
                !.polls = {[Hls EXCEPT !.sequence = 5, !.keys = <<Keyed("k1", TRUE)>>],
                           [Hls EXCEPT !.sequence = 5, !.keys = <<Keyed("k2", FALSE)>>]},
                !.segs = {[Segment EXCEPT !.window = <<Packet, Packet, Packet>>, !.secs = 0]}]

-----------------------------------------------------------------------------
(* Slow and failing segments, a master playlist *)

Rung(uri, bandwidth) == [uri |-> uri, bandwidth |-> bandwidth, width |-> {1280}, height |-> {720},
                         fps |-> {25}, codecs |-> {{"avc", "mp4a"}}, iframe |-> FALSE]
Ladder2 == <<Rung("low", 2000), Rung("high", 5000), [Rung("trick", 9000) EXCEPT !.iframe = TRUE],
             Rung("low", 2000)>>
Hd == [Wire EXCEPT !.width = {1280}, !.height = {720}, !.fps = {50}, !.codecs = {{"avc"}},
                   !.base = {100}, !.scale = {1}, !.keyframe = {4}, !.prft = {1}]

Slow == [Stream EXCEPT !.name = "slow", !.master = Ladder2, !.doh = TRUE, !.waits = {1, 6},
           !.polls = {[Hls EXCEPT !.pdt = {3}]},
           !.segs = {[Segment EXCEPT !.secs = 0, !.wire = Hd], [Segment EXCEPT !.secs = 5]}]

Failing3 == [Stream EXCEPT !.name = "failing", !.master = Ladder2, !.waits = {1},
               !.polls = {Hls, [Hls EXCEPT !.fails = {"media", "manifest"}, !.status = {503}],
                          [Hls EXCEPT !.fails = {"media"}, !.status = {404}],
                          [Hls EXCEPT !.ended = TRUE, !.fresh = FALSE]},
               !.segs = {[Segment EXCEPT !.way = Refused, !.second = w] :
                           w \in {Refused, Way, [Way EXCEPT !.cycle = TRUE], [Way EXCEPT !.hops = 2]}}
                        \cup {[Segment EXCEPT !.way.hops = 1],
                              [Segment EXCEPT !.marks = {"cf-ray"}, !.cached.cf = "HIT"],
                              [Segment EXCEPT !.marks = {"varnish"}, !.cached.private = TRUE]}]

NoRungs == [Failing3 EXCEPT !.name = "no rungs", !.master = <<[Rung("trick", 1) EXCEPT !.iframe = TRUE]>>]

Part(uri, range) == [kind |-> "PART", duration |-> {3}, uri |-> uri, range |-> range, blocks |-> FALSE]
LowLatency ==
  [Stream EXCEPT !.name = "ll", !.probe = TRUE, !.waits = {1}, !.probeDrm = TRUE,
     !.polls = {[Hls EXCEPT !.ll = <<[kind |-> "PART-INF", duration |-> {4}], Part({"p1"}, {<<0, 9>>}),
                                     Part({"p2"}, {}), [kind |-> "SERVER-CONTROL", blocks |-> TRUE]>>,
                            !.hint = {[ok |-> TRUE, ratio |-> 120], [ok |-> TRUE, ratio |-> 40],
                                      [ok |-> FALSE, ratio |-> 0]},
                            !.keys = <<[method |-> "SAMPLE-AES", format |-> "widevine",
                                        uri |-> {"w"}, iv |-> {}, quoted |-> FALSE]>>],
                [Hls EXCEPT !.renditions = TRUE]}]

-----------------------------------------------------------------------------
(* DASH *)

Template == [M!NoTemplate EXCEPT !.present = TRUE, !.media = {"m"}, !.duration = {2}, !.scale = {1},
                                 !.byNumber = TRUE]
Rep(id, bandwidth) == [id |-> id, bandwidth |-> bandwidth, width |-> {1280}, height |-> {720},
                       fps |-> {25}, codecs |-> {{"avc"}}, protections |-> << >>,
                       template |-> M!NoTemplate, base |-> {}]
VideoSet(template, reps) == [audio |-> FALSE, video |-> TRUE, lang |-> "und", template |-> template,
                             protections |-> <<[scheme |-> "widevine", url |-> {"lic"}, pssh |-> TRUE]>>,
                             base |-> {"b"}, reps |-> reps]
Live == [live |-> TRUE, ast |-> {0}, depth |-> {}, presentation |-> {}, update |-> {2}, tags |-> 1,
         delay |-> {}, minBuffer |-> {4},
         periods |-> <<[start |-> 0,
                        adaptations |-> <<VideoSet(Template, <<Rep("low", 1000), Rep("high", 3000)>>)>>]>>]
Dash == [n |-> 0, key |-> 0, fails |-> {}, status |-> {}, mpd |-> Live, streams |-> << >>, publish |-> {}, summary |-> {},
         pdt |-> {}, renditions |-> FALSE, sequence |-> 0]

LiveMpd == [Stream EXCEPT !.name = "mpd", !.proto = "dash", !.probeDrm = TRUE, !.waits = {1, 3},
              !.polls = {Dash,
                         [Dash EXCEPT !.streams =
                            <<[ad |-> TRUE, events |-> <<[id |-> {"e"}, duration |-> {9}],
                                                         [id |-> {"f"}, duration |-> {0}]>>]>>],
                         [Dash EXCEPT !.fails = {"manifest"}, !.status = {500}],
                         [Dash EXCEPT !.mpd.periods = << >>]},
              !.segs = {[Segment EXCEPT !.wire = Emsg], [Segment EXCEPT !.way.status = 404],
                        [Segment EXCEPT !.secs = 0, !.wire = Hd]}]

StaticMpd == [LiveMpd EXCEPT !.name = "vod",
                !.polls = {[Dash EXCEPT !.mpd.live = FALSE, !.publish = p] : p \in {{}, {1}, {2}}},
                !.segs = {[Segment EXCEPT !.secs = 0]}]

MCStreams == {Transport, CueStream, Mixed, Encrypted, Slow, Failing3, NoRungs, LowLatency, LiveMpd, StaticMpd}

-----------------------------------------------------------------------------
(* The operators that no poll reaches, against reference definitions.      *)

Upto(n, values) == UNION {[1..k -> values] : k \in 0..n}
Observed(bounds, values) ==
  FoldLeft(LAMBDA h, v : ObserveHist(h, bounds, v), EmptyHist(bounds), values)

\* A rendered bucket holds the measurements up to its bound, and +Inf all of
\* them, in whichever order they came; a negative one is none (Hist).
ASSUME BucketsCountUpToTheirBound ==
  \A values \in Upto(3, {-1, 0, 50, 51, 4000, 4001}) :
    LET hist == Observed(PartBuckets, values)
        real == {i \in DOMAIN values : values[i] >= 0}
    IN  /\ \A b \in DOMAIN PartBuckets :
             Cumulative(hist)[b] = Cardinality({i \in real : values[i] <= PartBuckets[b]})
        /\ Last(Cumulative(hist)) = Cardinality(real) /\ hist.count = Cardinality(real)

Tokens == {{}, {""}, {"secret"}}
Headers == {{}} \cup {{[scheme |-> s, token |-> x]} : s \in {"bearer", "basic"}, x \in {"", "secret", "other"}}

\* A page that other machines can ask for is never given without the token,
\* and a page that is given has one value for each series
\* (require_metrics_token_for_bind, metrics_handler).
ASSUME PageNeedsToken ==
  \A loopback \in BOOLEAN, token \in Tokens, header \in Headers :
    LET scraped == Scrape(NewSnapshot, 0, Normalized(token), header)
    IN  /\ MayBind(loopback, token) /\ scraped.status = 200 =>
             loopback \/ header = {[scheme |-> "bearer", token |-> "secret"]}
        /\ \A x, y \in scraped.page : x[1] = y[1] /\ x[2] = y[2] => x = y

\* A session that cannot start leaves nothing running, unless its port was
\* taken: then the poller, and the webhook's listener, are (run_prometheus).
ASSUME RefusedBeforeStart ==
  \A session \in [url : BOOLEAN, doh : BOOLEAN, hook : BOOLEAN, alerts : BOOLEAN, portFree : BOOLEAN] :
    LET run == RunPrometheus(session)
    IN  ~run.ok => (run.started = {} \/ ~session.portFree) /\ (session.portFree => run.started = {})

\* The credit of a segment that was not measured: what is left, and the
\* segment, but no more than two minutes (on_new_segment).
ASSUME CreditIsBounded ==
  \A secs \in {0, 3, 119, 120}, duration \in {0, 4, 10}, elapsed \in {-1, 0, 2, 200} :
    OnNewSegment([EmptyBuffer EXCEPT !.secs = secs], duration, elapsed).secs =
      IF elapsed > secs + duration THEN 0
      ELSE Min({secs + duration - Max({elapsed, 0}), BufferCap})

\* Any four switches in six samples count as a ping-pong, also those of a
\* player that only ever climbs (detect_ping_pong).
ASSUME AscentIsPingPong == PingPong(<<1, 2, 3, 4>>) /\ ~PingPong(<<1, 1, 2, 1>>)

Declared2 == {[bandwidth |-> b, width |-> {}, height |-> h] : b \in {0, 1200, 6000}, h \in {{}, {480}, {1080}}}

\* The penalty of a ladder is at most 20, that of a ladder with one variant is
\* its own, and no penalty takes a score below zero (analyze_abr_ladder,
\* apply_abr_penalty).
ASSUME PenaltyIsBounded ==
  /\ \A rungs \in Upto(3, Declared2) : L!LadderPenalty(rungs) \in 0..20
  /\ \A score \in 0..25, penalty \in 0..20 : L!WithPenalty(score, penalty) = Max({score - penalty, 0})

LlInfo(target, last) == [L!NoLl EXCEPT !.ll = TRUE, !.target = target, !.last = last]
Tenths == {{}} \cup {{d} : d \in {1, 2, 3, 4, 9}}

\* A low latency playlist is asked for between three and five times a second,
\* and a probe asks for a range that is not empty and within its window
\* (poll_interval_ms, ll_hls_probe_range).
ASSUME LowLatencyBounds ==
  /\ \A target, last \in Tenths : L!PollInterval(LlInfo(target, last)) \in 200..330
  /\ \A offset, length \in {{}, {0}, {1}, {2048}, {2049}} :
       LET range == L!LlRange(offset, length)
       IN  IF length = {} THEN range[2] - range[1] = L!RangeProbe
           ELSE range[2] >= range[1] /\ range[2] - range[1] < L!RangeProbe

\* A file that is read and a download of as many bytes come out alike up to the
\* limit.  Above it the file and the ordinary client fail, and the timed client
\* gives the part below the limit (read_local_segment, download_segment,
\* download_segment_reqwest).
ASSUME LocalIsLikeRemote ==
  \A size \in {1, 511, 512, 513} :
    LET local  == ReadLocal(size, FALSE)
        way    == [Way EXCEPT !.size = size, !.sent = size]
    IN  /\ local.ok = (size <= MaxSegment) /\ DownloadPlain(way).ok = local.ok
        /\ Download(way).ok /\ Download(way).bytes = Min({size, MaxSegment})
        /\ local.ok => local.bytes = size

\* A live MPD is probed at its live edge, and one of two periods with nothing
\* missing has no issue (poll_dash_once, audit_multi_period_mpd).
ASSUME EdgeIsProbed ==
  /\ \A summary \in UNION {M!ParseMpd(Live, at) : at \in 2..9} :
       LET edge == {e.url : e \in summary.edge}
       IN  M!ProbeTarget(summary) = IF edge = {} THEN summary.probe ELSE edge
  /\ \E summary \in M!ParseMpd(Live, 9) : summary.edge # {}
  /\ M!MultiPeriodIssues([Live EXCEPT !.periods = @ \o @, !.tags = 2]) = {}
  /\ M!MultiPeriodIssues([Live EXCEPT !.periods = @ \o @]) = {"period_count"}

Manifests2 == [ext : BOOLEAN, type : {"none", "dash", "xml", "hls"}, name : {"none", "mpd", "m3u8"},
               xml : BOOLEAN, playlist : BOOLEAN, channels : BOOLEAN]

\* An MPD by its own text is never taken for HLS, and a playlist is taken for
\* an MPD only when its text is XML (detect_protocol).
ASSUME ProtocolIsOfTheText ==
  \A m \in Manifests2 :
    ~m.channels => /\ m.xml => M!DetectProtocol(m) = "dash"
                   /\ m.ext /\ m.playlist /\ ~m.xml => M!DetectProtocol(m) = "hls"

=============================================================================
