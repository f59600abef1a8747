------------------------------- MODULE Fetch --------------------------------
(***************************************************************************)
(* One segment on its way in: the two HTTP clients of the poll loop and    *)
(* the local file, and what the answer says of the cache it came from.     *)
(*   network_trace.rs         traced_get: the timed client, one connection,*)
(*                            no redirects, no transfer decoding           *)
(*   poller/segment_fetch.rs  download_segment, probe_segment and their    *)
(*                            fallback to the ordinary client              *)
(*   redirect.rs, middlebox.rs   why the ordinary client failed            *)
(*   cdn_telemetry.rs         the provider and the verdict of the cache    *)
(*                                                                         *)
(* Operators only.  The way of one request is a record:                    *)
(*   link      "up", "dns" (no address), "down" (no connection) or         *)
(*             "cut" (dropped before a header came)                        *)
(*   hops      the redirects before the answer;  cycle  they never end     *)
(*   status    of the answer;  size  of the segment;  sent  the bytes that *)
(*             come before the connection closes;  ranged  the server      *)
(*             honours Range;  broken  the body ends in an error           *)
(* Sizes are in units of the probe window.                                 *)
(***************************************************************************)
EXTENDS Naturals, Sequences, FiniteSets, SequencesExt

ProbeWindow     == 1        \* DEEP_WIRE_PROBE_BYTES + 1
MaxSegment      == 512      \* MAX_SEGMENT_BYTES
MaxRedirectHops == 10       \* MAX_REDIRECT_HOPS

LOCAL Shorter(a, b) == IF a <= b THEN a ELSE b

\* A failure has the findings it causes and the status that refused the
\* request, which the error message names.
Failed(findings) == [ok |-> FALSE, findings |-> findings, transport |-> FALSE, refused |-> {}]
RefusedBy(status) == [Failed({}) EXCEPT !.refused = {status}]

Good(status, declared, bytes, probed, transport) ==
  [ok |-> TRUE, findings |-> {}, transport |-> transport, status |-> status,
   size |-> declared, bytes |-> bytes, probed |-> probed]

Success(status) == status >= 200 /\ status < 300

-----------------------------------------------------------------------------
(* The timed client *)

\* traced_get with its limit on the body: it has an answer whenever the headers
\* came.  A redirect is an answer like any other; a body that ends early is a
\* shorter body; a body above the limit is cut at it.
Traced(way, limit) ==
  IF way.link # "up" THEN {}
  ELSE LET status == IF way.hops > 0 \/ way.cycle THEN 302 ELSE way.status
       IN  {[status |-> status, bytes |-> Shorter(way.sent, limit)]}

-----------------------------------------------------------------------------
(* The ordinary client *)

\* redirect_policy: ten hops are followed, an address seen before ends it.
RedirectError(way) == way.cycle \/ way.hops > MaxRedirectHops

\* emit_transport_failure with classify_transport_failure: the loop of
\* redirects and the connection that gave nothing.
TransportFindings(way) ==
  {f \in {"redirect_loop", "tcp_io_reset"} :
     \/ f = "redirect_loop" /\ way.link = "up" /\ RedirectError(way)
     \/ f = "tcp_io_reset" /\ way.link # "up"}

PlainFails(way) == way.link # "up" \/ RedirectError(way)

\* download_segment_reqwest: the whole body, or an error when it breaks off or
\* is too long.
DownloadPlain(way) ==
  CASE PlainFails(way) -> Failed(TransportFindings(way))
    [] ~PlainFails(way) /\ ~Success(way.status) -> RefusedBy(way.status)
    [] ~PlainFails(way) /\ Success(way.status) /\ (way.broken \/ way.sent > MaxSegment) -> Failed({})
    [] OTHER -> Good(way.status, way.sent, way.sent, FALSE, TRUE)

\* What a probe takes for the size of the segment: the total of Content-Range,
\* and without one nothing when the window is full, what came when it is not.
ProbedSize(way, bytes) ==
  CASE way.ranged -> way.size
    [] ~way.ranged /\ way.status = 200 /\ bytes >= ProbeWindow -> 0
    [] OTHER -> bytes

\* probe_segment_reqwest
ProbePlain(way) ==
  LET bytes == Shorter(way.sent, ProbeWindow)
  IN  CASE PlainFails(way) -> Failed(TransportFindings(way))
        [] ~PlainFails(way) /\ ~Success(way.status) -> RefusedBy(way.status)
        [] ~PlainFails(way) /\ Success(way.status) /\ way.broken /\ way.sent < ProbeWindow -> Failed({})
        [] OTHER -> Good(way.status, ProbedSize(way, bytes), bytes, TRUE, TRUE)

-----------------------------------------------------------------------------
(* Both, in their order *)

\* download_segment: the second client is tried only when the first has no
\* answer, so an answer that is a redirect fails the segment.
Download(way) ==
  IF Traced(way, MaxSegment) = {} THEN DownloadPlain(way)
  ELSE LET r == CHOOSE x \in Traced(way, MaxSegment) : TRUE
       IN  IF Success(r.status) THEN Good(r.status, r.bytes, r.bytes, FALSE, TRUE) ELSE RefusedBy(r.status)

\* probe_segment: here only 200 and 206 are good.
Probe(way) ==
  IF Traced(way, ProbeWindow) = {} THEN ProbePlain(way)
  ELSE LET r == CHOOSE x \in Traced(way, ProbeWindow) : TRUE
       IN  IF r.status \in {200, 206}
           THEN Good(r.status, IF way.ranged THEN way.size ELSE r.bytes, r.bytes, TRUE, TRUE)
           ELSE RefusedBy(r.status)

\* read_local_segment: a probe reads a prefix, a download the whole file; no
\* transport is reported.
ReadLocal(size, probe) ==
  CASE probe -> Good(206, size, Shorter(size, ProbeWindow), TRUE, FALSE)
    [] ~probe /\ size <= MaxSegment -> Good(200, size, size, FALSE, FALSE)
    [] OTHER -> Failed({})

\* The clients of a way whose first attempt found no connection: between the
\* two the link may have come back.
Attempt(way, second, probe) ==
  LET first == IF probe THEN Probe(way) ELSE Download(way)
      again == IF probe THEN ProbePlain(second) ELSE DownloadPlain(second)
  IN  IF way.link = "up" THEN first ELSE again

\* The rate of process_segment: a probe has none.  kbps of a download, 0 when
\* it took no time or brought no bytes; unit is the bits of a size unit.
Rate(fetch, ms, unit) ==
  CASE fetch.probed -> {}
    [] ~fetch.probed /\ ms > 0 /\ fetch.bytes > 0 -> {(fetch.bytes * unit) \div ms}
    [] OTHER -> {0}

-----------------------------------------------------------------------------
(* The cache it came from *)

\* detect_cdn_provider: the first of these whose mark the headers bear.
Providers ==
  << <<"Cloudflare", {"cf-cache-status", "cf-ray"}>>,
     <<"CloudFront", {"x-amz-cf-pop", "cloudfront"}>>,
     <<"Akamai",     {"akamai-cache-status", "akamai", "x-check-cacheable"}>>,
     <<"Fastly",     {"fastly"}>>,
     <<"BunnyCDN",   {"bunny", "cdn-pullzone"}>>,
     <<"Azure CDN",  {"x-azure-ref", "azure"}>>,
     <<"Google",     {"x-goog", "google", "uploadserver", "gfe-cached"}>>,
     <<"JOCDN",      {"x-oke-front-cache", "jocdn"}>>,
     <<"Medianova",  {"x-mncdn-cache", "mncdn"}>>,
     <<"Edgio",      {"x-ec-debug", "ecd", "ecs"}>>,
     <<"Lumen",      {"level3"}>>,
     <<"Gcore",      {"x-gcore-cache", "gcore"}>>,
     <<"Fastly",     {"cache-", "varnish"}>> >>

Provider(marks) ==
  LET hits == SelectSeq(Providers, LAMBDA p : p[2] \cap marks # {})
  IN  IF hits = << >> THEN "none" ELSE hits[1][1]

\* The header that holds the verdict of a provider; the others are asked for
\* any cache status there is (parse_cdn_headers).
VerdictOf(provider, h) ==
  CASE provider \in {"Akamai", "CloudFront", "Fastly", "Edgio"} -> h.xCache
    [] provider = "Cloudflare" -> h.cf
    [] provider \in {"Medianova", "Gcore"} /\ h.own # "none" -> h.own
    [] OTHER -> h.any

\* classify_akamai .. classify_generic_cdn: these look at the word only; the
\* others take a positive Age for a hit and a private answer for a miss.
ByWordOnly == {"Akamai", "CloudFront", "Cloudflare", "Medianova", "Gcore"}

Verdict(provider, h) ==
  LET word == VerdictOf(provider, h)
      plain == provider \in ByWordOnly
  IN  CASE word = "HIT"  -> "hit"
        [] word = "MISS" -> "miss"
        [] word \in {"BYPASS", "EXPIRED"} /\ provider \notin ByWordOnly \ {"Cloudflare"} -> "miss"
        [] word \notin {"HIT", "MISS", "BYPASS", "EXPIRED"} /\ ~plain /\ h.age > 0 -> "hit"
        [] word \notin {"HIT", "MISS", "BYPASS", "EXPIRED"} /\ ~plain /\ h.age = 0 /\ h.private -> "miss"
        [] OTHER -> "unknown"

=============================================================================
