-------------------------------- MODULE Audit --------------------------------
(***************************************************************************)
(* The probe of a channel lineup that `--audit` and `streamtop check`      *)
(* share: at most Concurrency entries are probed at a time, each by up to  *)
(* three requests (manifest, best variant, first bytes of the last         *)
(* segment), and their rows arrive in any order.  `streamtop check` puts a *)
(* time limit on each entry; the audit relies on the HTTP client's.        *)
(***************************************************************************)
EXTENDS Naturals, Sequences, FiniteSets

CONSTANTS
    Lineup,         \* bound: entries of the longest lineup
    Concurrency,    \* AUDIT_CONCURRENCY, or --concurrency
    Servers         \* the servers an entry may be on, a subset of AllServers

VARIABLES
    server,     \* entry -> the server that answers for it
    pulled,     \* entries taken from the stream of jobs so far
    asking,     \* entry being probed -> the request it waits for
    arrived,    \* rows in the order in which their jobs ended
    report      \* NoReport, or the report of probe_channels

auditVars == <<server, pulled, asking, arrived, report>>

Entries == DOMAIN server
NoReport == [rows |-> <<>>]

(***************************************************************************)
(* What a server may answer.  "silent" is a connection error, or no answer *)
(* within the client's time-out; "refused" a status outside 200..399.      *)
(* media, probe and vod say what follows a manifest that was understood:   *)
(* one that is the media playlist itself came and was parsed.              *)
(***************************************************************************)
AllServers ==
    {s \in [manifest : {"silent", "refused", "garbled", "barren", "master", "media", "dash"},
            media    : {"silent", "garbled", "empty", "segments"},
            probe    : {"silent", "refused", "slow", "fast"},
            vod      : BOOLEAN] :
        s.manifest = "media" => s.media \in {"empty", "segments"}}

Row(c, verdict, why) == [entry |-> c, verdict |-> verdict, error |-> why]
ErrorRow(c, why) == Row(c, "ERROR", why)

(* A reachable on-demand entry is VOD instead of LIVE. *)
MarkVod(verdict, vod) == IF verdict = "LIVE" /\ vod THEN "VOD" ELSE verdict

ClassifyProbe(probe) ==
    CASE probe = "refused" -> "ERROR" [] probe = "slow" -> "STALL" [] OTHER -> "LIVE"

InFlight == DOMAIN asking

(* buffer_unordered polls the jobs in order and holds at most Concurrency. *)
Pull(c) ==
    /\ c = pulled + 1
    /\ Cardinality(InFlight) < Concurrency
    /\ pulled' = c
    /\ asking' = [d \in InFlight \union {c} |-> IF d = c THEN "manifest" ELSE asking[d]]
    /\ UNCHANGED <<server, arrived, report>>

Ask(c, what) ==
    /\ asking' = [asking EXCEPT ![c] = what]
    /\ UNCHANGED <<server, pulled, arrived, report>>

Finish(c, row) ==
    /\ asking' = [d \in InFlight \ {c} |-> asking[d]]
    /\ arrived' = Append(arrived, row)
    /\ UNCHANGED <<server, pulled, report>>

(* last_segment_url fails on a playlist without segments, before the       *)
(* branch that calls an empty playlist a stall is reached.                 *)
LastSegmentUrl(c) ==
    IF server[c].media = "empty" THEN Finish(c, ErrorRow(c, "no segments")) ELSE Ask(c, "probe")

(* The status of the manifest, then its kind.  An MPD is probed at once. *)
Manifest(c) ==
    /\ asking[c] = "manifest"
    /\ LET m == server[c].manifest IN
       \/ m \in {"silent", "refused", "garbled", "barren"} /\ Finish(c, ErrorRow(c, m))
       \/ m = "master" /\ Ask(c, "variant")
       \/ m = "media" /\ LastSegmentUrl(c)
       \/ m = "dash" /\ Ask(c, "probe")

(* The playlist of the variant with the highest bandwidth.  Its status is  *)
(* not looked at: an error page is a playlist that does not parse.         *)
Variant(c) ==
    /\ asking[c] = "variant"
    /\ IF server[c].media \in {"silent", "garbled"}
       THEN Finish(c, ErrorRow(c, server[c].media))
       ELSE LastSegmentUrl(c)

RangeProbe(c) ==
    /\ asking[c] = "probe"
    /\ LET p == server[c].probe IN
       Finish(c, IF p = "silent" THEN ErrorRow(c, p)
                 ELSE Row(c, MarkVod(ClassifyProbe(p), server[c].vod), p))

(* The limit of `streamtop check` runs over all requests of an entry. *)
TimeOut(c) == Finish(c, ErrorRow(c, "timeout"))

Tally(rows, verdict) == Cardinality({i \in DOMAIN rows : rows[i].verdict = verdict})
\* Variant: rows are left in the order of arrival.
AsArrived(rows) == rows

(* Row i is the one that i - 1 rows of earlier entries go before.          *)
ByEntry(rows) ==
    [i \in DOMAIN rows |->
        rows[CHOOSE k \in DOMAIN rows :
            Cardinality({j \in DOMAIN rows : rows[j].entry < rows[k].entry}) = i - 1]]

Report(rows) ==
    [rows   |-> rows,
     live   |-> Tally(rows, "LIVE"),  vod    |-> Tally(rows, "VOD"),
     errors |-> Tally(rows, "ERROR"), stalls |-> Tally(rows, "STALL")]

Collect ==
    /\ Len(arrived) = Len(server) /\ report = NoReport
    /\ report' = Report(ByEntry(arrived))
    /\ UNCHANGED <<server, pulled, asking, arrived>>

(* The playlist --alive-out writes: entry and row are paired by position. *)
Keep(verdict, strict) == verdict \in {"LIVE", "VOD"} \/ (verdict = "STALL" /\ ~strict)
Alive(rep, strict) == {i \in Entries : Keep(rep.rows[i].verdict, strict)}

ShouldFail(rep, strict) == rep.errors > 0 \/ (strict /\ rep.stalls > 0)
Collected == report # NoReport

Request(c) == c \in InFlight /\ (Manifest(c) \/ Variant(c) \/ RangeProbe(c))

Lineups(lengths) == UNION {[1 .. n -> Servers] : n \in lengths}

AuditInit(lineups) ==
    /\ server \in lineups
    /\ pulled = 0 /\ asking = <<>> /\ arrived = <<>> /\ report = NoReport

AuditNext(limited) ==
    \/ \E c \in Entries : Pull(c)
    \/ \E c \in InFlight : Request(c) \/ (limited /\ TimeOut(c))
    \/ Collect
=============================================================================
