------------------------------- MODULE Session -------------------------------
(***************************************************************************)
(* The program from its command line to its exit code: which one of its    *)
(* runs an invocation selects, that run, and what it says in the end.      *)
(* Each run is a module of its own; the dashboard is module Screen.        *)
(***************************************************************************)
EXTENDS Naturals, Sequences, FiniteSets, SequencesExt

CONSTANTS
    Invocations,    \* command lines, a subset of AllInvocations
    Lineup, Concurrency, Servers,                   \* Audit
    VodConcurrency, Trees,                          \* Vod
    QueueCapacity, MaxCycles, HistoryCap,           \* Reading
    RingCap, MaxEvents,                             \* Compare
    Labels, Window, MaxCdnSkewMs, LastSegment,      \* MultiCdn
    AgentConfigs, MaxCounted                        \* Agent

VARIABLES
    cli,        \* the command line and what surrounds it
    phase,      \* "starting", the run that goes on, or "over"
    exit,       \* "none", "0", "1", or "error" for an error report
    written,    \* exports written so far
    server, pulled, asking, arrived, report,
    tree, crawled, answered, crawl,
    script, cycles, failures, polling, rqueue, dropped, tally, made, reading,
    sent, pending, pane, ring, paused, closed, since,
    newest, coming, polled, edges, skew,
    streams, spawned, registry, counted, serving, agentError

A == INSTANCE Audit
V == INSTANCE Vod
R == INSTANCE Reading
C == INSTANCE Compare
M == INSTANCE MultiCdn
G == INSTANCE Agent

ownVars == <<cli, phase, exit, written>>
auditVars == <<server, pulled, asking, arrived, report>>
vodVars == <<tree, crawled, answered, crawl>>
readingVars == <<script, cycles, failures, polling, rqueue, dropped, tally, made, reading>>
compareVars == <<sent, pending, pane, ring, paused, closed, since>>
multiVars == <<newest, coming, polled, edges, skew>>
agentVars == <<streams, spawned, registry, counted, serving, agentError>>
vars == <<ownVars, auditVars, vodVars, readingVars, compareVars, multiVars, agentVars>>

(***************************************************************************)
(* The command line.                                                       *)
(***************************************************************************)
Flags == {"agent", "vod", "bad webhook", "prometheus", "open bind", "multi-cdn", "compare",
          "audit", "budget", "summary", "fail-on-dead", "strict"}
Inputs == {"none", "srt", "whep", "unreadable", "unknown", "empty list", "list", "stream"}
Formats == {"curl", "har", "report-html", "report-json", "sarif", "incident", "grafana"}

AllInvocations ==
    [command : {"main", "check"}, flags : SUBSET Flags, exports : Seq(Formats),
     input : Inputs, terminal : BOOLEAN]

ASSUME InvocationsParse == Invocations \subseteq AllInvocations
ASSUME ServersAnswer == Servers \subseteq A!AllServers
ASSUME TreesAreAssets == Trees \subseteq V!AllTrees
ASSUME RingCapAssumption == RingCap \in Nat \ {0}
ASSUME AgentConfigsAreLists == AgentConfigs \subseteq Seq([id : STRING, starts : BOOLEAN])

Has(f) == f \in cli.flags

(* What stands at some places of a list, in its order. *)
At(list, places) ==
    [n \in 1 .. Cardinality(places) |->
        list[CHOOSE i \in places : Cardinality({j \in places : j < i}) = n - 1]]

(* ExportPlan::push drops a repeated export. *)
PlanOf(exports) ==
    At(exports, {i \in DOMAIN exports : \A j \in 1 .. i - 1 : exports[j] # exports[i]})
Plan == PlanOf(cli.exports)
Wants(formats) == ToSet(Plan) \cap formats # {}
Screen(run) == IF cli.terminal THEN run ELSE "error"

ForList ==
    CASE cli.input = "empty list" \/ Has("prometheus") \/ Wants({"curl", "har"}) -> "error"
      [] OTHER -> IF Has("audit") THEN "audit"
                  ELSE IF Has("summary") THEN "error" ELSE Screen("picker")

ForStream ==
    IF Plan # <<>> THEN "export"
    ELSE IF Has("prometheus") THEN "exporter"
    ELSE IF Has("audit") THEN "audit"
    ELSE IF Has("budget") THEN "budget"
    ELSE IF Has("summary") THEN "summary"
    ELSE Screen("dashboard")

ForInput ==
    CASE cli.input \in {"none", "srt", "unreadable", "unknown"} -> "error"
      [] cli.input = "whep" -> "whep"
      [] cli.input \in {"empty list", "list"} -> ForList
      [] cli.input = "stream" -> ForStream

(* The branches of main in their order: the first whose condition holds.   *)
(* `--vod` is served before `--prometheus` is found to exclude it, and a   *)
(* dashboard file ends an invocation that has no url, whatever else it     *)
(* asks for.                                                               *)
Branches ==
    << [if |-> Has("agent"), run |-> "agent"],
       [if |-> Wants({"grafana"}) /\ cli.input = "none" /\ ~Has("compare") /\ ~Has("vod"),
        run |-> "done"],
       [if |-> Has("vod"), run |-> "vod"],
       [if |-> Has("bad webhook"), run |-> "error"],
       [if |-> Has("prometheus") /\ Has("open bind"), run |-> "error"],
       [if |-> Has("prometheus") /\ (Plan # <<>> \/
                   \E f \in {"summary", "audit", "multi-cdn", "compare"} : Has(f)),
        run |-> "error"],
       [if |-> Has("multi-cdn"), run |-> IF Has("summary") THEN "multi-cdn" ELSE Screen("matrix")],
       [if |-> Has("compare"), run |-> Screen("compare")],
       [if |-> TRUE, run |-> ForInput] >>

MainRun == LET first == CHOOSE i \in DOMAIN Branches :
                   Branches[i].if /\ \A j \in 1 .. i - 1 : ~Branches[j].if
           IN Branches[first].run

CheckRun == IF cli.input \in {"list", "stream"} THEN "check" ELSE "error"

Selected == IF cli.command = "check" THEN CheckRun ELSE MainRun

End(code) == phase' = "over" /\ exit' = code

Dispatch ==
    /\ phase = "starting"
    /\ CASE Selected = "error" -> End("error")
         [] Selected = "done"  -> End("0")
         [] OTHER -> phase' = Selected /\ UNCHANGED exit
    /\ UNCHANGED <<cli, written, auditVars, vodVars, readingVars, compareVars, multiVars, agentVars>>

(***************************************************************************)
(* The runs.  A step of a run leaves the variables of the others alone.    *)
(***************************************************************************)
Own(run) == phase = run /\ UNCHANGED ownVars
Over(run, code) ==
    /\ phase = run /\ End(code)
    /\ UNCHANGED <<cli, written, auditVars, vodVars, readingVars, compareVars, multiVars, agentVars>>

(* --audit fails on stalls too; check only with --fail-on-dead. *)
AuditExit ==
    IF phase = "audit"
    THEN IF report.errors = 0 /\ report.stalls = 0 THEN "0" ELSE "1"
    ELSE IF Has("fail-on-dead") /\ A!ShouldFail(report, Has("strict")) THEN "1" ELSE "0"

(* The client is not built, or an output not written: the rest is left.    *)
Auditing ==
    \/ /\ Own("audit") /\ A!AuditNext(FALSE)
       /\ UNCHANGED <<vodVars, readingVars, compareVars, multiVars, agentVars>>
    \/ /\ Own("check") /\ A!AuditNext(TRUE)
       /\ UNCHANGED <<vodVars, readingVars, compareVars, multiVars, agentVars>>
    \/ A!Collected /\ \E run \in {"audit", "check"} : Over(run, AuditExit)
    \/ (pulled = 0 \/ A!Collected) /\ \E run \in {"audit", "check"} : Over(run, "error")

Crawling ==
    \/ /\ Own("vod") /\ V!VodNext
       /\ UNCHANGED <<auditVars, readingVars, compareVars, multiVars, agentVars>>
    \/ crawl # V!NoCrawl /\ Over("vod", crawl.exit)

(* ManifestPoller::new fails before the poller runs, an output after it.    *)
Fallible == cycles = 0 \/ ~reading

Measuring ==
    \/ \E job \in {"summary", "budget"} :
       /\ Own(job) /\ R!ReadingNext(job)
       /\ UNCHANGED <<auditVars, vodVars, compareVars, multiVars, agentVars>>
    \/ \E job \in {"summary", "budget"} :
       ~reading /\ Over(job, IF R!Passes(job, tally) THEN "0" ELSE "1")
    \/ Fallible /\ \E job \in {"summary", "budget"} : Over(job, "error")

(***************************************************************************)
(* The export plan, one export after the other; the first error ends it.   *)
(* Every capture polls anew for its own time.                              *)
(***************************************************************************)
Pending == At(Plan, {i \in DOMAIN Plan : Plan[i] # "grafana"})
Next_ == Pending[Len(written) + 1]
More == Len(written) < Len(Pending)
CaptureJob(f) == IF f \in {"report-html", "report-json"} THEN "report" ELSE "capture"

Capture ==
    /\ Own("export") /\ More /\ Next_ # "incident"
    /\ R!ReadingNext(CaptureJob(Next_))
    /\ UNCHANGED <<auditVars, vodVars, compareVars, multiVars, agentVars>>

(* The file is written, or the dashboard of an incident export is left. *)
WriteExport ==
    /\ phase = "export" /\ More
    /\ IF Next_ = "incident" THEN cli.terminal ELSE ~reading
    /\ written' = Append(written, Next_)
    /\ R!Reopen
    /\ UNCHANGED <<cli, phase, exit, auditVars, vodVars, compareVars, multiVars, agentVars>>

\* Variant: the error of an export is dropped.
FailsQuietly == More /\ (Next_ = "incident" \/ Fallible) /\ Over("export", "0")

(* A capture that fails as a measurement may, or a dashboard that cannot be *)
(* opened: it has no terminal, or its poller cannot be made.                *)
ExportFails == More /\ (Next_ = "incident" \/ Fallible) /\ Over("export", "error")

Exporting == Capture \/ WriteExport \/ ExportFails \/ (~More /\ Over("export", "0"))

Comparing ==
    \/ /\ Own("compare") /\ C!CompareNext
       /\ UNCHANGED <<auditVars, vodVars, readingVars, multiVars, agentVars>>
    \/ closed /\ Over("compare", "0")
    \/ Over("compare", "error")     \* a poller cannot be made, or the terminal fails

MultiCdn ==
    \/ \E run \in {"multi-cdn", "matrix"} :
       /\ Own(run) /\ (run = "multi-cdn" => skew = M!NoSkew) /\ M!MultiNext(run = "matrix")
       /\ UNCHANGED <<auditVars, vodVars, readingVars, compareVars, agentVars>>
    \/ skew # M!NoSkew /\ Over("multi-cdn", IF M!Exceeds THEN "1" ELSE "0")
    \/ skew = M!NoSkew /\ Over("multi-cdn", "error")
    \/ \E code \in {"0", "error"} : Over("matrix", code)

Agent ==
    \/ /\ Own("agent") /\ G!AgentNext
       /\ UNCHANGED <<auditVars, vodVars, readingVars, compareVars, multiVars>>
    \/ agentError /\ Over("agent", "error")

(* An answer with an SDP is ready; no answer is an error. *)
Whep == \E code \in {"0", "1", "error"} : Over("whep", code)

(* The exporter runs until its port cannot be bound; the screens are left, *)
(* or end with the error of a poller that cannot be made.                  *)
Elsewhere ==
    \/ Over("exporter", "error")
    \/ \E run \in {"picker", "dashboard"}, code \in {"0", "error"} : Over(run, code)

(***************************************************************************)
(* What the run will find out there is open at first; of a run that is not *)
(* selected it does not matter.  A stream is audited as a lineup of one.   *)
(***************************************************************************)
LineupsFor(run) ==
    IF run \notin {"audit", "check"} THEN {<<>>}
    ELSE A!Lineups(IF cli.input = "stream" THEN {1} ELSE 1 .. Lineup)
TreesFor(run) == IF run = "vod" THEN Trees ELSE {CHOOSE t \in Trees : TRUE}
ConfigsFor(run) == IF run = "agent" THEN AgentConfigs ELSE {<<>>}

Init ==
    /\ cli \in Invocations
    /\ phase = "starting" /\ exit = "none" /\ written = <<>>
    /\ A!AuditInit(LineupsFor(Selected)) /\ V!VodInit(TreesFor(Selected))
    /\ G!AgentInit(ConfigsFor(Selected))
    /\ R!ReadingInit /\ C!CompareInit /\ M!MultiInit

Next ==
    \/ Dispatch
    \/ Auditing \/ Crawling \/ Measuring \/ Exporting
    \/ Comparing \/ MultiCdn \/ Agent \/ Whep \/ Elsewhere

(* Every run under way goes on; what it waits for answers or times out.    *)
(* A user may stay on a screen for ever, and the agent and the exporter    *)
(* serve until they are killed.                                            *)
TimePasses ==
    \/ Measuring /\ reading' # reading
    \/ Capture /\ reading' # reading
    \/ MultiCdn /\ phase = "multi-cdn" /\ skew' # skew

Spec == Init /\ [][Next]_vars /\ WF_vars(Next) /\ WF_vars(TimePasses)

-----------------------------------------------------------------------------
(***************************************************************************)
(* Properties.                                                             *)
(***************************************************************************)

(* A run that says that all is well has left out nothing it was sent: what *)
(* counts against the stream and is in no tally was refused by the full    *)
(* queue, or still waits in it when the time is up.                        *)
FailingKinds(job) ==
    IF job = "summary" THEN {"origin stall", "rfc error"} ELSE {"slow segment", "too many cc errors"}
Waiting(e) == Cardinality({i \in DOMAIN rqueue : rqueue[i] = e})
Found(job, e) ==
    CASE e = "origin stall" -> tally.stalls [] e = "rfc error" -> tally.rfc
      [] OTHER -> Cardinality({i \in DOMAIN tally.breaches : tally.breaches[i] = e})
PassIsEarned ==
    \A job \in {"summary", "budget"} : Selected = job =>
        /\ \A e \in FailingKinds(job) : made[e] = dropped[e] + Waiting(e) + Found(job, e)
        /\ exit = "0" => \A e \in FailingKinds(job) : Found(job, e) = 0

(* The crawl passes exactly the assets all of whose urls answered, in      *)
(* whatever order, and whose ladder costs at most 30 points.               *)
CrawlIsSound ==
    Selected = "vod" /\ phase = "over" =>
        (exit = "0" <=>
            /\ tree.kind \in {"ladder", "media"} /\ tree.probes # <<>>
            /\ \A u \in DOMAIN tree.probes : tree.probes[u] # "failed"
            /\ V!Validated(tree).score >= 70)

(* Row i of a report is the verdict docs/src/iptv.md gives to what the     *)
(* servers of entry i answer, whichever entry ended first, unless that     *)
(* entry ran out of time; the totals, the playlist of living entries and   *)
(* the exit code agree with the rows.  An empty playlist is the exception: *)
(* EmptyPlaylistIsStall shows what its row says.                           *)
EmptyPlaylist(s) == s.manifest \in {"master", "media"} /\ s.media = "empty"
Answers(s) ==
    LET played == IF s.probe \in {"silent", "refused"} THEN "ERROR"
                  ELSE IF s.probe = "slow" THEN "STALL" ELSE IF s.vod THEN "VOD" ELSE "LIVE" IN
    CASE s.manifest = "dash" -> played
      [] s.manifest \in {"master", "media"} /\ s.media = "segments" -> played
      [] EmptyPlaylist(s) -> "STALL"
      [] OTHER -> "ERROR"
IsTrueOf(row, s) ==
    IF row.error = "timeout" THEN row.verdict = "ERROR"
    ELSE row.verdict \in IF EmptyPlaylist(s) THEN {"STALL", "ERROR"} ELSE {Answers(s)}
Living(strict) == {"LIVE", "VOD"} \union IF strict THEN {} ELSE {"STALL"}
ReportIsTrue ==
    A!Collected =>
        /\ DOMAIN report.rows = DOMAIN server
        /\ \A i \in DOMAIN server :
               report.rows[i].entry = i /\ IsTrueOf(report.rows[i], server[i])
        /\ report.live + report.vod + report.errors + report.stalls = Len(server)
        /\ \A strict \in BOOLEAN, i \in DOMAIN server : ~EmptyPlaylist(server[i]) =>
               (i \in A!Alive(report, strict) <=>
                    report.rows[i].error # "timeout" /\ Answers(server[i]) \in Living(strict))
        /\ phase = "over" /\ Has("fail-on-dead") /\ exit = "0" =>
               \A i \in DOMAIN server : report.rows[i].verdict # "ERROR"

(* Exports are written in the order of the command line.  Only a plan      *)
(* written to its end exits with success, and nothing is written after an  *)
(* export that failed.                                                     *)
ExportsInOrder ==
    Selected = "export" =>
        /\ IsPrefix(written, Pending)
        /\ phase = "over" => (exit = "0" <=> written = Pending)

(* A paused screen does not move, and resuming shows what the last RingCap *)
(* events of each side make of what stood there.                           *)
LastOf(events) == SubSeq(events, IF Len(events) > RingCap THEN Len(events) - RingCap + 1 ELSE 1,
                         Len(events))
Resuming ==
    /\ paused /\ paused' => UNCHANGED pane
    /\ paused /\ ~paused' =>
         \A s \in C!Sides : pane'[s] = C!ApplyAll(pane[s], LastOf(since[s]))
ResumeCatchesUp == [][Resuming]_vars

(* The snapshot under the id of a stream that shares it with no other      *)
(* counts every event of that stream, those sent while others start too.   *)
AgentCountsItsStreams ==
    \A i \in 1 .. spawned : G!OwnId(i) =>
        /\ streams[i].id \in DOMAIN registry
        /\ registry[streams[i].id] = [stream |-> i, events |-> counted[i]]

(* Every run that is given its time, or a finite number of requests, ends. *)
TimedRuns == {"audit", "check", "vod", "summary", "budget", "export", "multi-cdn", "whep"}
TimedRunsEnd == (phase \in TimedRuns) ~> (phase = "over")

-----------------------------------------------------------------------------
(* docs/src/iptv.md: an entry is STALL whose "media playlist had no        *)
(* segments".  Violated: last_segment_url has failed on it before audit_hls *)
(* comes to the row that says so, and the entry is ERROR.                  *)
EmptyPlaylistIsStall ==
    A!Collected =>
        \A i \in DOMAIN server :
            EmptyPlaylist(server[i]) /\ report.rows[i].error # "timeout"
                => report.rows[i].verdict = "STALL"

(* docs/src/compare.md: the matrix is one of "live-edge skew", reported    *)
(* when it passes --max-cdn-skew-ms.  Violated: edges whose last polls saw *)
(* the same playlist are apart by the length of its window.                *)
SkewIsOfLiveEdges == M!Exceeds => M!LiveEdgeSkewMs > MaxCdnSkewMs
=============================================================================
