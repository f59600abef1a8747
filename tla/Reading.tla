------------------------------- MODULE Reading -------------------------------
(***************************************************************************)
(* A headless run on one stream: a poller task fills a bounded queue, the  *)
(* run empties it until its time is up (--summary, the reports and the     *)
(* export captures), until the poller ends, or, for a budget, until a      *)
(* limit is passed, and then gives its verdict.  Events are the kinds the  *)
(* verdicts tell apart.  MaxCycles bounds the cycles of the poller.        *)
(***************************************************************************)
EXTENDS Naturals, Sequences, SequencesExt

CONSTANTS
    QueueCapacity,  \* EVENT_CHANNEL_CAPACITY
    MaxCycles,      \* bound: poll cycles of a run
    HistoryCap      \* entries a report keeps of the manifests

VARIABLES
    script,     \* events the poller has yet to send in this cycle
    cycles,     \* cycles the poller has begun
    failures,   \* failed cycles since the last good one
    polling,    \* the poller task runs
    rqueue,     \* the event channel
    dropped,    \* history: adverse events a full channel refused, by kind
    tally,      \* what the run has made of the events it received
    made,       \* history: adverse events the poller made, by kind
    reading     \* the run still receives

readingVars == <<script, cycles, failures, polling, rqueue, dropped, tally, made, reading>>

Headless == {"summary", "budget", "report", "capture"}

Adverse  == {"origin stall", "rfc error", "slow segment", "too many cc errors"}
Segments == {"segment", "odd segment", "slow segment"}  \* 200/206; other 2xx; over the limits
None == [e \in Adverse |-> 0]
Statuses == {"LIVE", "VOD", "DEGRADED", "ERROR"}

(* A cycle of a good poll departs from a clean one in at most one thing. *)
Clean(middle, status, score) == <<"playlist">> \o middle \o <<status, score>>
GoodCycles ==
    {Clean(<<"segment">>, status, "score 85") : status \in {"LIVE", "VOD"}}
    \union {Clean(middle, "LIVE", "score 85") :
        middle \in {<<>>, <<"odd segment">>, <<"slow segment">>, <<"segment", "too many cc errors">>}}
    \union {Clean(<<"segment">>, "LIVE", "score 84")}
    \union {<<"playlist", "segment", "LIVE", finding, "score 85">> :
        finding \in {"origin stall", "rfc error", "warning"}}

(* The third failure in a row is an error. *)
FailedCycles(n) ==
    LET status == IF n >= 3 THEN "ERROR" ELSE "DEGRADED" IN
    {<<"failure", status, "score 85">>, <<"failure", status, "origin stall", "score 84">>}

(***************************************************************************)
(* The poller.                                                             *)
(***************************************************************************)
Idle == polling /\ script = <<>>

(* run: the protocol is read off the first manifest; without it the task ends. *)
StartPolling ==
    /\ Idle /\ cycles = 0
    /\ \/ script' = <<"LIVE">> \o <<"failure", "ERROR", "end">>
       \/ \E c \in GoodCycles \union FailedCycles(1) : script' = <<"LIVE">> \o c
    /\ cycles' = 1 /\ failures' = IF "failure" \in ToSet(script') THEN 1 ELSE 0
    /\ UNCHANGED <<polling, rqueue, dropped, tally, made, reading>>

Poll ==
    /\ Idle /\ cycles \in 1 .. MaxCycles - 1
    /\ \/ script' \in GoodCycles /\ failures' = 0
       \/ script' \in FailedCycles(failures + 1) /\ failures' = failures + 1
    /\ cycles' = cycles + 1
    /\ UNCHANGED <<polling, rqueue, dropped, tally, made, reading>>

(* The histories are kept for the runs that judge the stream. *)
Counted(job, counts, e) ==
    IF job \in {"summary", "budget"} /\ e \in Adverse THEN [counts EXCEPT ![e] = @ + 1] ELSE counts

(* try_send: an event that finds the channel full is gone. *)
Emit(job) ==
    /\ polling /\ script # <<>> /\ Head(script) # "end"
    /\ script' = Tail(script)
    /\ made' = Counted(job, made, Head(script))
    /\ IF Len(rqueue) < QueueCapacity
       THEN rqueue' = Append(rqueue, Head(script)) /\ UNCHANGED dropped
       ELSE dropped' = Counted(job, dropped, Head(script)) /\ UNCHANGED rqueue
    /\ UNCHANGED <<cycles, failures, polling, tally, reading>>

EndPolling ==
    /\ polling /\ script = <<"end">>
    /\ script' = <<>> /\ polling' = FALSE
    /\ UNCHANGED <<cycles, failures, rqueue, dropped, tally, made, reading>>

(***************************************************************************)
(* What each run makes of an event.  findings is what it lists; --summary  *)
(* lists a rule and message once, but counts it each time.                 *)
(***************************************************************************)
NoTally ==
    [score |-> "score 85", status |-> "LIVE", failures |-> 0, stalls |-> 0, rfc |-> 0,
     segment |-> FALSE, http |-> "none", findings |-> {}, breaches |-> <<>>, manifests |-> 0]

TallySummary(t, e) ==
    CASE e \in {"score 85", "score 84"} -> [t EXCEPT !.score = e]
      [] e \in Statuses                 -> [t EXCEPT !.status = e]
      [] e \in Segments                 -> [t EXCEPT !.segment = TRUE,
                                            !.http = IF e = "odd segment" THEN "other" ELSE "ok"]
      [] e = "failure"                  -> [t EXCEPT !.failures = @ + 1]
      [] e = "origin stall"             -> [t EXCEPT !.stalls = @ + 1, !.findings = @ \union {e}]
      [] e = "rfc error"                -> [t EXCEPT !.rfc = @ + 1, !.findings = @ \union {e}]
      [] e = "warning"                  -> [t EXCEPT !.findings = @ \union {e}]
      [] OTHER                          -> t

Breaching == {"slow segment", "too many cc errors"}
TallyBudget(t, e) == IF e \in Breaching THEN [t EXCEPT !.breaches = Append(@, e)] ELSE t

TallyReport(t, e) ==
    CASE e = "playlist" -> [t EXCEPT !.manifests = IF @ < HistoryCap THEN @ + 1 ELSE @]
      [] e \in Segments -> [t EXCEPT !.segment = TRUE]
      [] e \in {"origin stall", "rfc error", "warning"} -> [t EXCEPT !.findings = @ \union {e}]
      [] e \in Statuses -> [t EXCEPT !.status = e]
      [] OTHER          -> t

TallyCapture(t, e) ==
    CASE e = "playlist" -> [t EXCEPT !.manifests = 1]
      [] e \in Segments -> [t EXCEPT !.segment = TRUE]
      [] e \in {"origin stall", "rfc error", "warning"} -> [t EXCEPT !.findings = @ \union {e}]
      [] OTHER          -> t

TallyOf(job, t, e) ==
    CASE job = "summary" -> TallySummary(t, e)
      [] job = "budget"  -> TallyBudget(t, e)
      [] job = "report"  -> TallyReport(t, e)
      [] job = "capture" -> TallyCapture(t, e)

(* A budget stops at its first breach; every other run goes on. *)
Receive(job) ==
    /\ reading /\ rqueue # <<>>
    /\ rqueue' = Tail(rqueue)
    /\ tally' = TallyOf(job, tally, Head(rqueue))
    /\ reading' = (tally'.breaches = <<>>)
    /\ UNCHANGED <<script, cycles, failures, polling, dropped, made>>

(* The deadline passed, or the poller is gone and nothing is left of it. *)
\* Variant: only the end of the poller is waited for.
NoDeadline ==
    /\ reading /\ ~polling /\ rqueue = <<>>
    /\ reading' = FALSE
    /\ UNCHANGED <<script, cycles, failures, polling, rqueue, dropped, tally, made>>

TimeIsUp ==
    /\ reading
    /\ reading' = FALSE
    /\ UNCHANGED <<script, cycles, failures, polling, rqueue, dropped, tally, made>>

(***************************************************************************)
(* Verdicts.  Without a segment the score is 0, whatever Health said.      *)
(***************************************************************************)
\* Variant: origin stalls are listed but do not fail.
SummaryPassesOnStall(t) ==
    /\ t.status \in {"LIVE", "VOD"}
    /\ t.segment /\ t.score = "score 85"
    /\ t.rfc = 0
    /\ t.http = "ok"

SummaryPasses(t) ==
    /\ t.status \in {"LIVE", "VOD"}
    /\ t.segment /\ t.score = "score 85"
    /\ t.rfc = 0 /\ t.stalls = 0
    /\ t.http = "ok"

BudgetPasses(t) == t.breaches = <<>>

Passes(job, t) ==
    CASE job = "summary" -> SummaryPasses(t)
      [] job = "budget"  -> BudgetPasses(t)
      [] OTHER           -> TRUE    \* a report or a capture is written whatever it found

ReadingInit ==
    /\ script = <<>> /\ cycles = 0 /\ failures = 0 /\ polling = TRUE
    /\ rqueue = <<>> /\ dropped = None /\ made = None
    /\ tally = NoTally /\ reading = TRUE

(* The next capture of an export plan has a poller and a channel of its own. *)
Reopen ==
    /\ script' = <<>> /\ cycles' = 0 /\ failures' = 0 /\ polling' = TRUE
    /\ rqueue' = <<>> /\ dropped' = None /\ made' = None
    /\ tally' = NoTally /\ reading' = TRUE

Poller(job) == StartPolling \/ Poll \/ Emit(job) \/ EndPolling
ReadingNext(job) == reading /\ (Poller(job) \/ Receive(job) \/ TimeIsUp)
=============================================================================
