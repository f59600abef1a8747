------------------------------ MODULE Tr101290 ------------------------------
(***************************************************************************)
(* The TR 101 290 analyser of engine/tr101290.rs: the first bytes of one   *)
(* segment are one window of transport stream packets.  The continuity,    *)
(* PCR and PTS state lives for a window, the tables that were found and    *)
(* the PIDs that were reported live as long as the engine.                 *)
(*                                                                         *)
(* The module has operators only; the poll loop that feeds the engine      *)
(* keeps its record.  A window is a sequence of pieces: a packet, or a     *)
(* piece without a sync byte at its start.  A packet is a record:          *)
(*   pid, tei     its PID and the transport error indicator                *)
(*   payload      {} or the signature of its payload                       *)
(*   counts       it has a payload by its adaptation bits, so the          *)
(*                continuity counter cc must step                          *)
(*   disc         the discontinuity indicator of its adaptation field      *)
(*   pcr          {} or its PCR;  pts  {} or the PTS of a PES that begins  *)
(*   table        {} or the section that begins: its id and, for a PAT,    *)
(*                the PMT PIDs, for a PMT, the PCR and elementary PIDs     *)
(* Clocks tick in milliseconds modulo ClockWrap, which stands for 2^33     *)
(* ticks of 90 kHz.  An Option is a set of at most one element.            *)
(***************************************************************************)
EXTENDS Naturals, Integers, Sequences, FiniteSets, SequencesExt, FiniteSetsExt

PatPid        == 0
NullPid       == 8191
PcrMaxGap     == 40         \* PCR_MAX_GAP_MS
PcrJitter     == 100        \* PCR_JITTER_ALARM_MS
TableTimeout  == 500        \* PAT_PMT_TIMEOUT_MS
PtsJump       == 5000       \* PTS_JUMP_MS
MaxViolations == 32         \* MAX_VIOLATIONS
CcModulus     == 16
ClockWrap     == 95443718   \* 2^33 ticks, in milliseconds

Newest(s) == IF Len(s) > MaxViolations
             THEN SubSeq(s, Len(s) - MaxViolations + 1, Len(s)) ELSE s
First(s)  == SubSeq(s, 1, IF Len(s) < MaxViolations THEN Len(s) ELSE MaxViolations)
LOCAL Smaller(a, b) == IF a <= b THEN a ELSE b

-----------------------------------------------------------------------------
(* The engine and its window *)

EmptyWindow ==
  [cc |-> << >>, lastPcr |-> {}, firstPcr |-> {}, intervals |-> << >>,
   gaps |-> << >>, lastPts |-> << >>, patAt |-> {}, pmtAt |-> {},
   patSeen |-> FALSE, pmtSeen |-> FALSE]

EmptyReport == [p1 |-> 0, p2 |-> 0, cc |-> 0, sync |-> 0, ptsDisc |-> 0, unref |-> 0,
                gap |-> 0, patTimeout |-> FALSE, pmtTimeout |-> FALSE, checks |-> << >>]

NewEngine == [win |-> EmptyWindow, pmtPids |-> {}, referenced |-> {}, orphans |-> {},
              seen |-> {}, fresh |-> << >>, report |-> EmptyReport]

\* ticks_ms
Ticks(a, b) == (b + ClockWrap - (a % ClockWrap)) % ClockWrap

Priority(code) == IF code \in {"P1_SYNC", "P1_PAT", "P1_PMT", "P1_CC", "P1_PID"} THEN 1 ELSE 2

\* push_check: the list of unsent checks keeps the first 32 and the report the
\* newest 32; the totals miss none.
RaiseTimes(eng, code, n) ==
  LET codes == [i \in 1..n |-> code]
  IN  [eng EXCEPT !.fresh = First(@ \o codes),
                  !.report.checks = Newest(@ \o codes),
                  !.report.p1 = @ + (IF Priority(code) = 1 THEN n ELSE 0),
                  !.report.p2 = @ + (IF Priority(code) = 2 THEN n ELSE 0)]

Raise(eng, code) == RaiseTimes(eng, code, 1)
RaiseIf(cond, eng, code) == IF cond THEN Raise(eng, code) ELSE eng

-----------------------------------------------------------------------------
(* One packet *)

\* track_pcr: intervals are measured between PCRs of one PID, and a signalled
\* discontinuity moves the repetition of the tables to the new timebase.
TrackPcr(eng, pkt) ==
  LET pcr  == CHOOSE p \in pkt.pcr : TRUE
      gap  == {Ticks(l.pcr, pcr) : l \in {x \in eng.win.lastPcr : x.pid = pkt.pid /\ ~pkt.disc}}
      wide == {g \in gap : g > PcrMaxGap}
      Moved(at) == IF pkt.disc /\ at # {} THEN {pcr} ELSE at
  IN  IF pkt.pcr = {} THEN eng
      ELSE [eng EXCEPT !.win.firstPcr  = IF @ = {} THEN {pcr} ELSE @,
                       !.win.intervals = @ \o SetToSeq(gap),
                       !.win.gaps      = @ \o SetToSeq(wide),
                       !.win.patAt     = Moved(@),
                       !.win.pmtAt     = Moved(@),
                       !.win.lastPcr   = {[pid |-> pkt.pid, pcr |-> pcr]}]

\* track_cc: one duplicate is allowed, a repeated counter with another payload
\* and any other step but one are errors.
TrackCc(eng, pkt) ==
  LET known == pkt.pid \in DOMAIN eng.win.cc
      prev  == eng.win.cc[pkt.pid]
      bad   == /\ known /\ ~pkt.disc
               /\ IF pkt.cc = prev.cc THEN pkt.payload # {} /\ prev.payload # pkt.payload
                  ELSE pkt.cc # (prev.cc + 1) % CcModulus
      next  == [eng EXCEPT !.win.cc = (pkt.pid :> [cc |-> pkt.cc, payload |-> pkt.payload]) @@ @,
                           !.report.cc = @ + (IF bad THEN 1 ELSE 0)]
  IN  IF ~pkt.counts THEN eng ELSE RaiseIf(bad, next, "P1_CC")

\* flag_table_gap
FlagTableGap(eng, pat) ==
  Raise(IF pat THEN [eng EXCEPT !.report.patTimeout = TRUE]
               ELSE [eng EXCEPT !.report.pmtTimeout = TRUE],
        IF pat THEN "P1_PAT" ELSE "P1_PMT")

\* check_repetition: the time from the last table of a kind to this one.
CheckRepetition(eng, pat, now) ==
  LET at == IF pat THEN eng.win.patAt ELSE eng.win.pmtAt
  IN  IF \E a \in at, n \in now : Ticks(a, n) > TableTimeout
      THEN FlagTableGap(eng, pat) ELSE eng

\* parse_tables: a PMT counts only on a PID that a PAT has named, in this
\* window or an earlier one.
ParseTables(eng, pkt) ==
  LET now == {l.pcr : l \in eng.win.lastPcr}
      t   == CHOOSE x \in pkt.table : TRUE
  IN  CASE pkt.table = {} -> eng
        [] pkt.pid = PatPid /\ t.id # "pat" -> Raise(eng, "P1_PAT")
        [] pkt.pid = PatPid /\ t.id = "pat" ->
             [CheckRepetition(eng, TRUE, now) EXCEPT
                !.win.patSeen = TRUE, !.win.patAt = now, !.pmtPids = @ \cup t.pids]
        [] pkt.pid # PatPid /\ pkt.pid \in eng.pmtPids /\ t.id = "pmt" ->
             [CheckRepetition(eng, FALSE, now) EXCEPT
                !.win.pmtSeen = TRUE, !.win.pmtAt = now, !.referenced = @ \cup t.pids]
        [] OTHER -> eng

\* track_pts: a jump either way counts, unless the packet announces it.
TrackPts(eng, pkt) ==
  LET pts  == CHOOSE p \in pkt.pts : TRUE
      prev == {eng.win.lastPts[x] : x \in {pkt.pid} \cap DOMAIN eng.win.lastPts}
      jump == ~pkt.disc /\ \E p \in prev : Smaller(Ticks(p, pts), Ticks(pts, p)) > PtsJump
      next == [eng EXCEPT !.win.lastPts = (pkt.pid :> pts) @@ @,
                          !.report.ptsDisc = @ + (IF jump THEN 1 ELSE 0)]
  IN  IF pkt.pts = {} THEN eng ELSE RaiseIf(jump, next, "P2_PTS_DISC")

\* process_packet: null packets are not looked at.
ProcessPacket(eng, pkt) ==
  LET seen == [eng EXCEPT !.seen = @ \cup {pkt.pid}]
      tei  == RaiseIf(pkt.tei, seen, "P2_TEI")
  IN  IF pkt.pid = NullPid THEN eng
      ELSE TrackPts(ParseTables(TrackCc(TrackPcr(tei, pkt), pkt), pkt), pkt)

-----------------------------------------------------------------------------
(* One window *)

IsPacket(piece) == piece.sync

\* resync: after a lost sync byte the next packet counts when a second one
\* follows it, or when it is the last.
Resyncs(window, i) == IsPacket(window[i]) /\ (i = Len(window) \/ IsPacket(window[i + 1]))

\* ingest: the walk over the pieces of a window.
Piece(st, window, i) ==
  CASE st.inSync /\ IsPacket(window[i]) ->
         [st EXCEPT !.eng = ProcessPacket(@, window[i])]
    [] st.inSync /\ ~IsPacket(window[i]) ->
         [inSync |-> FALSE,
          eng |-> Raise([st.eng EXCEPT !.report.sync = @ + 1], "P1_SYNC")]
    [] ~st.inSync /\ Resyncs(window, i) ->
         [inSync |-> TRUE, eng |-> ProcessPacket(st.eng, window[i])]
    [] OTHER -> st

Walk(eng, window) ==
  LET Step(st, i) == Piece(st, window, i)
  IN  FoldLeft(Step, [inSync |-> TRUE, eng |-> eng], [i \in 1..Len(window) |-> i]).eng

Sum(s) == FoldSeq(LAMBDA x, acc : x + acc, 0, s)

\* The standard deviation of the intervals above the alarm, without a root:
\* n times the sum of squares less the square of the sum is n^2 times it.
Jitters(intervals) ==
  LET n == Len(intervals)
      s == Sum(intervals)
      q == Sum([i \in 1..n |-> intervals[i] * intervals[i]])
  IN  n >= 3 /\ n * q - s * s > PcrJitter * PcrJitter * n * n

\* is_program_pid
IsProgramPid(pid) == pid >= 32 /\ pid < NullPid

\* The program PIDs outside every known PMT that were not reported yet.
Unreported(eng) ==
  IF eng.referenced = {} THEN {}
  ELSE {p \in eng.seen : /\ IsProgramPid(p)
                         /\ p \notin eng.pmtPids \cup eng.referenced \cup eng.orphans}

\* Variant: a reported PID is not remembered.
CheckUnreferencedAgain(eng) ==
  LET n == Cardinality(Unreported(eng))
  IN  RaiseTimes([eng EXCEPT !.report.unref = @ + n], "P1_PID", n)

\* check_unreferenced_pids: a PID outside every known PMT is reported once.
CheckUnreferenced(eng) ==
  LET found == Unreported(eng)
      n     == Cardinality(found)
  IN  RaiseTimes([eng EXCEPT !.orphans = @ \cup found, !.report.unref = @ + n], "P1_PID", n)

\* finish_window
FinishWindow(eng) ==
  LET w      == eng.win
      long   == \E f \in w.firstPcr, l \in w.lastPcr : Ticks(f, l.pcr) > TableTimeout
      tables == CASE long /\ ~w.patSeen -> FlagTableGap(eng, TRUE)
                  [] long /\ w.patSeen /\ ~w.pmtSeen /\ eng.pmtPids # {} -> FlagTableGap(eng, FALSE)
                  [] OTHER -> eng
      widest == Max({0} \cup ToSet(w.gaps))
      gaps   == IF w.gaps = << >> THEN tables
                ELSE Raise([tables EXCEPT !.report.gap = Max({@, widest})], "P2_PCR_GAP")
      jitter == RaiseIf(Jitters(w.intervals), gaps, "P2_PCR_JITTER")
  IN  CheckUnreferenced([jitter EXCEPT !.win.gaps = << >>, !.win.intervals = << >>])

Ingest(eng, window) ==
  IF window = << >> THEN eng
  ELSE FinishWindow(Walk([eng EXCEPT !.win = EmptyWindow, !.report.patTimeout = FALSE,
                                     !.report.pmtTimeout = FALSE], window))

\* Variant: the checks are handed out but stay in the list.
TakeFreshCopy(eng) == eng

\* take_new_checks
TakeFresh(eng) == [eng EXCEPT !.fresh = << >>]

\* looks_like_ts: three packets in a row, from the first two on.
LooksLikeTs(window) ==
  \E o \in {1, 2} : Len(window) >= o + 2 /\ \A i \in o..(o + 2) : IsPacket(window[i])

\* probe_container_tr101290
Analyses(container, window) == container = "ts" \/ LooksLikeTs(window)

\* DiagnosticReasonCode::from_tr101290_rule: the codes that are findings.  An
\* unreferenced PID and a PTS jump have no reason code.
HasReason(code) == code \notin {"P1_PID", "P2_PTS_DISC"}

=============================================================================
