-------------------------------- MODULE Mpd ---------------------------------
(***************************************************************************)
(* How engine/dash.rs reads an MPD: the periods, the representation that   *)
(* is probed, the segment at the live edge, and what is known of its DRM.  *)
(* Operators only; detect_protocol of poller/mod.rs, which decides that a  *)
(* manifest is an MPD, is at the end.                                      *)
(*                                                                         *)
(* An MPD is a record [live, ast, periods, depth, presentation, update,    *)
(* tags].  A period is [start, adaptations]; an adaptation                 *)
(* [audio, video, lang, protections, template, base, reps]; a              *)
(* representation [id, bandwidth, width, height, fps, codecs, protections, *)
(* template, base].  Times are seconds, ticks are those of a timescale,    *)
(* and an Option is a set of at most one element.                          *)
(***************************************************************************)
EXTENDS Naturals, Integers, Sequences, FiniteSets, SequencesExt

Only(option) == CHOOSE x \in option : TRUE
OrElse(option, otherwise) == IF option # {} THEN Only(option) ELSE otherwise
Prefer(a, b) == IF a # {} THEN a ELSE b
LOCAL PastZero(x) == IF x < 0 THEN 0 ELSE x

DefaultHint == 2            \* the duration a segment has when nothing says
LongestHint == 120

-----------------------------------------------------------------------------
(* Templates.  The fields of a template are taken from the representation  *)
(* first and from its adaptation set second, one by one; its timeline and  *)
(* its init file from whichever of the two has a template.                 *)

NoTemplate == [present |-> FALSE, init |-> {}, media |-> {}, duration |-> {},
               scale |-> {}, first |-> {}, offset |-> {}, timeline |-> << >>, byNumber |-> FALSE]

Inherited(rep, adaptation) ==
  LET r == rep.template
      a == adaptation.template
      whole == IF r.present THEN r ELSE a
  IN  [whole EXCEPT !.present  = r.present \/ a.present,
                    !.media    = Prefer(r.media, a.media),
                    !.duration = Prefer(r.duration, a.duration),
                    !.scale    = Prefer(r.scale, a.scale),
                    !.first    = Prefer(r.first, a.first),
                    !.offset   = Prefer(r.offset, a.offset)]

\* segment_duration_from: a duration of nothing or of more than two minutes is
\* no duration.
SegmentDuration(t) ==
  {secs \in 1..LongestHint :
     /\ OrElse(t.scale, 1) > 0
     /\ \E d \in t.duration : secs = d \div OrElse(t.scale, 1)}

\* representation_probe_url: the init file, the first segment, or a base.
ProbeUrl(rep, adaptation) ==
  LET t == Inherited(rep, adaptation)
  IN  CASE t.present /\ t.init # {} -> {<<"init", rep.id>>}
        [] t.present /\ t.init = {} /\ t.media # {} -> {<<"media", rep.id, OrElse(t.first, 1)>>}
        [] OTHER -> {<<"base", b>> : b \in Prefer(rep.base, adaptation.base)}

\* The run of a SegmentTimeline: a start time continues from the entry before
\* when it is left out, and a negative repeat counts as none.
TimelineEnd(timeline) ==
  LET Entry(st, s) ==
        LET from    == OrElse(s.t, st.cursor)
            repeats == PastZero(s.r)
            last    == from + s.d * repeats
        IN  [cursor |-> last + s.d, count |-> st.count + repeats + 1, last |-> {<<last, s.d>>}]
  IN  FoldLeft(Entry, [cursor |-> 0, count |-> 0, last |-> {}], timeline)

\* live_edge_segment: of a timeline its last entry, of a plain duration the
\* segment before the last complete one.  at: when it became available.
LiveEdge(rep, adaptation, period, ast, now) ==
  LET t     == Inherited(rep, adaptation)
      scale == IF OrElse(t.scale, 1) > 0 THEN OrElse(t.scale, 1) ELSE 1
      first == OrElse(t.first, 1)
      pto   == OrElse(t.offset, 0)
      run   == TimelineEnd(t.timeline)
      Edge(number, time, at) ==
        [url |-> <<rep.id, number, time>>, key |-> IF t.byNumber THEN number ELSE time,
         available |-> at]
      Known == {Edge(first + run.count - 1, l[1],
                     {a + period.start + PastZero(l[1] + l[2] - pto) \div scale : a \in ast}) :
                  l \in run.last}
      Whole(a, d) == ((now - a - period.start) * scale) \div d
      Counted == UNION {{Edge(first + Whole(a, d) - 2, pto + (Whole(a, d) - 2) * d,
                              {a + period.start + ((Whole(a, d) - 1) * d) \div scale}) :
                           a \in {x \in ast : now > x + period.start /\ Whole(x, d) >= 2}} :
                         d \in {x \in t.duration : x > 0}}
  IN  CASE ~t.present \/ t.media = {} -> {}
        [] t.present /\ t.media # {} /\ t.timeline # << >> -> Known
        [] OTHER -> Counted

-----------------------------------------------------------------------------
(* DRM *)

NoProtection == [present |-> FALSE, method |-> "none", uri |-> {}, pssh |-> 0]

\* merge_drm over one list of protections: a known scheme replaces all that was
\* gathered before it, its own PSSH included, and ends the walk; an unknown one
\* gives at most its licence address.
MergeDrm(into, protections) ==
  LET One(st, cp) ==
        CASE st.done -> st
          [] ~st.done /\ cp.scheme # "other" ->
               [done |-> TRUE, drm |-> [present |-> TRUE, method |-> cp.scheme, uri |-> cp.url, pssh |-> 0]]
          [] OTHER ->
               [st EXCEPT !.drm = [present |-> @.present \/ (@.uri = {} /\ cp.url # {}),
                                   method  |-> @.method,
                                   uri     |-> Prefer(@.uri, cp.url),
                                   pssh    |-> @.pssh + (IF cp.pssh THEN 1 ELSE 0)]]
  IN  FoldLeft(One, [done |-> FALSE, drm |-> into], protections).drm

-----------------------------------------------------------------------------
(* Periods *)

Address(rep, adaptation) == OrElse(ProbeUrl(rep, adaptation), <<"base", "adaptation">>)

\* A width without a height, or the reverse, is no resolution.
Variant(rep, adaptation) ==
  LET sized == rep.width # {} /\ rep.height # {}
  IN  [uri |-> Address(rep, adaptation), bandwidth |-> rep.bandwidth,
       width |-> IF sized THEN rep.width ELSE {}, height |-> IF sized THEN rep.height ELSE {},
       fps |-> rep.fps, codecs |-> rep.codecs, selected |-> FALSE, fromWire |-> FALSE,
       mismatch |-> {}]

EmptyPeriod == [variants |-> << >>, audio |-> << >>, probe |-> {}, hint |-> DefaultHint,
                best |-> 0, drm |-> NoProtection, edge |-> {}]

\* parse_period: the representation of the highest bandwidth, the last of them,
\* is the one that is probed.
Representation(out, rep, adaptation, period, clock) ==
  LET taken == rep.bandwidth >= out.best
      t     == Inherited(rep, adaptation)
      seen  == [out EXCEPT !.drm = MergeDrm(@, rep.protections),
                           !.variants = @ \o <<Variant(rep, adaptation)>>]
  IN  IF ~taken THEN seen
      ELSE [seen EXCEPT !.best  = rep.bandwidth,
                        !.probe = {Address(rep, adaptation)},
                        !.hint  = OrElse(SegmentDuration(t), @),
                        !.edge  = UNION {LiveEdge(rep, adaptation, period, c.ast, c.now) : c \in clock}]

Adaptation(out, a, period, clock) ==
  LET merged == [out EXCEPT !.drm = MergeDrm(@, a.protections)]
      Rep(o, r) == Representation(o, r, a, period, clock)
  IN  CASE a.audio -> [merged EXCEPT !.audio = @ \o <<a.lang>>]
        [] ~a.audio /\ ~a.video -> merged
        [] OTHER -> FoldLeft(Rep, merged, a.reps)

ParsePeriod(period, clock) ==
  LET Set(o, a) == Adaptation(o, a, period, clock)
  IN  FoldLeft(Set, EmptyPeriod, period.adaptations)

\* The variants by falling bandwidth, the first of them selected.
RichestFirst(variants) ==
  LET rows == 1..Len(variants)
      Before(i, j) == \/ variants[i].bandwidth > variants[j].bandwidth
                      \/ (variants[i].bandwidth = variants[j].bandwidth /\ i < j)
      At(n) == CHOOSE i \in rows : Cardinality({j \in rows : Before(j, i)}) = n - 1
  IN  [n \in rows |-> [variants[At(n)] EXCEPT !.selected = (n = 1)]]

\* parse_dash_mpd_at: only the last period of a live MPD has a live edge.  The
\* address and the duration come from the period of the best bandwidth, the
\* last one of those, the DRM from the first period that has any.
WithPeriod(out, p) ==
  LET better == p.best >= out.best
  IN  [variants |-> out.variants \o p.variants,
       audio    |-> out.audio \o SelectSeq(p.audio, LAMBDA l : ~Contains(out.audio, l)),
       probe    |-> IF better THEN Prefer(p.probe, out.probe) ELSE out.probe,
       hint     |-> IF better THEN p.hint ELSE out.hint,
       best     |-> IF better THEN p.best ELSE out.best,
       drm      |-> IF ~out.drm.present /\ p.drm.present THEN p.drm ELSE out.drm,
       edge     |-> Prefer(p.edge, out.edge)]

ParseMpd(mpd, now) ==
  LET n == Len(mpd.periods)
      Clock(i) == IF mpd.live /\ i = n THEN {[ast |-> mpd.ast, now |-> now]} ELSE {}
      periods  == [i \in 1..n |-> ParsePeriod(mpd.periods[i], Clock(i))]
      all      == FoldLeft(WithPeriod, EmptyPeriod, periods)
  IN  {[a EXCEPT !.variants = RichestFirst(@)] : a \in {x \in {all} : n > 0 /\ x.variants # << >>}}

\* The address that a poll probes.
ProbeTarget(summary) ==
  Prefer({e.url : e \in summary.edge},
         Prefer(summary.probe, {v.uri : v \in {Head(summary.variants)}}))

\* audit_multi_period_mpd.  tags counts the period tags of the text.
MultiPeriodIssues(mpd) ==
  {i \in {"no_update_period", "period_count", "no_depth", "no_start_time"} :
     \/ i = "no_update_period" /\ mpd.live /\ mpd.update = {}
     \/ i = "period_count" /\ Len(mpd.periods) > 1 /\ mpd.tags # Len(mpd.periods)
     \/ i = "no_depth" /\ Len(mpd.periods) > 1 /\ mpd.presentation # {} /\ mpd.depth = {}
     \/ i = "no_start_time" /\ mpd.live /\ mpd.ast = {}}

-----------------------------------------------------------------------------
(* Which kind of manifest it is *)

\* looks_like_dash: a playlist tag decides against it, then the content type,
\* the name and the first bytes for it.
LooksLikeDash(m) ==
  ~m.ext /\ (m.type \in {"dash", "xml"} \/ m.name = "mpd" \/ m.xml)

\* detect_protocol: a manifest nothing is known of is taken for HLS.
DetectProtocol(m) ==
  CASE m.channels -> "channel_list"
    [] ~m.channels /\ (LooksLikeDash(m) \/ m.xml) -> "dash"
    [] ~m.channels /\ ~LooksLikeDash(m) /\ ~m.xml /\ ~m.playlist /\ m.name = "mpd" -> "dash"
    [] OTHER -> "hls"

=============================================================================
