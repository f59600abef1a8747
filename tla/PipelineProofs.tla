---------------------------- MODULE PipelineProofs ----------------------------
(***************************************************************************)
(* Proofs about Pipeline, for any streams, polls and segments and any size *)
(* of the key cache: the five invariants of the module.                    *)
(*                                                                         *)
(*   BufferTracksThePlayer   from PlayerInv: what Drain and SimulateFetch  *)
(*       take off two players that differ by the downloads alone           *)
(*   KeysAreFresh            from KeyInv: an entry is younger than its     *)
(*       lifetime once Prune was there, and its key was served then        *)
(*   OrphansAreComplete      from OrphanInv: what every packet, the end of *)
(*       a window and TakeFresh make of Sound and Complete                 *)
(*   WatchedBreakIsShown     from AdInv: the breaks that the metrics are   *)
(*       told are the ones that are logged or watched, in the same order   *)
(*   AlarmsAreCountedOnce    from CountInv: each alarm with a reason is    *)
(*       one finding, and every other event leaves the counters            *)
(*                                                                         *)
(* Lists, windows and event queues have any length.  What a fold makes of  *)
(* one is read off a run: a function f with f[0] the start and f[k] the    *)
(* Turn of f[k - 1] for every element, and a set of the k for which a      *)
(* claim holds is closed upwards (Upward, from the well-founded order of   *)
(* the naturals).                                                          *)
(***************************************************************************)
EXTENDS Pipeline, SequenceTheorems, FiniteSetTheorems, WellFoundedInduction, TLAPS

-----------------------------------------------------------------------------
(* Induction, over a set: the library states it with an operator.          *)

LEMMA SetInduction ==
  ASSUME NEW T, T \subseteq Nat, 0 \in T, \A n \in T : n + 1 \in T
  PROVE  T = Nat
<1> DEFINE Less == OpToRel(<, Nat)
           U == Nat \ T
<1>1. SUFFICES ASSUME U # {} PROVE FALSE
  OBVIOUS
<1>2. IsWellFoundedOn(Less, Nat)
  BY NatLessThanWellFounded, Zenon
<1>3. U \subseteq Nat
  OBVIOUS
<1>4. \A x, y \in Nat : y < x => <<y, x>> \in Less
  BY DEF OpToRel
<1> HIDE DEF Less, U
<1>5. PICK x \in U : \A y \in U : ~(<<y, x>> \in Less)
  BY <1>1, <1>2, <1>3, WFMin
<1> USE DEF U
<1>6. x \in Nat /\ x # 0
  OBVIOUS
<1>7. x - 1 \in Nat /\ x - 1 < x
  BY <1>6
<1>8. x - 1 \in T
  BY <1>4, <1>5, <1>6, <1>7
<1>9. (x - 1) + 1 \in T
  BY <1>8
<1> QED
  BY <1>6, <1>9

\* The same up to a number.
LEMMA Upward ==
  ASSUME NEW n \in Nat, NEW T, 0 \in T, \A k \in 1..n : k - 1 \in T => k \in T
  PROVE  \A k \in 0..n : k \in T
<1> DEFINE U == {k \in Nat : k <= n => k \in T}
<1>1. U \subseteq Nat /\ 0 \in U
  OBVIOUS
<1>2. ASSUME NEW k \in U PROVE k + 1 \in U
  <2>1. CASE k + 1 <= n
    <3>1. k + 1 \in 1..n /\ (k + 1) - 1 = k /\ k \in T
      BY <2>1
    <3> QED
      BY <3>1
  <2> QED
    BY <2>1
<1> HIDE DEF U
<1>3. U = Nat
  BY <1>1, <1>2, SetInduction
<1> QED
  BY <1>3 DEF U

-----------------------------------------------------------------------------
(* The loops of the model over sequences are folds.  What is said of all    *)
(* of them is said once, of the loop that Turn names: a fold has run its    *)
(* turns, one for each element, in order.                                   *)
Turn(which, c, acc, x) ==
  CASE which = "metrics" -> UpdateMetrics(acc, x)
    [] which = "breaks"  -> NoteAd(acc, x)
    [] which = "watched" -> LastActive(acc, x)
    [] which = "reps"    -> Mpd!Representation(acc, x, c.set, c.period, c.clock)
    [] which = "sets"    -> Mpd!Adaptation(acc, x, c.period, c.clock)
    [] which = "periods" -> Mpd!WithPeriod(acc, x)
    [] which = "walk"    -> Tr!Piece(acc, c.window, x)
    [] which = "scan"    -> ScanItem(acc, c.items, x, c.now)
    [] which = "events"  -> WithEvents(acc, x)

\* What FoldLeft defines: the fold of every subset of the positions.
Folds(which, c, base, seq, S, g) ==
  g = [s \in SUBSET S |-> IF s = {} THEN base
                          ELSE Turn(which, c, g[s \ {Max(s)}], seq[Max(s)])]

LEMMA FoldsExist ==
  ASSUME NEW which, NEW c, NEW base, NEW seq
  PROVE  \A n \in Nat : \E g : Folds(which, c, base, seq, 1..n, g)
<1> DEFINE T == {n \in Nat : \E g : Folds(which, c, base, seq, 1..n, g)}
<1>1. 0 \in T
  <2> DEFINE g == [s \in SUBSET {} |-> base]
  <2>1. 1..0 = {}
    OBVIOUS
  <2>2. g = [s \in SUBSET {} |-> IF s = {} THEN base
                                 ELSE Turn(which, c, g[s \ {Max(s)}], seq[Max(s)])]
    OBVIOUS
  <2> HIDE DEF g
  <2> QED
    BY <2>1, <2>2 DEF Folds
<1>2. ASSUME NEW n \in T PROVE n + 1 \in T
  <2>1. n \in Nat /\ n + 1 \in Nat
    OBVIOUS
  <2>2. PICK g : Folds(which, c, base, seq, 1..n, g)
    OBVIOUS
  <2> DEFINE S == SUBSET (1..(n + 1))
             h == [s \in S |-> IF n + 1 \in s THEN Turn(which, c, g[s \ {n + 1}], seq[n + 1])
                               ELSE g[s]]
             After(s) == IF s = {} THEN base ELSE Turn(which, c, h[s \ {Max(s)}], seq[Max(s)])
  <2>3. ASSUME NEW s \in S PROVE h[s] = After(s)
    <3>1. CASE n + 1 \in s
      <4>1. Max(s) = n + 1
        <5>1. \A x \in s : x \in Nat /\ x <= n + 1
          BY <2>1
        <5>2. \A y \in s : (\A x \in s : y >= x) => y = n + 1
          BY <3>1, <5>1, <2>1
        <5>3. \A x \in s : n + 1 >= x
          BY <5>1, <2>1
        <5> QED
          BY <3>1, <5>2, <5>3 DEF Max
      <4>2. s \ {n + 1} \in SUBSET (1..n) /\ s \ {n + 1} \in S /\ n + 1 \notin s \ {n + 1}
        BY <2>1
      <4>3. h[s \ {n + 1}] = g[s \ {n + 1}]
        BY <4>2
      <4> QED
        BY <3>1, <4>1, <4>3
    <3>2. CASE n + 1 \notin s
      <4>1. s \in SUBSET (1..n)
        <5>1. \A x \in s : x \in 1..(n + 1) /\ x # n + 1
          BY <3>2
        <5>2. \A x \in s : x \in 1..n
          BY <2>1, <5>1
        <5> QED
          BY <5>2
      <4>2. s \ {Max(s)} \in SUBSET (1..n) /\ s \ {Max(s)} \in S /\ n + 1 \notin s \ {Max(s)}
        BY <3>2, <4>1
      <4>3. h[s] = g[s] /\ h[s \ {Max(s)}] = g[s \ {Max(s)}]
        BY <3>2, <4>2
      <4>4. g[s] = IF s = {} THEN base ELSE Turn(which, c, g[s \ {Max(s)}], seq[Max(s)])
        BY <2>2, <4>1 DEF Folds
      <4> QED
        BY <4>3, <4>4
    <3> QED
      BY <3>1, <3>2
  <2>4. h = [s \in S |-> After(s)]
    <3>1. h = [s \in S |-> h[s]]
      OBVIOUS
    <3> HIDE DEF h, After
    <3> QED
      BY <2>3, <3>1
  <2> HIDE DEF h
  <2>5. Folds(which, c, base, seq, 1..(n + 1), h)
    BY <2>4 DEF Folds
  <2> QED
    BY <2>1, <2>5
<1> HIDE DEF T
<1>3. T \subseteq Nat
  BY DEF T
<1>4. T = Nat
  BY <1>1, <1>2, <1>3, SetInduction
<1> QED
  BY <1>4 DEF T

\* f runs through the turns one after the other.
Runs(which, c, base, seq, n, f) ==
  f[0] = base /\ \A k \in 1..n : f[k] = Turn(which, c, f[k - 1], seq[k])

LEMMA FoldsRun ==
  ASSUME NEW which, NEW c, NEW base, NEW seq, NEW n \in Nat, NEW g,
         Folds(which, c, base, seq, 1..n, g)
  PROVE  \E f : Runs(which, c, base, seq, n, f) /\ f[n] = g[1..n]
<1> DEFINE f == [k \in 0..n |-> g[1..k]]
<1>1. f[0] = base
  <2>1. 1..0 = {}
    OBVIOUS
  <2> QED
    BY <2>1 DEF Folds
<1>2. ASSUME NEW k \in 1..n PROVE f[k] = Turn(which, c, f[k - 1], seq[k])
  <2>1. 1..k \in SUBSET (1..n) /\ 1..k # {}
    OBVIOUS
  <2>2. Max(1..k) = k
    <3>1. k \in 1..k /\ \A x \in 1..k : k >= x
      OBVIOUS
    <3>2. \A y \in 1..k : (\A x \in 1..k : y >= x) => y = k
      OBVIOUS
    <3> QED
      BY <3>1, <3>2 DEF Max
  <2>3. (1..k) \ {k} = 1..(k - 1) /\ k - 1 \in 0..n /\ k \in 0..n
    OBVIOUS
  <2> QED
    BY <2>1, <2>2, <2>3 DEF Folds
<1>3. f[n] = g[1..n]
  OBVIOUS
<1> HIDE DEF f
<1> QED
  BY <1>1, <1>2, <1>3 DEF Runs

LEMMA UpdateAllRuns ==
  ASSUME NEW base, NEW events, NEW n \in Nat, DOMAIN events = 1..n
  PROVE  \E f : Runs("metrics", 0, base, events, n, f) /\ f[n] = UpdateAll(base, events)
<1> DEFINE Fold(g) == g = [s \in SUBSET (1..n) |->
                             IF s = {} THEN base
                             ELSE UpdateMetrics(g[s \ {Max(s)}], events[Max(s)])]
<1>1. \A g : Fold(g) <=> Folds("metrics", 0, base, events, 1..n, g)
  BY DEF Folds, Turn
<1> DEFINE h == CHOOSE g : Fold(g)
<1>2. UpdateAll(base, events) = h[1..n]
  BY DEF UpdateAll, FoldLeft, MapThenFoldSet
<1> HIDE DEF Fold
<1>3. Folds("metrics", 0, base, events, 1..n, h)
  BY <1>1, FoldsExist
<1> HIDE DEF h
<1> QED
  BY <1>2, <1>3, FoldsRun

LEMMA NoteAdsRuns ==
  ASSUME NEW kept, NEW list, NEW n \in Nat, DOMAIN list = 1..n
  PROVE  \E f : Runs("breaks", 0, kept, list, n, f) /\ f[n] = NoteAds(kept, list)
<1> DEFINE Fold(g) == g = [s \in SUBSET (1..n) |->
                             IF s = {} THEN kept ELSE NoteAd(g[s \ {Max(s)}], list[Max(s)])]
<1>1. \A g : Fold(g) <=> Folds("breaks", 0, kept, list, 1..n, g)
  BY DEF Folds, Turn
<1> DEFINE h == CHOOSE g : Fold(g)
<1>2. NoteAds(kept, list) = h[1..n]
  BY DEF NoteAds, FoldLeft, MapThenFoldSet
<1> HIDE DEF Fold
<1>3. Folds("breaks", 0, kept, list, 1..n, h)
  BY <1>1, FoldsExist
<1> HIDE DEF h
<1> QED
  BY <1>2, <1>3, FoldsRun

LEMMA WatchedRuns ==
  ASSUME NEW kept, NEW list, NEW n \in Nat, DOMAIN list = 1..n
  PROVE  \E f : Runs("watched", 0, kept, list, n, f) /\ f[n] = Watched(list, kept)
<1> DEFINE Fold(g) == g = [s \in SUBSET (1..n) |->
                             IF s = {} THEN kept ELSE LastActive(g[s \ {Max(s)}], list[Max(s)])]
<1>1. \A g : Fold(g) <=> Folds("watched", 0, kept, list, 1..n, g)
  BY DEF Folds, Turn
<1> DEFINE h == CHOOSE g : Fold(g)
<1>2. Watched(list, kept) = h[1..n]
  BY DEF Watched, FoldLeft, MapThenFoldSet
<1> HIDE DEF Fold
<1>3. Folds("watched", 0, kept, list, 1..n, h)
  BY <1>1, FoldsExist
<1> HIDE DEF h
<1> QED
  BY <1>2, <1>3, FoldsRun

-----------------------------------------------------------------------------
(* Lists: sequences, of whatever.                                           *)

Listed(s) == \E S : s \in Seq(S)

LEMMA ListedLen == ASSUME NEW s, Listed(s) PROVE Len(s) \in Nat /\ DOMAIN s = 1..Len(s)
  BY DEF Listed

LEMMA ListedOne == \A x : Listed(<<x>>)
<1> SUFFICES ASSUME NEW x PROVE Listed(<<x>>)
  OBVIOUS
<1>1. <<x>> \in Seq({x})
  OBVIOUS
<1> QED
  BY <1>1 DEF Listed

LEMMA ListedNone == Listed(<< >>)
<1>1. << >> \in Seq({})
  OBVIOUS
<1> QED
  BY <1>1 DEF Listed

LEMMA ListedJoin == ASSUME NEW s, NEW t, Listed(s), Listed(t) PROVE Listed(s \o t)
<1>1. PICK S : s \in Seq(S)
  BY DEF Listed
<1>2. PICK T : t \in Seq(T)
  BY DEF Listed
<1>3. s \in Seq(S \cup T) /\ t \in Seq(S \cup T)
  <2>1. \A x \in Seq(S) : x \in Seq(S \cup T)
    BY SeqDef
  <2>2. \A x \in Seq(T) : x \in Seq(S \cup T)
    BY SeqDef
  <2> QED
    BY <1>1, <1>2, <2>1, <2>2
<1>4. s \o t \in Seq(S \cup T)
  BY <1>3
<1> QED
  BY <1>4 DEF Listed

LEMMA ListedJoins ==
  ASSUME NEW s, NEW t, Listed(s), Listed(t), NEW m, NEW n, m = Len(s), n = Len(t)
  PROVE  /\ m \in Nat /\ n \in Nat /\ Len(s \o t) = m + n /\ DOMAIN (s \o t) = 1..(m + n)
         /\ \A i \in 1..m : (s \o t)[i] = s[i]
         /\ \A i \in (m + 1)..(m + n) : (s \o t)[i] = t[i - m]
<1>1. PICK S : s \in Seq(S)
  BY DEF Listed
<1>2. PICK T : t \in Seq(T)
  BY DEF Listed
<1>3. s \in Seq(S \cup T) /\ t \in Seq(S \cup T)
  <2>1. \A x \in Seq(S) : x \in Seq(S \cup T)
    BY SeqDef
  <2>2. \A x \in Seq(T) : x \in Seq(S \cup T)
    BY SeqDef
  <2> QED
    BY <1>1, <1>2, <2>1, <2>2
<1> QED
  BY <1>3

LEMMA ListedMap ==
  ASSUME NEW n \in Nat, NEW f, f = [i \in 1..n |-> f[i]]
  PROVE  Listed(f) /\ Len(f) = n
<1> DEFINE S == {f[i] : i \in 1..n}
<1>1. f \in [1..n -> S]
  BY Zenon
<1> HIDE DEF S
<1>2. f \in Seq(S) /\ Len(f) = n
  BY <1>1
<1> QED
  BY <1>2 DEF Listed

-----------------------------------------------------------------------------
(* The summary of an MPD                                                    *)

Known(o) == /\ {"hint", "variants", "best", "drm", "probe", "edge", "audio"} \subseteq DOMAIN o
            /\ o.hint \in Nat /\ Listed(o.variants)

LEMMA SameMax == \A S : Mpd!Max(S) = Max(S)
  BY DEF Mpd!Max, Max

LEMMA KnownRep ==
  ASSUME NEW o, Known(o), NEW r, NEW set, NEW period, NEW clock
  PROVE  Known(Mpd!Representation(o, r, set, period, clock))
<1> DEFINE t == Mpd!Inherited(r, set)
           row == Mpd!Variant(r, set)
           seen == [o EXCEPT !.drm = Mpd!MergeDrm(@, r.protections),
                             !.variants = @ \o <<row>>]
<1>1. Known(seen)
  <2>1. Listed(o.variants \o <<row>>)
    BY ListedOne, ListedJoin, Zenon DEF Known
  <2> HIDE DEF row
  <2> QED
    BY <2>1 DEF Known
<1>2. Mpd!OrElse(Mpd!SegmentDuration(t), seen.hint) \in Nat
  <2>1. Mpd!SegmentDuration(t) \subseteq Nat
    BY DEF Mpd!SegmentDuration, Mpd!LongestHint
  <2> QED
    BY <1>1, <2>1 DEF Known, Mpd!OrElse, Mpd!Only
<1> HIDE DEF seen
<1>3. Mpd!Representation(o, r, set, period, clock) =
        IF ~(r.bandwidth >= o.best) THEN seen
        ELSE [seen EXCEPT !.best  = r.bandwidth,
                          !.probe = {Mpd!Address(r, set)},
                          !.hint  = Mpd!OrElse(Mpd!SegmentDuration(t), @),
                          !.edge  = UNION {Mpd!LiveEdge(r, set, period, c.ast, c.now) : c \in clock}]
  BY DEF Mpd!Representation, seen
<1> HIDE DEF t
<1> QED
  BY <1>1, <1>2, <1>3 DEF Known

LEMMA KnownSet ==
  ASSUME NEW o, Known(o), NEW set, IsList(set.reps), NEW period, NEW clock
  PROVE  Known(Mpd!Adaptation(o, set, period, clock))
<1> DEFINE n == Len(set.reps)
           c == [set |-> set, period |-> period, clock |-> clock]
           merged == [o EXCEPT !.drm = Mpd!MergeDrm(@, set.protections)]
           Rep(a, r) == Mpd!Representation(a, r, set, period, clock)
           Fold(g) == g = [s \in SUBSET (1..n) |->
                             IF s = {} THEN merged
                             ELSE Rep(g[s \ {Mpd!Max(s)}], set.reps[Mpd!Max(s)])]
           h == CHOOSE g : Fold(g)
<1>1. n \in Nat /\ DOMAIN set.reps = 1..n
  BY DEF IsList
<1>2. Known(merged)
  BY DEF Known
<1>3. Known([merged EXCEPT !.audio = @ \o <<set.lang>>])
  BY <1>2 DEF Known
<1>4. Mpd!FoldLeft(Rep, merged, set.reps) = h[1..n]
  BY <1>1 DEF Mpd!FoldLeft, Mpd!MapThenFoldSet
<1>5. /\ c.set = set /\ c.period = period /\ c.clock = clock
      /\ \A g : Fold(g) <=> Folds("reps", c, merged, set.reps, 1..n, g)
  BY SameMax DEF Folds, Turn
<1>6. Mpd!Adaptation(o, set, period, clock) \in
        {[merged EXCEPT !.audio = @ \o <<set.lang>>], merged, h[1..n]}
  BY <1>4 DEF Mpd!Adaptation
<1> HIDE DEF Fold, merged, n, c
<1>7. Folds("reps", c, merged, set.reps, 1..n, h)
  BY <1>1, <1>5, FoldsExist
<1> HIDE DEF h
<1>8. PICK f : Runs("reps", c, merged, set.reps, n, f) /\ f[n] = h[1..n]
  BY <1>1, <1>7, FoldsRun
<1>9. \A k \in 0..n : Known(f[k])
  <2> DEFINE T == {k \in 0..n : Known(f[k])}
  <2>1. 0 \in T
    BY <1>1, <1>2, <1>8 DEF Runs
  <2>2. \A k \in 1..n : k - 1 \in T => k \in T
    BY <1>1, <1>5, <1>8, KnownRep DEF Runs, Turn
  <2> HIDE DEF T
  <2>3. \A k \in 0..n : k \in T
    BY <1>1, <2>1, <2>2, Upward
  <2> QED
    BY <2>3 DEF T
<1>10. Known(h[1..n])
  BY <1>1, <1>8, <1>9
<1> QED
  BY <1>2, <1>3, <1>6, <1>10

LEMMA KnownPeriod ==
  ASSUME NEW period, NEW clock, IsList(period.adaptations),
         \A j \in DOMAIN period.adaptations : IsList(period.adaptations[j].reps)
  PROVE  Known(Mpd!ParsePeriod(period, clock))
<1> DEFINE sets == period.adaptations
           n == Len(sets)
           c == [period |-> period, clock |-> clock]
           Set(a, s) == Mpd!Adaptation(a, s, period, clock)
           Fold(g) == g = [s \in SUBSET (1..n) |->
                             IF s = {} THEN Mpd!EmptyPeriod
                             ELSE Set(g[s \ {Mpd!Max(s)}], sets[Mpd!Max(s)])]
           h == CHOOSE g : Fold(g)
<1>1. n \in Nat /\ DOMAIN sets = 1..n
  BY DEF IsList
<1>2. Known(Mpd!EmptyPeriod)
  BY ListedNone DEF Known, Mpd!EmptyPeriod, Mpd!DefaultHint
<1>3. Mpd!ParsePeriod(period, clock) = h[1..n]
  BY <1>1 DEF Mpd!ParsePeriod, Mpd!FoldLeft, Mpd!MapThenFoldSet
<1>4. /\ c.period = period /\ c.clock = clock
      /\ \A g : Fold(g) <=> Folds("sets", c, Mpd!EmptyPeriod, sets, 1..n, g)
  BY SameMax DEF Folds, Turn
<1> HIDE DEF Fold, n, c
<1>5. Folds("sets", c, Mpd!EmptyPeriod, sets, 1..n, h)
  BY <1>1, <1>4, FoldsExist
<1> HIDE DEF h
<1>6. PICK f : Runs("sets", c, Mpd!EmptyPeriod, sets, n, f) /\ f[n] = h[1..n]
  BY <1>1, <1>5, FoldsRun
<1>7. \A k \in 0..n : Known(f[k])
  <2> DEFINE T == {k \in 0..n : Known(f[k])}
  <2>1. 0 \in T
    BY <1>1, <1>2, <1>6 DEF Runs
  <2>2. \A k \in 1..n : k - 1 \in T => k \in T
    BY <1>1, <1>4, <1>6, KnownSet DEF Runs, Turn
  <2> HIDE DEF T
  <2>3. \A k \in 0..n : k \in T
    BY <1>1, <2>1, <2>2, Upward
  <2> QED
    BY <2>3 DEF T
<1> QED
  BY <1>1, <1>3, <1>6, <1>7

LEMMA KnownMpd ==
  ASSUME NEW mpd, IsMpd(mpd), NEW t, NEW a \in Mpd!ParseMpd(mpd, t)
  PROVE  Known(a)
<1> DEFINE n == Len(mpd.periods)
           Clock(i) == IF mpd.live /\ i = n THEN {[ast |-> mpd.ast, now |-> t]} ELSE {}
           periods == [i \in 1..n |-> Mpd!ParsePeriod(mpd.periods[i], Clock(i))]
           Fold(g) == g = [s \in SUBSET (1..n) |->
                             IF s = {} THEN Mpd!EmptyPeriod
                             ELSE Mpd!WithPeriod(g[s \ {Mpd!Max(s)}], periods[Mpd!Max(s)])]
           h == CHOOSE g : Fold(g)
<1>1. n \in Nat /\ DOMAIN mpd.periods = 1..n
  BY DEF IsMpd, IsList
<1>2. Known(Mpd!EmptyPeriod)
  BY ListedNone DEF Known, Mpd!EmptyPeriod, Mpd!DefaultHint
<1>3. \A i \in 1..n : Known(periods[i])
  BY <1>1, KnownPeriod DEF IsMpd
<1>4. a = [h[1..n] EXCEPT !.variants = Mpd!RichestFirst(@)]
  BY <1>1 DEF Mpd!ParseMpd, Mpd!FoldLeft, Mpd!MapThenFoldSet
<1>5. \A g : Fold(g) <=> Folds("periods", 0, Mpd!EmptyPeriod, periods, 1..n, g)
  BY SameMax DEF Folds, Turn
<1> HIDE DEF Fold, n, periods
<1>6. Folds("periods", 0, Mpd!EmptyPeriod, periods, 1..n, h)
  BY <1>1, <1>5, FoldsExist
<1> HIDE DEF h
<1>7. PICK f : Runs("periods", 0, Mpd!EmptyPeriod, periods, n, f) /\ f[n] = h[1..n]
  BY <1>1, <1>6, FoldsRun
<1>8. ASSUME NEW o, NEW p, Known(o), Known(p) PROVE Known(Mpd!WithPeriod(o, p))
  <2>1. Listed(o.variants \o p.variants)
    BY <1>8, ListedJoin, Zenon DEF Known
  <2> QED
    BY <1>8, <2>1 DEF Known, Mpd!WithPeriod
<1>9. \A k \in 0..n : Known(f[k])
  <2> DEFINE T == {k \in 0..n : Known(f[k])}
  <2>1. 0 \in T
    BY <1>1, <1>2, <1>7 DEF Runs
  <2>2. \A k \in 1..n : k - 1 \in T => k \in T
    BY <1>1, <1>3, <1>7, <1>8 DEF Runs, Turn
  <2> HIDE DEF T
  <2>3. \A k \in 0..n : k \in T
    BY <1>1, <2>1, <2>2, Upward
  <2> QED
    BY <2>3 DEF T
<1>10. Known(h[1..n])
  BY <1>1, <1>7, <1>9
<1>11. ASSUME NEW s, Listed(s) PROVE Listed(Mpd!RichestFirst(s))
  <2>1. Len(s) \in Nat
    BY <1>11, ListedLen
  <2> DEFINE r == Mpd!RichestFirst(s)
  <2>2. r = [i \in 1..Len(s) |-> r[i]]
    BY DEF Mpd!RichestFirst
  <2> HIDE DEF r
  <2>3. Listed(r)
    BY <2>1, <2>2, ListedMap
  <2> QED
    BY <2>3 DEF r
<1> QED
  BY <1>4, <1>10, <1>11 DEF Known

-----------------------------------------------------------------------------
(* Keys *)


\* What holds of time and of the key server.
Origin ==
  /\ stream \in Streams
  /\ now \in Nat
  /\ server.key \in Nat \ {0}
  /\ DOMAIN server.ended = 1..(server.key - 1)
  /\ \A k \in 1..(server.key - 1) : server.ended[k] \in Nat /\ server.ended[k] <= now

\* The key of an entry was the server's, or had ended for no longer than a
\* request takes, when the entry was made; there is one for an address.
CacheInv ==
  /\ IsFiniteSet(cache) /\ Cardinality(cache) <= KeyCacheMax
  /\ \A e \in cache : /\ e.key \in 1..server.key /\ e.at \in Nat /\ e.at <= now
                      /\ e.key = server.key \/ e.at <= server.ended[e.key] + KeyWait
  /\ \A e, f \in cache : e.uri = f.uri => e = f

\* The key that is on its way is the server's, or ended since it answered.
AnswerInv ==
  \A got \in seg :
    /\ {"s", "answer"} \subseteq DOMAIN got
    /\ phase = "body" =>
         /\ got.answer.key \in 1..server.key
         /\ got.answer.key = server.key \/ now <= server.ended[got.answer.key]

UsedInv ==
  /\ "used" \in DOMAIN ghost
  /\ phase = "finish" =>
       \A k \in ghost.used : k = server.key \/ now - server.ended[k] < KeyTtl + KeyWait

KeyInv == Origin /\ CacheInv /\ AnswerInv /\ UsedInv

LEMMA KeyInvInit == Init => KeyInv
<1> SUFFICES ASSUME Init PROVE KeyInv
  OBVIOUS
<1>1. Origin
  BY DEF Init, Origin
<1>2. CacheInv
  <2>1. cache = {} /\ Cardinality({}) = 0 /\ IsFiniteSet({})
    BY FS_EmptySet DEF Init
  <2> QED
    BY <2>1, CacheAssumption DEF CacheInv
<1>3. UsedInv /\ AnswerInv
  BY DEF Init, UsedInv, Observer, AnswerInv
<1> QED
  BY <1>1, <1>2, <1>3 DEF KeyInv

\* What an expired cache keeps.
LEMMA PruneKeeps ==
  ASSUME NEW c, IsFiniteSet(c), Cardinality(c) <= KeyCacheMax, NEW t
  PROVE  /\ Prune(c, t, KeyTtl) \subseteq c
         /\ IsFiniteSet(Prune(c, t, KeyTtl)) /\ Cardinality(Prune(c, t, KeyTtl)) <= KeyCacheMax
         /\ \A e \in Prune(c, t, KeyTtl) : t - e.at < KeyTtl
<1>1. Prune(c, t, KeyTtl) \subseteq c /\ \A e \in Prune(c, t, KeyTtl) : t - e.at < KeyTtl
  BY DEF Prune
<1>2. /\ IsFiniteSet(Prune(c, t, KeyTtl))
      /\ Cardinality(Prune(c, t, KeyTtl)) <= Cardinality(c)
  BY <1>1, FS_Subset
<1>3. Cardinality(Prune(c, t, KeyTtl)) \in Nat /\ Cardinality(c) \in Nat
  BY <1>2, FS_CardinalityType
<1> QED
  BY <1>1, <1>2, <1>3, CacheAssumption

\* A cache that expired is as good as it was.
LEMMA PrunedCache ==
  ASSUME CacheInv, Origin, cache' = Prune(cache, now, KeyTtl), UNCHANGED server,
         now' \in Nat, now <= now'
  PROVE  CacheInv'
<1>1. IsFiniteSet(cache) /\ Cardinality(cache) <= KeyCacheMax
  BY DEF CacheInv
<1>2. PICK c, t : c = cache /\ t = now
  OBVIOUS
<1>3. cache' \subseteq cache /\ IsFiniteSet(cache') /\ Cardinality(cache') <= KeyCacheMax
  BY <1>1, <1>2, PruneKeeps
<1> QED
  BY <1>3 DEF CacheInv, Origin

\* The size of a cache with one more entry, or with one replaced.
LEMMA PutKeepsSize ==
  ASSUME NEW c, IsFiniteSet(c), NEW x, NEW u, Cardinality(c) < KeyCacheMax
  PROVE  LET put == {e \in c : e.uri # u} \cup {x}
         IN  IsFiniteSet(put) /\ Cardinality(put) <= KeyCacheMax
<1> DEFINE rest == {e \in c : e.uri # u}
<1>1. IsFiniteSet(rest) /\ Cardinality(rest) <= Cardinality(c)
  BY FS_Subset
<1>2. Cardinality(rest) \in Nat /\ Cardinality(c) \in Nat
  BY <1>1, FS_CardinalityType
<1>3. /\ IsFiniteSet(rest \cup {x})
      /\ Cardinality(rest \cup {x}) <= Cardinality(rest) + 1
  <2> HIDE DEF rest
  <2>1. /\ IsFiniteSet(rest \cup {x})
        /\ Cardinality(rest \cup {x}) = IF x \in rest THEN Cardinality(rest) ELSE Cardinality(rest) + 1
    BY <1>1, FS_AddElement
  <2> QED
    BY <1>2, <2>1
<1>4. Cardinality(rest \cup {x}) \in Nat
  BY <1>3, FS_CardinalityType
<1> QED
  BY <1>1, <1>2, <1>3, <1>4, CacheAssumption

LEMMA InsertedCache ==
  ASSUME CacheInv, Origin, UNCHANGED server, NEW uri, NEW key \in 1..server.key,
         NEW at \in Nat, now' = at, now <= at,
         key = server.key \/ at <= server.ended[key] + KeyWait,
         cache' \in Insert(cache, uri, key, at, KeyTtl, KeyCacheMax)
  PROVE  CacheInv'
<1> DEFINE live == Prune(cache, at, KeyTtl)
           new == [uri |-> uri, key |-> key, at |-> at]
           Put(c) == {e \in c : e.uri # uri} \cup {new}
<1>1. IsFiniteSet(cache) /\ Cardinality(cache) <= KeyCacheMax
  BY DEF CacheInv
<1>2. PICK c0 : c0 = cache
  OBVIOUS
<1>3. live \subseteq cache /\ IsFiniteSet(live) /\ Cardinality(live) <= KeyCacheMax
  BY <1>1, <1>2, PruneKeeps
<1>4. PICK c : /\ cache' = Put(c) /\ c \subseteq live /\ IsFiniteSet(c)
               /\ Cardinality(c) < KeyCacheMax
  <2>1. CASE Cardinality(live) < KeyCacheMax
    BY <1>3, <2>1 DEF Insert
  <2>2. CASE ~(Cardinality(live) < KeyCacheMax)
    <3>1. PICK old \in live : cache' = Put(live \ {old})
      BY <2>2 DEF Insert
    <3> HIDE DEF live
    <3>2. IsFiniteSet(live \ {old}) /\ Cardinality(live \ {old}) = Cardinality(live) - 1
      BY <1>3, FS_RemoveElement
    <3>3. Cardinality(live) \in Nat
      BY <1>3, FS_CardinalityType
    <3> QED
      BY <1>3, <3>1, <3>2, <3>3, CacheAssumption
  <2> QED
    BY <2>1, <2>2
<1>5. IsFiniteSet(cache') /\ Cardinality(cache') <= KeyCacheMax
  <2>1. PICK n : n = new
    OBVIOUS
  <2> QED
    BY <1>4, <2>1, PutKeepsSize
<1> HIDE DEF live
<1>6. \A e \in cache' : e = new \/ (e \in cache /\ e.uri # uri)
  BY <1>3, <1>4
<1>7. new.uri = uri /\ new.key = key /\ new.at = at
  OBVIOUS
<1> HIDE DEF new
<1> QED
  BY <1>5, <1>6, <1>7 DEF CacheInv, Origin

LEMMA KeyInvNext == KeyInv /\ [Next]_vars => KeyInv'
<1> SUFFICES ASSUME KeyInv, [Next]_vars PROVE KeyInv'
  OBVIOUS
<1> USE DEF KeyInv
<1>1. CASE UNCHANGED vars
  BY <1>1 DEF vars, Origin, CacheInv, AnswerInv, UsedInv
<1>2. CASE StartPoll
  <2>1. PICK w \in Nat : now' = now + w
    BY <1>2, StreamsAssumption DEF StartPoll, Origin
  <2>2. UNCHANGED <<stream, server, cache, ghost, seg>> /\ phase' = "manifest"
    BY <1>2 DEF StartPoll
  <2>3. Origin'
    BY <2>1, <2>2 DEF Origin
  <2>4. CacheInv'
    BY <2>1, <2>2 DEF CacheInv, Origin
  <2>5. UsedInv' /\ AnswerInv'
    BY <2>2 DEF UsedInv, AnswerInv
  <2> QED
    BY <2>3, <2>4, <2>5
<1>3. CASE PollFails
  BY <1>3 DEF PollFails, Origin, CacheInv, AnswerInv, UsedInv
<1>4. CASE EndCycle
  BY <1>4 DEF EndCycle, Origin, CacheInv, AnswerInv, UsedInv
<1>5. CASE ReadMaster
  BY <1>5 DEF ReadMaster, Origin, CacheInv, AnswerInv, UsedInv
<1>6. CASE ReadMedia
  BY <1>6 DEF ReadMedia, Origin, CacheInv, AnswerInv, UsedInv
<1>7. CASE ReadMpd
  <2>1. /\ UNCHANGED <<stream, now, server, cache, seg, ghost>>
        /\ phase' \in {"end", "fetch", "meta"}
    BY <1>7 DEF ReadMpd
  <2>2. Origin' /\ CacheInv'
    BY <2>1 DEF Origin, CacheInv
  <2>3. AnswerInv' /\ UsedInv'
    BY <2>1 DEF AnswerInv, UsedInv
  <2> QED
    BY <2>2, <2>3
<1>8. CASE EndMpd
  BY <1>8 DEF EndMpd, Origin, CacheInv, AnswerInv, UsedInv
<1>9. CASE FetchFails
  BY <1>9 DEF FetchFails, Origin, CacheInv, AnswerInv, UsedInv
<1>10. CASE FetchSegment
  <2>1. PICK w \in Nat : now' = now + w
    BY <1>10, StreamsAssumption DEF FetchSegment, Origin
  <2>2. UNCHANGED <<stream, server, cache>>
    BY <1>10 DEF FetchSegment
  <2>3. Origin'
    BY <2>1, <2>2 DEF Origin
  <2>4. CacheInv'
    BY <2>1, <2>2 DEF CacheInv, Origin
  <2>5. "used" \in DOMAIN ghost' /\ ghost'.used = {}
    BY <1>10 DEF FetchSegment, UsedInv
  <2>6. /\ phase' \in {"key", "finish"}
        /\ \E s, key, at : seg' = {[s |-> s, key |-> key, at |-> at, answer |-> NoAnswer]}
    BY <1>10, Zenon DEF FetchSegment
  <2>7. AnswerInv'
    <3>1. PICK s, key, at : seg' = {[s |-> s, key |-> key, at |-> at, answer |-> NoAnswer]}
      BY <2>6
    <3>2. PICK got : got = [s |-> s, key |-> key, at |-> at, answer |-> NoAnswer]
      OBVIOUS
    <3>3. seg' = {got} /\ {"s", "answer"} \subseteq DOMAIN got
      BY <3>1, <3>2
    <3> QED
      BY <2>6, <3>3 DEF AnswerInv
  <2> QED
    BY <2>3, <2>4, <2>5, <2>7 DEF UsedInv
<1>11. CASE KeyHeld
  <2>1. /\ cache' = Prune(cache, now, KeyTtl) /\ UNCHANGED <<stream, now, server, seg>>
        /\ ghost' = [ghost EXCEPT !.used = Lookup(Prune(cache, now, KeyTtl), KeyUri)]
        /\ phase' = "finish"
    BY <1>11 DEF KeyHeld
  <2>2. Origin' /\ CacheInv'
    BY <2>1, PrunedCache DEF Origin
  <2>3. "used" \in DOMAIN ghost' /\ ghost'.used = Lookup(Prune(cache, now, KeyTtl), KeyUri)
    BY <2>1 DEF UsedInv
  <2>4. ASSUME NEW k \in ghost'.used
        PROVE  k = server.key \/ now - server.ended[k] < KeyTtl + KeyWait
    <3>1. PICK e \in cache : e.key = k /\ now - e.at < KeyTtl
      BY <2>3 DEF Lookup, Prune
    <3>2. /\ k \in 1..server.key /\ e.at \in Nat /\ e.at <= now
          /\ k = server.key \/ e.at <= server.ended[k] + KeyWait
      BY <3>1 DEF CacheInv
    <3>3. CASE k # server.key
      <4>1. k \in 1..(server.key - 1) /\ server.ended[k] \in Nat
        BY <3>2, <3>3 DEF Origin
      <4> QED
        BY <3>1, <3>2, <3>3, <4>1, CacheAssumption DEF Origin
    <3> QED
      BY <3>3
  <2>5. UsedInv'
    BY <2>1, <2>3, <2>4 DEF UsedInv
  <2>6. AnswerInv'
    BY <2>1 DEF AnswerInv
  <2> QED
    BY <2>2, <2>5, <2>6
<1>12. CASE KeyFetched
  <2>1. PICK w \in stream.keyWaits, got \in seg :
          LET at  == now + w
              key == KeyOf(got.answer)
          IN  /\ now' = at
              /\ cache' \in IF key = {} THEN {cache}
                            ELSE Insert(cache, KeyUri, got.answer.key, at, KeyTtl, KeyCacheMax)
              /\ ghost' = [ghost EXCEPT !.used = key]
    BY <1>12 DEF KeyFetched
  <2>2. phase = "body" /\ phase' = "finish" /\ UNCHANGED <<stream, server, seg>>
    BY <1>12 DEF KeyFetched
  <2>3. PICK k, at : k = got.answer.key /\ at = now + w
    OBVIOUS
  <2>4. at \in Nat /\ now <= at /\ at <= now + KeyWait /\ now' = at
    BY <2>1, <2>3, StreamsAssumption, CacheAssumption DEF Origin
  <2>5. k \in 1..server.key /\ (k = server.key \/ now <= server.ended[k])
    BY <2>2, <2>3 DEF AnswerInv
  <2>6. k = server.key \/ (server.ended[k] \in Nat /\ at <= server.ended[k] + KeyWait)
    BY <2>4, <2>5, CacheAssumption DEF Origin
  <2>7. Origin'
    BY <2>2, <2>4 DEF Origin
  <2>8. CacheInv'
    <3>1. CASE cache' = cache
      BY <2>2, <2>4, <3>1 DEF CacheInv, Origin
    <3>2. CASE cache' \in Insert(cache, KeyUri, k, at, KeyTtl, KeyCacheMax)
      <4>1. PICK uri : uri = KeyUri
        OBVIOUS
      <4> QED
        BY <2>2, <2>4, <2>5, <2>6, <3>2, <4>1, InsertedCache
    <3> QED
      BY <2>1, <2>3, <3>1, <3>2
  <2>9. UsedInv'
    <3>1. "used" \in DOMAIN ghost' /\ ghost'.used \subseteq {k}
      BY <2>1, <2>3 DEF UsedInv, KeyOf
    <3> QED
      BY <2>2, <2>4, <2>6, <3>1, CacheAssumption DEF UsedInv
  <2>10. AnswerInv'
    BY <2>2 DEF AnswerInv
  <2> QED
    BY <2>7, <2>8, <2>9, <2>10
<1>13. CASE Rotate
  <2>1. /\ server' = [key |-> server.key + 1, ended |-> Append(server.ended, now)]
        /\ phase # "finish" /\ UNCHANGED <<stream, now, phase, seg, cache, ghost>>
    BY <1>13 DEF Rotate
  <2>6. /\ server'.key = server.key + 1 /\ server'.ended[server.key] = now
        /\ \A k \in 1..(server.key - 1) : server'.ended[k] = server.ended[k]
    BY <2>1 DEF Origin
  <2>7. DOMAIN server'.ended = 1..server.key
    BY <2>1 DEF Origin
  <2>2. Origin'
    <3>1. ASSUME NEW k \in 1..server.key PROVE server'.ended[k] \in Nat /\ server'.ended[k] <= now
      <4>1. CASE k = server.key
        BY <2>6, <4>1 DEF Origin
      <4>2. CASE k # server.key
        BY <2>6, <4>2 DEF Origin
      <4> QED
        BY <4>1, <4>2
    <3>2. stream' = stream /\ now' = now /\ stream \in Streams /\ now \in Nat
      BY <2>1 DEF Origin
    <3>3. server'.key \in Nat \ {0} /\ server'.key - 1 = server.key
      BY <2>6 DEF Origin
    <3>4. DOMAIN server'.ended = 1..(server'.key - 1)
      BY <2>7, <3>3
    <3>5. \A k \in 1..(server'.key - 1) :
            server'.ended[k] \in Nat /\ server'.ended[k] <= now'
      BY <3>1, <3>2, <3>3
    <3> QED
      BY <3>2, <3>3, <3>4, <3>5 DEF Origin
  <2>4. CacheInv'
    <3>1. ASSUME NEW e \in cache
          PROVE  /\ e.key \in 1..server'.key
                 /\ e.key = server'.key \/ e.at <= server'.ended[e.key] + KeyWait
      <4>1. /\ e.key \in 1..server.key /\ e.at \in Nat /\ e.at <= now /\ now \in Nat
            /\ e.key = server.key \/ e.at <= server.ended[e.key] + KeyWait
            /\ server.key \in Nat \ {0}
        BY DEF Origin, CacheInv
      <4>2. CASE e.key = server.key
        <5>1. server'.ended[e.key] = now
          BY <2>6, <4>2
        <5> QED
          BY <2>6, <4>1, <4>2, <5>1, CacheAssumption
      <4>3. CASE e.key # server.key
        <5>1. e.key \in 1..(server.key - 1)
          BY <4>1, <4>3
        <5> QED
          BY <2>6, <4>1, <4>3, <5>1
      <4> QED
        BY <4>2, <4>3
    <3> QED
      BY <2>1, <3>1 DEF CacheInv
  <2>5. UsedInv'
    BY <2>1 DEF UsedInv
  <2>3. AnswerInv'
    BY <2>1 DEF AnswerInv, Origin
  <2> QED
    BY <2>2, <2>3, <2>4, <2>5
<1>14. CASE Finish
  BY <1>14 DEF Finish, Origin, CacheInv, AnswerInv, UsedInv
<1>15. CASE KeyAnswered
  <2>1. PICK w \in stream.keyWaits, bytes \in stream.keyBytes, got \in seg :
          /\ now' = now + w
          /\ seg' = {[got EXCEPT !.answer = [bytes |-> bytes, key |-> server.key]]}
    BY <1>15 DEF KeyAnswered
  <2>2. /\ cache' = Prune(cache, now, KeyTtl) /\ phase' = "body"
        /\ UNCHANGED <<stream, server, ghost>>
    BY <1>15 DEF KeyAnswered
  <2>3. now' \in Nat /\ now <= now'
    BY <2>1, StreamsAssumption, CacheAssumption DEF Origin
  <2>4. Origin' /\ CacheInv' /\ UsedInv'
    BY <2>2, <2>3, PrunedCache DEF Origin, UsedInv
  <2>5. AnswerInv'
    <3>1. PICK answer : answer = [bytes |-> bytes, key |-> server.key]
      OBVIOUS
    <3>2. PICK on : on = [got EXCEPT !.answer = answer]
      OBVIOUS
    <3>3. {"s", "answer"} \subseteq DOMAIN got
      BY DEF AnswerInv
    <3>4. {"s", "answer"} \subseteq DOMAIN on /\ on.answer = answer /\ seg' = {on}
      BY <2>1, <3>1, <3>2, <3>3
    <3> QED
      BY <2>2, <3>1, <3>4 DEF AnswerInv, Origin
  <2> QED
    BY <2>4, <2>5
<1> QED
  BY <1>1, <1>2, <1>3, <1>4, <1>5, <1>6, <1>7, <1>8, <1>9, <1>10, <1>11, <1>12, <1>13, <1>14, <1>15
  DEF Next

\* KeysAreFresh: fetch_aes128_key drops an entry once it has its lifetime
\* behind it, whatever the server did meanwhile and while the key was on its
\* way, and keeps the cache in bounds.
THEOREM KeysStayFresh == Spec => []KeysAreFresh
<1>1. KeyInv => KeysAreFresh
  BY DEF KeyInv, CacheInv, UsedInv, KeysAreFresh
<1> QED
  BY <1>1, KeyInvInit, KeyInvNext, PTL DEF Spec

-----------------------------------------------------------------------------
(* The simulated player                                                     *)

\* A segment of DASH has the duration of the MPD that its poll has read.
SummaryInv ==
  /\ phase \in {"manifest", "media"} => IsPoll(stream, poll)
  /\ phase = "fetch" /\ stream.proto = "dash" =>
       poll.summary # {} /\ \A a \in poll.summary : Known(a)

Clocks ==
  /\ stream \in Streams /\ now \in Nat
  /\ "clock" \in DOMAIN loop /\ loop.clock \in Nat /\ loop.clock <= now
  /\ {"secs", "at", "downloads", "used", "burst"} \subseteq DOMAIN ghost
  /\ ghost.at \in Nat /\ ghost.at <= now /\ ghost.downloads \in Nat
  /\ "secs" \in DOMAIN buf
  /\ buf.secs \in 0..BufferCap /\ ghost.secs \in 0..BufferCap

PlayerInv == Clocks /\ SummaryInv /\ BufferTracksThePlayer

LEMMA PlayerInvInit == Init => PlayerInv
<1> SUFFICES ASSUME Init PROVE PlayerInv
  OBVIOUS
<1>1. Clocks
  BY DEF Init, Clocks, FreshLoop, Observer, EmptyBuffer, BufferCap
<1>2. SummaryInv
  BY DEF Init, SummaryInv
<1>3. BufferTracksThePlayer
  BY DEF Init, BufferTracksThePlayer, LeftOf, FreshLoop, Observer, EmptyBuffer
<1> QED
  BY <1>1, <1>2, <1>3 DEF PlayerInv

LEMMA DrainLeaves ==
  ASSUME NEW b, "secs" \in DOMAIN b, b.secs \in 0..BufferCap, NEW since \in Nat, NEW at \in Nat,
         since <= at
  PROVE  /\ "secs" \in DOMAIN Drain(b, at - since)
         /\ Drain(b, at - since).secs \in 0..BufferCap
         /\ Drain(b, at - since).secs = LeftOf(b.secs, since, at)
<1>1. CASE at - since <= 0
  BY <1>1 DEF Drain, LeftOf
<1>2. CASE ~(at - since <= 0)
  <2>1. Drain(b, at - since) = [b EXCEPT !.secs = Clamped(@ - (at - since)),
                                         !.stall = Deficit(Clamped(b.secs - (at - since)))]
    BY <1>2 DEF Drain
  <2>2. Clamped(b.secs - (at - since)) = LeftOf(b.secs, since, at)
    BY <1>2 DEF Clamped, AtMost, LeftOf, BufferCap
  <2>3. LeftOf(b.secs, since, at) \in 0..BufferCap
    BY <1>2 DEF LeftOf, BufferCap
  <2> QED
    BY <2>1, <2>2, <2>3
<1> QED
  BY <1>1, <1>2

\* Time that passes is lost to both players alike.
LEMMA TimeIsLost ==
  ASSUME NEW c \in 0..BufferCap, NEW p \in 0..BufferCap, NEW d \in Nat, NEW s1 \in Nat, NEW s2 \in Nat,
         NEW at \in Nat, NEW later \in Nat, s1 <= at, s2 <= at, at <= later,
         LeftOf(c, s1, at) <= LeftOf(p, s2, at), LeftOf(p, s2, at) - LeftOf(c, s1, at) <= d
  PROVE  /\ LeftOf(c, s1, later) <= LeftOf(p, s2, later)
         /\ LeftOf(p, s2, later) - LeftOf(c, s1, later) <= d
  BY DEF LeftOf, BufferCap

\* A segment is credited to both, its download is taken off the one.
LEMMA SegmentIsCredited ==
  ASSUME NEW c \in 0..BufferCap, NEW p \in 0..BufferCap, NEW d \in Nat, NEW s \in Nat,
         NEW lasts \in Nat, c <= p, p - c <= d
  PROVE  /\ Clamped(c - s + lasts) \in 0..BufferCap /\ AtMost(p + lasts, BufferCap) \in 0..BufferCap
         /\ Clamped(c - s + lasts) <= AtMost(p + lasts, BufferCap)
         /\ AtMost(p + lasts, BufferCap) - Clamped(c - s + lasts) <= d + s
  BY DEF Clamped, AtMost, BufferCap

LEMMA DurationIsKnown ==
  ASSUME PlayerInv, phase = "fetch", NEW s \in stream.segs
  PROVE  DurationOf(s) \in Nat
<1>1. stream \in Streams
  BY DEF PlayerInv, Clocks
<1>2. CASE stream.proto = "dash"
  <2>1. (CHOOSE a \in poll.summary : TRUE).hint \in Nat
    BY <1>2 DEF PlayerInv, SummaryInv, Known
  <2> QED
    BY <1>2, <2>1 DEF DurationOf, AtMost
<1>3. CASE stream.proto # "dash"
  BY <1>1, <1>3, StreamsAssumption DEF DurationOf
<1> QED
  BY <1>2, <1>3

\* Neither of the players moves.
LEMMA PlayerStands ==
  ASSUME Clocks, BufferTracksThePlayer, UNCHANGED <<stream, now, buf>>,
         "clock" \in DOMAIN loop', loop'.clock = loop.clock,
         {"secs", "at", "downloads", "used", "burst"} \subseteq DOMAIN ghost',
         UNCHANGED <<ghost.secs, ghost.at, ghost.downloads>>
  PROVE  Clocks' /\ BufferTracksThePlayer'
  BY DEF Clocks, BufferTracksThePlayer, LeftOf

\* Both players wait for a key.
LEMMA PlayerWaits ==
  ASSUME Clocks, BufferTracksThePlayer, UNCHANGED <<stream, loop, buf>>,
         \E w \in stream.keyWaits : now' = now + w,
         {"secs", "at", "downloads", "used", "burst"} \subseteq DOMAIN ghost',
         UNCHANGED <<ghost.secs, ghost.at, ghost.downloads>>
  PROVE  Clocks' /\ BufferTracksThePlayer'
<1>1. now' \in Nat /\ now <= now'
  BY StreamsAssumption, CacheAssumption DEF Clocks
<1>2. Clocks'
  BY <1>1 DEF Clocks
<1>3. PICK c, q, d, s1, s2, at, later :
        /\ c = buf.secs /\ q = ghost.secs /\ d = ghost.downloads /\ s1 = loop.clock
        /\ s2 = ghost.at /\ at = now /\ later = now'
  OBVIOUS
<1>4. /\ LeftOf(c, s1, later) <= LeftOf(q, s2, later)
      /\ LeftOf(q, s2, later) - LeftOf(c, s1, later) <= d
  BY <1>1, <1>3, TimeIsLost DEF Clocks, BufferTracksThePlayer
<1> QED
  BY <1>2, <1>3, <1>4 DEF BufferTracksThePlayer

LEMMA PlayerInvNext == PlayerInv /\ [Next]_vars => PlayerInv'
<1> SUFFICES ASSUME PlayerInv, [Next]_vars PROVE PlayerInv'
  OBVIOUS
<1>0. /\ Clocks /\ SummaryInv /\ BufferTracksThePlayer
      /\ "clock" \in DOMAIN loop
      /\ {"secs", "at", "downloads", "used", "burst"} \subseteq DOMAIN ghost
  BY DEF PlayerInv, Clocks
<1>1. CASE UNCHANGED vars
  BY <1>0, <1>1 DEF vars, PlayerInv, Clocks, SummaryInv, BufferTracksThePlayer
<1>2. CASE StartPoll
  <2>1. PICK w \in Nat, p \in stream.polls :
          LET left == Drain(buf, now + w - loop.clock)
          IN  /\ now' = now + w
              /\ loop' = [loop EXCEPT !.clock = now + w]
              /\ buf' = left
              /\ poll' = [p EXCEPT !.n = poll.n + 1, !.key = server.key]
    BY <1>0, <1>2, StreamsAssumption DEF StartPoll, Clocks
  <2>2. UNCHANGED <<stream, ghost>> /\ phase' = "manifest"
    BY <1>2 DEF StartPoll
  <2>3. /\ "secs" \in DOMAIN buf' /\ buf'.secs \in 0..BufferCap
        /\ buf'.secs = LeftOf(buf.secs, loop.clock, now')
        /\ "clock" \in DOMAIN loop' /\ loop'.clock = now' /\ now' \in Nat /\ now <= now'
    <3>1. PICK b, since, at : b = buf /\ since = loop.clock /\ at = now + w
      OBVIOUS
    <3>2. /\ "secs" \in DOMAIN b /\ b.secs \in 0..BufferCap /\ since \in Nat /\ at \in Nat
          /\ since <= at
      BY <1>0, <3>1 DEF Clocks
    <3>3. buf' = Drain(b, at - since)
      <4>1. buf' = Drain(buf, now + w - loop.clock)
        BY <2>1
      <4>2. at - since = now + w - loop.clock
        BY <1>0, <3>1 DEF Clocks
      <4> QED
        BY <3>1, <4>1, <4>2
    <3>4. "secs" \in DOMAIN buf' /\ buf'.secs \in 0..BufferCap /\ buf'.secs = LeftOf(b.secs, since, at)
      BY <3>2, <3>3, DrainLeaves
    <3> QED
      BY <1>0, <2>1, <3>1, <3>4 DEF Clocks
  <2>4. Clocks'
    BY <1>0, <2>2, <2>3 DEF Clocks
  <2>5. SummaryInv'
    <3>1. p \in stream.polls /\ stream \in Streams
      BY <1>0 DEF Clocks
    <3>2. IsPoll(stream, p) /\ poll' = [p EXCEPT !.n = poll.n + 1, !.key = server.key]
      BY <2>1, <3>1, StreamsAssumption
    <3>3. /\ DOMAIN poll' = DOMAIN p
          /\ \A x \in DOMAIN p : x \notin {"n", "key"} => poll'[x] = p[x]
      BY <3>2
    <3>4. IsPoll(stream, poll')
      BY <3>2, <3>3 DEF IsPoll
    <3> QED
      BY <2>2, <3>4 DEF SummaryInv
  <2>6. BufferTracksThePlayer'
    <3>1. PICK c, q, d, s1, s2, at, later :
            /\ c = buf.secs /\ q = ghost.secs /\ d = ghost.downloads /\ s1 = loop.clock
            /\ s2 = ghost.at /\ at = now /\ later = now'
      OBVIOUS
    <3>2. /\ LeftOf(c, s1, later) <= LeftOf(q, s2, later)
          /\ LeftOf(q, s2, later) - LeftOf(c, s1, later) <= d
      BY <1>0, <2>3, <3>1, TimeIsLost DEF Clocks, BufferTracksThePlayer
    <3>3. LeftOf(buf'.secs, loop'.clock, now') = LeftOf(c, s1, later)
      BY <2>3, <3>1 DEF LeftOf, BufferCap
    <3> QED
      BY <2>2, <3>1, <3>2, <3>3 DEF BufferTracksThePlayer
  <2> QED
    BY <2>4, <2>5, <2>6 DEF PlayerInv
<1>3. CASE PollFails
  <2>1. loop' = [loop EXCEPT !.errors = @ + 1] /\ phase' = "end" /\ UNCHANGED <<stream, now, poll, buf, ghost>>
    BY <1>3 DEF PollFails
  <2> QED
    BY <1>0, <2>1, PlayerStands DEF PlayerInv, SummaryInv
<1>4. CASE EndCycle
  <2>1. phase' = "sleep" /\ UNCHANGED <<stream, now, poll, loop, buf, ghost>>
    BY <1>4 DEF EndCycle
  <2> QED
    BY <1>0, <2>1, PlayerStands DEF PlayerInv, SummaryInv
<1>5. CASE ReadMaster
  <2>1. /\ phase = "manifest" /\ stream.proto = "hls" /\ phase' \in {"end", "media"}
        /\ UNCHANGED <<stream, now, poll, buf, ghost>>
    BY <1>5 DEF ReadMaster
  <2>2. "clock" \in DOMAIN loop' /\ loop'.clock = loop.clock
    BY <1>0, <1>5 DEF ReadMaster
  <2>3. SummaryInv'
    BY <1>0, <2>1 DEF SummaryInv
  <2> QED
    BY <1>0, <2>1, <2>2, <2>3, PlayerStands DEF PlayerInv
<1>6. CASE ReadMedia
  <2>1. /\ stream.proto = "hls" /\ phase' \in {"end", "fetch"}
        /\ UNCHANGED <<stream, now, poll, buf, ghost>>
    BY <1>6 DEF ReadMedia
  <2>2. "clock" \in DOMAIN loop' /\ loop'.clock = loop.clock
    BY <1>0, <1>6 DEF ReadMedia
  <2>3. SummaryInv'
    BY <1>0, <2>1 DEF SummaryInv
  <2> QED
    BY <1>0, <2>1, <2>2, <2>3, PlayerStands DEF PlayerInv
<1>7. CASE ReadMpd
  <2>1. /\ stream.proto = "dash" /\ phase = "manifest" /\ UNCHANGED <<stream, now, buf, ghost>>
    BY <1>7 DEF ReadMpd
  <2>2. "clock" \in DOMAIN loop' /\ loop'.clock = loop.clock
    BY <1>0, <1>7 DEF ReadMpd
  <2>3. \/ phase' = "end"
        \/ /\ phase' \in {"fetch", "meta"}
           /\ poll' = [poll EXCEPT !.summary = Mpd!ParseMpd(poll.mpd, now)]
           /\ Mpd!ParseMpd(poll.mpd, now) # {}
    <3>1. PICK summary \in {Mpd!ParseMpd(poll.mpd, now)} :
            \/ phase' = "end"
            \/ \E all \in summary, fresh \in BOOLEAN :
                 /\ phase' = IF fresh THEN "fetch" ELSE "meta"
                 /\ poll' = [poll EXCEPT !.summary = summary]
      <4>1. \A edge, key : (edge # {key}) \in BOOLEAN
        OBVIOUS
      <4> QED
        BY <1>7, <4>1 DEF ReadMpd
    <3> QED
      BY <3>1
  <2>4. SummaryInv'
    <3>1. "summary" \in DOMAIN poll /\ IsMpd(poll.mpd)
      BY <1>0, <2>1 DEF SummaryInv, IsPoll
    <3>2. PICK mpd, t : mpd = poll.mpd /\ t = now
      OBVIOUS
    <3>3. \A a \in Mpd!ParseMpd(poll.mpd, now) : Known(a)
      BY <3>1, <3>2, KnownMpd
    <3> QED
      BY <2>3, <3>1, <3>3 DEF SummaryInv
  <2> QED
    BY <1>0, <2>1, <2>2, <2>4, PlayerStands DEF PlayerInv
<1>8. CASE EndMpd
  <2>1. /\ phase' = "end" /\ UNCHANGED <<stream, now, poll, buf, ghost>>
        /\ loop' = [loop EXCEPT !.variants = Lad!SelectBest(@), !.errors = 0]
    BY <1>8 DEF EndMpd
  <2> QED
    BY <1>0, <2>1, PlayerStands DEF PlayerInv, SummaryInv
<1>9. CASE FetchFails
  <2>1. /\ phase' = "end" /\ UNCHANGED <<stream, now, poll, buf, ghost>>
        /\ "clock" \in DOMAIN loop' /\ loop'.clock = loop.clock
    BY <1>0, <1>9 DEF FetchFails
  <2> QED
    BY <1>0, <2>1, PlayerStands DEF PlayerInv, SummaryInv
<1>10. CASE FetchSegment
  <2>1. PICK s \in stream.segs :
          /\ now' = now + s.secs
          /\ loop' = [loop EXCEPT !.clock = now + s.secs, !.cdn = CdnRecord(@, s),
                                  !.variants = Lad!ApplyWire(@, s.wire)]
          /\ buf' = SimulateFetch(buf,
               Observe(ladder, RateOf(Attempt(s.way, s.second, stream.probe), s), Declared),
               DurationOf(s), s.secs, (now + s.secs) - loop.clock)
          /\ ghost' = [ghost EXCEPT
               !.secs = AtMost(LeftOf(@, ghost.at, now + s.secs) + DurationOf(s), BufferCap),
               !.at = now + s.secs, !.downloads = @ + s.secs, !.used = {}]
    BY <1>10, Zenon DEF FetchSegment
  <2>2. phase = "fetch" /\ phase' \in {"key", "finish"} /\ UNCHANGED <<stream, poll>>
    BY <1>10 DEF FetchSegment
  <2>3. PICK b, since, at, lasts, download, q, then, d :
          /\ b = buf /\ since = loop.clock /\ at = now + s.secs /\ lasts = DurationOf(s)
          /\ download = s.secs /\ q = ghost.secs /\ then = ghost.at /\ d = ghost.downloads
    OBVIOUS
  <2>4. /\ lasts \in Nat /\ download \in Nat /\ at \in Nat /\ since \in Nat /\ since <= now /\ now <= at
        /\ "secs" \in DOMAIN b /\ b.secs \in 0..BufferCap /\ now \in Nat
        /\ q \in 0..BufferCap /\ then \in Nat /\ then <= now /\ d \in Nat
    <3>1. s \in stream.segs /\ stream \in Streams
      BY <1>0 DEF Clocks
    <3>2. s.secs \in Nat
      BY <3>1, StreamsAssumption
    <3>3. lasts \in Nat
      BY <2>2, <2>3, DurationIsKnown
    <3> QED
      BY <1>0, <2>3, <3>2, <3>3 DEF Clocks
  <2>5. since <= at /\ then <= at
    BY <2>4
  <2>6. /\ Drain(b, at - since).secs \in 0..BufferCap
        /\ Drain(b, at - since).secs = LeftOf(b.secs, since, at)
    BY <2>4, <2>5, DrainLeaves
  <2> DEFINE code == LeftOf(b.secs, since, at)
             player == LeftOf(q, then, at)
  <2>7. code <= player /\ player - code <= d
    <3>1. /\ LeftOf(b.secs, since, now) <= LeftOf(q, then, now)
          /\ LeftOf(q, then, now) - LeftOf(b.secs, since, now) <= d
      BY <1>0, <2>3 DEF BufferTracksThePlayer
    <3>2. PICK moment : moment = now
      OBVIOUS
    <3> QED
      BY <2>4, <3>1, <3>2, TimeIsLost
  <2>8. code \in 0..BufferCap /\ player \in 0..BufferCap
    <3>1. code \in 0..BufferCap
      BY <2>6
    <3>2. player \in 0..BufferCap
      BY <2>4, <2>5 DEF LeftOf, BufferCap
    <3> QED
      BY <3>1, <3>2
  <2>9. /\ "secs" \in DOMAIN buf' /\ buf'.secs = Clamped(code - download + lasts)
    <3>1. PICK held : buf' = SimulateFetch(buf, held, DurationOf(s), s.secs, (now + s.secs) - loop.clock)
      BY <2>1, Zenon
    <3>2. (now + s.secs) - loop.clock = at - since
      BY <2>3
    <3>3. buf' = SimulateFetch(b, held, lasts, download, at - since)
      BY <2>3, <3>1, <3>2
    <3>4. "secs" \in DOMAIN buf' /\ buf'.secs = Clamped(Drain(b, at - since).secs - download + lasts)
      BY <3>3 DEF SimulateFetch
    <3> QED
      BY <2>6, <3>4
  <2>10. /\ {"secs", "at", "downloads", "used", "burst"} \subseteq DOMAIN ghost'
         /\ ghost'.secs = AtMost(player + lasts, BufferCap) /\ ghost'.at = at
         /\ ghost'.downloads = d + download
    BY <1>0, <2>1, <2>3
  <2>11. "clock" \in DOMAIN loop' /\ loop'.clock = at /\ now' = at
    BY <1>0, <2>1, <2>3
  <2> HIDE DEF code, player
  <2>12. /\ buf'.secs \in 0..BufferCap /\ ghost'.secs \in 0..BufferCap
         /\ buf'.secs <= ghost'.secs /\ ghost'.secs - buf'.secs <= ghost'.downloads
    <3>1. /\ Clamped(code - download + lasts) \in 0..BufferCap
          /\ AtMost(player + lasts, BufferCap) \in 0..BufferCap
          /\ Clamped(code - download + lasts) <= AtMost(player + lasts, BufferCap)
          /\ AtMost(player + lasts, BufferCap) - Clamped(code - download + lasts) <= d + download
      BY <2>4, <2>7, <2>8, SegmentIsCredited
    <3> QED
      BY <2>9, <2>10, <3>1
  <2>13. Clocks'
    BY <1>0, <2>2, <2>4, <2>9, <2>10, <2>11, <2>12 DEF Clocks
  <2>14. BufferTracksThePlayer'
    BY <2>4, <2>10, <2>11, <2>12 DEF BufferTracksThePlayer, LeftOf, BufferCap
  <2> QED
    BY <2>2, <2>13, <2>14 DEF PlayerInv, SummaryInv
<1>11. CASE KeyHeld
  <2>1. /\ phase' = "finish" /\ UNCHANGED <<stream, now, poll, loop, buf>>
        /\ ghost' = [ghost EXCEPT !.used = Lookup(Prune(cache, now, KeyTtl), KeyUri)]
    BY <1>11 DEF KeyHeld
  <2> QED
    BY <1>0, <2>1, PlayerStands DEF PlayerInv, SummaryInv
<1>12. CASE KeyFetched
  <2>1. /\ phase' = "finish" /\ UNCHANGED <<stream, poll, loop, buf>>
        /\ \E key : ghost' = [ghost EXCEPT !.used = key]
        /\ \E w \in stream.keyWaits : now' = now + w
    BY <1>12 DEF KeyFetched
  <2> QED
    BY <1>0, <2>1, PlayerWaits DEF PlayerInv, SummaryInv
<1>15. CASE KeyAnswered
  <2>1. /\ phase' = "body" /\ UNCHANGED <<stream, poll, loop, buf, ghost>>
        /\ \E w \in stream.keyWaits : now' = now + w
    BY <1>15 DEF KeyAnswered
  <2> QED
    BY <1>0, <2>1, PlayerWaits DEF PlayerInv, SummaryInv
<1>13. CASE Rotate
  BY <1>0, <1>13, PlayerStands DEF Rotate, PlayerInv, SummaryInv
<1>14. CASE Finish
  <2>1. phase' \in {"meta", "end"} /\ UNCHANGED <<stream, now, poll, loop, buf>>
    BY <1>14 DEF Finish
  <2>2. UNCHANGED ghost \/ \E x : ghost' = [ghost EXCEPT !.burst = x]
    BY <1>14 DEF Finish
  <2> QED
    BY <1>0, <2>1, <2>2, PlayerStands DEF PlayerInv, SummaryInv
<1> QED
  BY <1>1, <1>2, <1>3, <1>4, <1>5, <1>6, <1>7, <1>8, <1>9, <1>10, <1>11, <1>12, <1>13, <1>14, <1>15
  DEF Next

\* BufferTracksThePlayer: drain_elapsed and simulate_segment_fetch never credit
\* more than a player has, and take off too much by the downloads at most.
THEOREM BufferIsTracked == Spec => []BufferTracksThePlayer
<1>1. PlayerInv => BufferTracksThePlayer
  BY DEF PlayerInv
<1> QED
  BY <1>1, PlayerInvInit, PlayerInvNext, PTL DEF Spec

-----------------------------------------------------------------------------
(* The alarms of the TR 101 290 engine                                      *)

Reasons == {"P1_SYNC", "P1_PAT", "P1_PMT", "P1_CC", "P2_TEI", "P2_PCR_GAP", "P2_PCR_JITTER"}
Codes   == Reasons \cup {"P1_PID", "P2_PTS_DISC"}

Reasoned(s) == {i \in 1..Len(s) : Tr!HasReason(s[i])}

Shape(eng) ==
  /\ {"win", "pmtPids", "referenced", "orphans", "seen", "fresh", "report"} \subseteq DOMAIN eng
  /\ {"p1", "p2", "cc", "sync", "ptsDisc", "unref", "gap", "patTimeout", "pmtTimeout", "checks"}
       \subseteq DOMAIN eng.report

\* c alarms with a reason were told before the ones in the list; with those and
\* with the alarms that have no reason they make up the totals, while the list
\* has room.
Tally(eng, c) ==
  LET r == eng.report
      silent == r.unref + r.ptsDisc
      told   == c + Cardinality(Reasoned(eng.fresh))
  IN  /\ eng.fresh \in Seq(Codes) /\ Len(eng.fresh) <= Tr!MaxViolations
      /\ r.p1 \in Nat /\ r.p2 \in Nat /\ r.unref \in Nat /\ r.ptsDisc \in Nat
      /\ told + silent <= r.p1 + r.p2
      /\ Len(eng.fresh) < Tr!MaxViolations => told + silent = r.p1 + r.p2

\* Every orphan was reported, and none twice.
Orphans(eng, o) ==
  /\ IsFiniteSet(eng.seen) /\ IsFiniteSet(o)
  /\ eng.orphans = o /\ eng.report.unref = Cardinality(o)

Sound(eng, c, o) == Shape(eng) /\ Tally(eng, c) /\ Orphans(eng, o)

LEMMA SameCard == \A S : Tr!Cardinality(S) = Cardinality(S)
  BY DEF Tr!Cardinality, Cardinality

LEMMA CodesApart ==
  ASSUME NEW code \in Codes
  PROVE  Tr!HasReason(code) <=> code \in Reasons
  BY DEF Codes, Reasons, Tr!HasReason

\* One of the priorities counts.
LEMMA OnePriority ==
  ASSUME NEW code, NEW n \in Nat
  PROVE  (IF Tr!Priority(code) = 1 THEN n ELSE 0) + (IF Tr!Priority(code) = 2 THEN n ELSE 0) = n
  BY DEF Tr!Priority

LEMMA ReasonedFinite ==
  ASSUME NEW s \in Seq(Codes)
  PROVE  IsFiniteSet(Reasoned(s)) /\ Cardinality(Reasoned(s)) \in Nat
<1>1. Len(s) \in Nat
  OBVIOUS
<1>2. IsFiniteSet(1..Len(s))
  BY <1>1, FS_Interval
<1>3. Reasoned(s) \subseteq 1..Len(s)
  BY DEF Reasoned
<1> QED
  BY <1>2, <1>3, FS_Subset, FS_CardinalityType

\* The list of unsent alarms takes what it has room for.
LEMMA TakesWhatFits ==
  ASSUME NEW s \in Seq(Codes), Len(s) <= Tr!MaxViolations, NEW code \in Codes, NEW n \in Nat
  PROVE  LET t == Tr!First(s \o [i \in 1..n |-> code])
             before == Cardinality(Reasoned(s))
             after  == Cardinality(Reasoned(t))
             told   == IF Tr!HasReason(code) THEN n ELSE 0
         IN  /\ t \in Seq(Codes) /\ Len(t) <= Tr!MaxViolations
             /\ after <= before + told
             /\ Len(t) < Tr!MaxViolations =>
                  Len(s) < Tr!MaxViolations /\ after = before + told
<1> DEFINE codes == [i \in 1..n |-> code]
           u == s \o codes
           t == Tr!First(u)
           m == Len(s)
           new == IF Tr!HasReason(code) THEN (m + 1)..Len(t) ELSE {}
<1> HIDE DEF codes
<1>0. Tr!MaxViolations = 32
  BY DEF Tr!MaxViolations
<1>1. codes \in Seq(Codes) /\ Len(codes) = n
  BY DEF codes
<1>2. /\ u \in Seq(Codes) /\ Len(u) = m + n /\ m \in Nat
      /\ \A i \in 1..(m + n) : u[i] = IF i <= m THEN s[i] ELSE code
  <2> HIDE DEF codes
  <2>1. u \in Seq(Codes) /\ Len(u) = m + n /\ m \in Nat
    BY <1>1
  <2>2. \A i \in 1..(m + n) : u[i] = IF i <= m THEN s[i] ELSE codes[i - m]
    BY <1>1
  <2>3. \A i \in 1..(m + n) : i > m => codes[i - m] = code
    BY <2>1 DEF codes
  <2> QED
    BY <2>1, <2>2, <2>3
<1> HIDE DEF u
<1>3. /\ t \in Seq(Codes) /\ Len(t) <= Tr!MaxViolations /\ Len(t) <= m + n /\ m <= Len(t)
      /\ Len(t) < Tr!MaxViolations => Len(t) = m + n
      /\ \A i \in 1..Len(t) : t[i] = IF i <= m THEN s[i] ELSE code
  <2> DEFINE q == IF Len(u) < Tr!MaxViolations THEN Len(u) ELSE Tr!MaxViolations
  <2>1. t = SubSeq(u, 1, q)
    BY DEF Tr!First
  <2>2. q \in Nat /\ q <= m + n /\ m <= q /\ q <= 32 /\ (q < 32 => q = m + n)
    BY <1>0, <1>2
  <2> HIDE DEF t, q
  <2>3. \A i \in 1..q : i \in 1..(m + n) /\ u[i] \in Codes /\ (1 + i) - 1 = i
    BY <1>2, <2>2
  <2>4. /\ t \in Seq(Codes)
        /\ Len(t) = IF 1 <= q THEN (q - 1) + 1 ELSE 0
        /\ \A i \in 1..((q - 1) + 1) : t[i] = u[(1 + i) - 1]
    BY <2>1, <2>2, <2>3, SubSeqProperties
  <2>5. Len(t) = q /\ \A i \in 1..q : t[i] = u[i]
    BY <2>2, <2>3, <2>4
  <2> QED
    BY <1>0, <1>2, <2>2, <2>3, <2>4, <2>5
<1> HIDE DEF t
<1>4. Reasoned(t) = Reasoned(s) \cup new /\ Reasoned(s) \cap new = {}
  <2>1. \A i \in 1..Len(t) : i \in 1..m \/ i \in (m + 1)..Len(t)
    BY <1>2, <1>3
  <2>2. \A i \in 1..m : i \in 1..Len(t) /\ t[i] = s[i]
    BY <1>2, <1>3
  <2>3. \A i \in (m + 1)..Len(t) : i \in 1..Len(t) /\ t[i] = code /\ i \notin 1..m
    BY <1>2, <1>3
  <2> QED
    BY <2>1, <2>2, <2>3 DEF Reasoned
<1>5. /\ IsFiniteSet(new)
      /\ Cardinality(new) = IF Tr!HasReason(code) THEN Len(t) - m ELSE 0
  <2>1. Len(t) \in Nat
    BY <1>3
  <2>2. IsFiniteSet((m + 1)..Len(t)) /\ Cardinality((m + 1)..Len(t)) =
          IF m + 1 > Len(t) THEN 0 ELSE (Len(t) - (m + 1)) + 1
    <3>1. m + 1 \in Int /\ Len(t) \in Int
      BY <1>2, <2>1
    <3>2. IsFiniteSet((m + 1)..Len(t)) /\ Cardinality((m + 1)..Len(t)) =
            IF m + 1 > Len(t) THEN 0 ELSE Len(t) - (m + 1) + 1
      BY <3>1, FS_Interval, Zenon
    <3> QED
      BY <3>1, <3>2
  <2>3. Cardinality((m + 1)..Len(t)) = Len(t) - m
    BY <1>2, <1>3, <2>1, <2>2
  <2> QED
    BY <2>2, <2>3, FS_EmptySet
<1>6. Cardinality(Reasoned(t)) = Cardinality(Reasoned(s)) + Cardinality(new)
  <2>1. IsFiniteSet(Reasoned(s)) /\ Cardinality(Reasoned(s)) \in Nat
    BY ReasonedFinite
  <2> HIDE DEF new
  <2>2. Cardinality(Reasoned(s) \cup new) =
          Cardinality(Reasoned(s)) + Cardinality(new) - Cardinality(Reasoned(s) \cap new)
    BY <1>5, <2>1, FS_Union
  <2>3. Cardinality({}) = 0
    BY FS_EmptySet
  <2>4. Cardinality(new) \in Nat
    BY <1>5, FS_CardinalityType
  <2>5. /\ Cardinality(Reasoned(s) \cap new) = 0
        /\ Cardinality(Reasoned(t)) = Cardinality(Reasoned(s) \cup new)
    BY <1>4, <2>3, Zenon
  <2> QED
    BY <2>1, <2>2, <2>4, <2>5
<1>7. Cardinality(Reasoned(s)) \in Nat
  BY ReasonedFinite
<1>8. t = Tr!First(s \o [i \in 1..n |-> code])
  BY DEF t, u, codes
<1> HIDE DEF new
<1>9. /\ Cardinality(Reasoned(t)) <= Cardinality(Reasoned(s)) + (IF Tr!HasReason(code) THEN n ELSE 0)
      /\ Len(t) < Tr!MaxViolations =>
           /\ Len(s) < Tr!MaxViolations
           /\ Cardinality(Reasoned(t)) = Cardinality(Reasoned(s)) + (IF Tr!HasReason(code) THEN n ELSE 0)
  <2>1. Len(t) \in Nat
    BY <1>3
  <2>2. CASE Tr!HasReason(code)
    BY <1>0, <1>2, <1>3, <1>5, <1>6, <1>7, <2>1, <2>2
  <2>3. CASE ~Tr!HasReason(code)
    BY <1>0, <1>2, <1>3, <1>5, <1>6, <1>7, <2>1, <2>3
  <2> QED
    BY <2>2, <2>3
<1> QED
  BY <1>3, <1>8, <1>9

\* push_check: what it does to the record.
LEMMA RaisedRecord ==
  ASSUME NEW eng, Shape(eng), NEW code, NEW n \in Nat, NEW e, e = Tr!RaiseTimes(eng, code, n)
  PROVE  /\ Shape(e)
         /\ e.fresh = Tr!First(eng.fresh \o [i \in 1..n |-> code])
         /\ e.report.p1 = eng.report.p1 + (IF Tr!Priority(code) = 1 THEN n ELSE 0)
         /\ e.report.p2 = eng.report.p2 + (IF Tr!Priority(code) = 2 THEN n ELSE 0)
         /\ e.report.unref = eng.report.unref /\ e.report.ptsDisc = eng.report.ptsDisc
         /\ e.orphans = eng.orphans /\ e.seen = eng.seen
         /\ e.pmtPids = eng.pmtPids /\ e.referenced = eng.referenced
<1>1. PICK codes, newest, a, b :
        /\ codes = [i \in 1..n |-> code]
        /\ newest = Tr!Newest(eng.report.checks \o codes)
        /\ a = IF Tr!Priority(code) = 1 THEN n ELSE 0
        /\ b = IF Tr!Priority(code) = 2 THEN n ELSE 0
  OBVIOUS
<1>2. PICK first : first = Tr!First(eng.fresh \o codes)
  OBVIOUS
<1> DEFINE f == [eng EXCEPT !.fresh = first, !.report.checks = newest,
                            !.report.p1 = @ + a, !.report.p2 = @ + b]
<1>3. e = f
  BY <1>1, <1>2 DEF Tr!RaiseTimes
<1>4. /\ Shape(f) /\ f.fresh = first
      /\ f.report.p1 = eng.report.p1 + a /\ f.report.p2 = eng.report.p2 + b
      /\ f.report.unref = eng.report.unref /\ f.report.ptsDisc = eng.report.ptsDisc
      /\ f.orphans = eng.orphans /\ f.seen = eng.seen
      /\ f.pmtPids = eng.pmtPids /\ f.referenced = eng.referenced
  BY DEF Shape
<1> HIDE DEF f
<1> QED
  BY <1>1, <1>2, <1>3, <1>4

LEMMA RaisedKeeps ==
  ASSUME NEW eng, Shape(eng), NEW code, NEW n \in Nat, NEW e, e = Tr!RaiseTimes(eng, code, n)
  PROVE  /\ Shape(e) /\ e.orphans = eng.orphans /\ e.seen = eng.seen
         /\ e.pmtPids = eng.pmtPids /\ e.referenced = eng.referenced
         /\ e.report.unref = eng.report.unref
<1>1. PICK codes, newest, a, b :
        /\ codes = [i \in 1..n |-> code]
        /\ newest = Tr!Newest(eng.report.checks \o codes)
        /\ a = IF Tr!Priority(code) = 1 THEN n ELSE 0
        /\ b = IF Tr!Priority(code) = 2 THEN n ELSE 0
  OBVIOUS
<1>2. PICK first : first = Tr!First(eng.fresh \o codes)
  OBVIOUS
<1> DEFINE f == [eng EXCEPT !.fresh = first, !.report.checks = newest,
                            !.report.p1 = @ + a, !.report.p2 = @ + b]
<1>3. e = f
  BY <1>1, <1>2 DEF Tr!RaiseTimes
<1>4. /\ Shape(f) /\ f.fresh = first
      /\ f.report.p1 = eng.report.p1 + a /\ f.report.p2 = eng.report.p2 + b
      /\ f.report.unref = eng.report.unref /\ f.report.ptsDisc = eng.report.ptsDisc
      /\ f.orphans = eng.orphans /\ f.seen = eng.seen
      /\ f.pmtPids = eng.pmtPids /\ f.referenced = eng.referenced
  BY DEF Shape
<1> HIDE DEF f
<1> QED
  BY <1>1, <1>2, <1>3, <1>4

\* An alarm with a reason.
LEMMA SoundRaise ==
  ASSUME NEW eng, NEW c \in Nat, NEW o, Sound(eng, c, o), NEW code \in Reasons
  PROVE  Sound(Tr!Raise(eng, code), c, o)
<1>0. PICK n \in Nat : n = 1
  OBVIOUS
<1>8. PICK e : e = Tr!RaiseTimes(eng, code, n)
  OBVIOUS
<1> DEFINE s == eng.fresh
           k == IF Tr!Priority(code) = 1 THEN n ELSE 0
           l == IF Tr!Priority(code) = 2 THEN n ELSE 0
<1>1. code \in Codes /\ Tr!HasReason(code)
  BY CodesApart DEF Codes
<1>2. /\ Shape(e) /\ e.fresh = Tr!First(s \o [i \in 1..n |-> code])
      /\ e.report.p1 = eng.report.p1 + k /\ e.report.p2 = eng.report.p2 + l
      /\ e.report.unref = eng.report.unref /\ e.report.ptsDisc = eng.report.ptsDisc
      /\ e.orphans = eng.orphans /\ e.seen = eng.seen
  BY <1>8, RaisedRecord DEF Sound
<1>3. k + l = n /\ k \in Nat /\ l \in Nat
  BY OnePriority
<1>9. s \in Seq(Codes) /\ Len(s) <= Tr!MaxViolations
  BY DEF Sound, Tally
<1>4. /\ e.fresh \in Seq(Codes) /\ Len(e.fresh) <= Tr!MaxViolations
      /\ Cardinality(Reasoned(e.fresh)) <= Cardinality(Reasoned(s)) + n
      /\ Len(e.fresh) < Tr!MaxViolations =>
           Len(s) < Tr!MaxViolations /\ Cardinality(Reasoned(e.fresh)) = Cardinality(Reasoned(s)) + n
  BY <1>1, <1>2, <1>9, TakesWhatFits
<1>5. Cardinality(Reasoned(s)) \in Nat /\ Cardinality(Reasoned(e.fresh)) \in Nat
  BY <1>4, ReasonedFinite DEF Sound, Tally
<1> HIDE DEF k, l
<1>6. Tally(e, c)
  <2>1. PICK a, b : a = Cardinality(Reasoned(s)) /\ b = Cardinality(Reasoned(e.fresh))
    OBVIOUS
  <2>2. a \in Nat /\ b \in Nat
    BY <1>5, <2>1
  <2>3. Tally(eng, c) /\ eng.fresh = s
    BY DEF Sound
  <2>4. PICK r, t : r = eng.report /\ t = e.report
    OBVIOUS
  <2>5. r.p1 \in Nat /\ r.p2 \in Nat /\ r.unref \in Nat /\ r.ptsDisc \in Nat
    BY <2>3, <2>4 DEF Tally
  <2>6. /\ (c + a) + (r.unref + r.ptsDisc) <= r.p1 + r.p2
        /\ Len(s) < Tr!MaxViolations => (c + a) + (r.unref + r.ptsDisc) = r.p1 + r.p2
    BY <2>1, <2>3, <2>4 DEF Tally
  <2> HIDE DEF s
  <2>7. t.p1 = r.p1 + k /\ t.p2 = r.p2 + l
    BY <1>2, <2>4, <2>5
  <2>8. t.unref \in Nat /\ t.ptsDisc \in Nat /\ t.unref + t.ptsDisc = (r.unref + r.ptsDisc) + 0
    BY <1>2, <2>4, <2>5
  <2>9. t.p1 \in Nat /\ t.p2 \in Nat /\ t.p1 + t.p2 = (r.p1 + r.p2) + n
    <3>1. PICK x, y : x = k /\ y = l
      OBVIOUS
    <3>2. x \in Nat /\ y \in Nat /\ x + y = n /\ t.p1 = r.p1 + x /\ t.p2 = r.p2 + y
      BY <1>3, <2>7, <3>1
    <3>3. r.p1 \in Nat /\ r.p2 \in Nat
      BY <2>5
    <3>4. PICK p, q : p = r.p1 /\ q = r.p2
      OBVIOUS
    <3>5. PICK u, v : u = t.p1 /\ v = t.p2
      OBVIOUS
    <3>6. p \in Nat /\ q \in Nat /\ u = p + x /\ v = q + y
      BY <3>2, <3>3, <3>4, <3>5
    <3>7. u \in Nat /\ v \in Nat /\ u + v = (p + q) + n
      BY <3>2, <3>6
    <3> QED
      BY <3>4, <3>5, <3>7
  <2>10. PICK big \in Nat, silent \in Nat : big = r.p1 + r.p2 /\ silent = r.unref + r.ptsDisc
    BY <2>5
  <2>11. b <= a + n /\ (Len(e.fresh) < Tr!MaxViolations => Len(s) < Tr!MaxViolations /\ b = a + n)
    BY <1>4, <2>1
  <2>12. /\ (c + a) + silent <= big
         /\ Len(s) < Tr!MaxViolations => (c + a) + silent = big
    BY <2>6, <2>10
  <2>13. /\ (c + b) + (silent + 0) <= big + n
         /\ Len(e.fresh) < Tr!MaxViolations => (c + b) + (silent + 0) = big + n
    BY <2>2, <2>11, <2>12
  <2> QED
    BY <1>4, <2>1, <2>4, <2>8, <2>9, <2>10, <2>13 DEF Tally
<1>7. Orphans(e, o)
  BY <1>2 DEF Sound, Orphans
<1> QED
  BY <1>0, <1>2, <1>6, <1>7, <1>8 DEF Sound, Tr!Raise

LEMMA SoundRaiseIf ==
  ASSUME NEW eng, NEW c \in Nat, NEW o, Sound(eng, c, o), NEW code \in Reasons, NEW cond
  PROVE  Sound(Tr!RaiseIf(cond, eng, code), c, o)
  BY SoundRaise DEF Tr!RaiseIf

\* Alarms without a reason, n of them, are silent in the report.
LEMMA SilentRaise ==
  ASSUME NEW eng, NEW c \in Nat, NEW n \in Nat, Shape(eng), NEW code \in Codes \ Reasons,
         NEW old, Tally(old, c), old.fresh = eng.fresh,
         old.report.p1 = eng.report.p1, old.report.p2 = eng.report.p2,
         eng.report.unref \in Nat, eng.report.ptsDisc \in Nat,
         eng.report.unref + eng.report.ptsDisc = (old.report.unref + old.report.ptsDisc) + n
  PROVE  Tally(Tr!RaiseTimes(eng, code, n), c)
<1>8. PICK e : e = Tr!RaiseTimes(eng, code, n)
  OBVIOUS
<1> DEFINE s == eng.fresh
           k == IF Tr!Priority(code) = 1 THEN n ELSE 0
           l == IF Tr!Priority(code) = 2 THEN n ELSE 0
<1>1. code \in Codes /\ ~Tr!HasReason(code)
  BY CodesApart
<1>2. /\ e.fresh = Tr!First(s \o [i \in 1..n |-> code])
      /\ e.report.p1 = eng.report.p1 + k /\ e.report.p2 = eng.report.p2 + l
      /\ e.report.unref = eng.report.unref /\ e.report.ptsDisc = eng.report.ptsDisc
  BY <1>8, RaisedRecord
<1>3. k + l = n /\ k \in Nat /\ l \in Nat
  BY OnePriority
<1>9. s \in Seq(Codes) /\ Len(s) <= Tr!MaxViolations
  BY DEF Tally
<1>4. /\ e.fresh \in Seq(Codes) /\ Len(e.fresh) <= Tr!MaxViolations
      /\ Cardinality(Reasoned(e.fresh)) <= Cardinality(Reasoned(s))
      /\ Len(e.fresh) < Tr!MaxViolations =>
           Len(s) < Tr!MaxViolations /\ Cardinality(Reasoned(e.fresh)) = Cardinality(Reasoned(s))
  <2>1. Cardinality(Reasoned(s)) \in Nat
    BY <1>9, ReasonedFinite
  <2>2. LET t == Tr!First(s \o [i \in 1..n |-> code])
            told == IF Tr!HasReason(code) THEN n ELSE 0
        IN  /\ t \in Seq(Codes) /\ Len(t) <= Tr!MaxViolations
            /\ Cardinality(Reasoned(t)) <= Cardinality(Reasoned(s)) + told
            /\ Len(t) < Tr!MaxViolations =>
                 Len(s) < Tr!MaxViolations /\ Cardinality(Reasoned(t)) = Cardinality(Reasoned(s)) + told
    BY <1>1, <1>9, TakesWhatFits
  <2> HIDE DEF s
  <2> QED
    BY <1>1, <1>2, <2>1, <2>2
<1>5. Cardinality(Reasoned(s)) \in Nat /\ Cardinality(Reasoned(e.fresh)) \in Nat
  BY <1>4, ReasonedFinite DEF Tally
<1> HIDE DEF k, l
<1>6. Tally(e, c)
  <2>1. PICK a, b : a = Cardinality(Reasoned(s)) /\ b = Cardinality(Reasoned(e.fresh))
    OBVIOUS
  <2>2. a \in Nat /\ b \in Nat
    BY <1>5, <2>1
  <2>3. Tally(old, c) /\ old.fresh = s
    OBVIOUS
  <2>4. PICK r, t : r = old.report /\ t = e.report
    OBVIOUS
  <2>5. r.p1 \in Nat /\ r.p2 \in Nat /\ r.unref \in Nat /\ r.ptsDisc \in Nat
    BY <2>3, <2>4 DEF Tally
  <2>6. /\ (c + a) + (r.unref + r.ptsDisc) <= r.p1 + r.p2
        /\ Len(s) < Tr!MaxViolations => (c + a) + (r.unref + r.ptsDisc) = r.p1 + r.p2
    BY <2>1, <2>3, <2>4 DEF Tally
  <2> HIDE DEF s
  <2>7. t.p1 = r.p1 + k /\ t.p2 = r.p2 + l
    BY <1>2, <2>4, <2>5
  <2>8. t.unref \in Nat /\ t.ptsDisc \in Nat /\ t.unref + t.ptsDisc = (r.unref + r.ptsDisc) + n
    BY <1>2, <2>4, <2>5
  <2>9. t.p1 \in Nat /\ t.p2 \in Nat /\ t.p1 + t.p2 = (r.p1 + r.p2) + n
    <3>1. PICK x, y : x = k /\ y = l
      OBVIOUS
    <3>2. x \in Nat /\ y \in Nat /\ x + y = n /\ t.p1 = r.p1 + x /\ t.p2 = r.p2 + y
      BY <1>3, <2>7, <3>1
    <3>3. r.p1 \in Nat /\ r.p2 \in Nat
      BY <2>5
    <3>4. PICK p, q : p = r.p1 /\ q = r.p2
      OBVIOUS
    <3>5. PICK u, v : u = t.p1 /\ v = t.p2
      OBVIOUS
    <3>6. p \in Nat /\ q \in Nat /\ u = p + x /\ v = q + y
      BY <3>2, <3>3, <3>4, <3>5
    <3>7. u \in Nat /\ v \in Nat /\ u + v = (p + q) + n
      BY <3>2, <3>6
    <3> QED
      BY <3>4, <3>5, <3>7
  <2>10. PICK big \in Nat, silent \in Nat : big = r.p1 + r.p2 /\ silent = r.unref + r.ptsDisc
    BY <2>5
  <2>11. b <= a /\ (Len(e.fresh) < Tr!MaxViolations => Len(s) < Tr!MaxViolations /\ b = a)
    BY <1>4, <2>1
  <2>12. /\ (c + a) + silent <= big
         /\ Len(s) < Tr!MaxViolations => (c + a) + silent = big
    BY <2>6, <2>10
  <2>13. /\ (c + b) + (silent + n) <= big + n
         /\ Len(e.fresh) < Tr!MaxViolations => (c + b) + (silent + n) = big + n
    BY <2>2, <2>11, <2>12
  <2> QED
    BY <1>4, <2>1, <2>4, <2>8, <2>9, <2>10, <2>13 DEF Tally
<1> QED
  BY <1>6, <1>8

\* What Sound looks at.
LEMMA SoundSame ==
  ASSUME NEW eng, NEW c, NEW o, Sound(eng, c, o), NEW e, Shape(e), IsFiniteSet(e.seen),
         e.fresh = eng.fresh, e.orphans = eng.orphans,
         e.report.p1 = eng.report.p1, e.report.p2 = eng.report.p2,
         e.report.unref = eng.report.unref, e.report.ptsDisc = eng.report.ptsDisc
  PROVE  Sound(e, c, o)
<1>1. Tally(e, c)
  BY DEF Sound, Tally
<1>2. Orphans(e, o)
  BY DEF Sound, Orphans
<1> QED
  BY <1>1, <1>2 DEF Sound

LEMMA SoundPcr ==
  ASSUME NEW eng, NEW c, NEW o, Sound(eng, c, o), NEW pkt
  PROVE  Sound(Tr!TrackPcr(eng, pkt), c, o)
<1> DEFINE e == Tr!TrackPcr(eng, pkt)
<1>1. CASE pkt.pcr = {}
  BY <1>1 DEF Tr!TrackPcr
<1>2. CASE pkt.pcr # {}
  <2>1. /\ Shape(e) /\ e.fresh = eng.fresh /\ e.orphans = eng.orphans /\ e.seen = eng.seen
        /\ e.report = eng.report
    BY <1>2 DEF Tr!TrackPcr, Sound, Shape
  <2> HIDE DEF e
  <2>2. Sound(e, c, o)
    BY <2>1, SoundSame DEF Sound, Orphans
  <2> QED
    BY <2>2 DEF e
<1> QED
  BY <1>1, <1>2

LEMMA SoundCc ==
  ASSUME NEW eng, NEW c \in Nat, NEW o, Sound(eng, c, o), NEW pkt
  PROVE  Sound(Tr!TrackCc(eng, pkt), c, o)
<1>1. PICK bad, win, n :
        Tr!TrackCc(eng, pkt) \in
          {eng, Tr!RaiseIf(bad, [eng EXCEPT !.win = win, !.report.cc = n], "P1_CC")}
  BY DEF Tr!TrackCc
<1> DEFINE e == [eng EXCEPT !.win = win, !.report.cc = n]
<1>2. /\ Shape(e) /\ e.fresh = eng.fresh /\ e.orphans = eng.orphans /\ e.seen = eng.seen
      /\ e.report.p1 = eng.report.p1 /\ e.report.p2 = eng.report.p2
      /\ e.report.unref = eng.report.unref /\ e.report.ptsDisc = eng.report.ptsDisc
  BY DEF Sound, Shape
<1> HIDE DEF e
<1>3. Sound(e, c, o)
  BY <1>2, SoundSame DEF Sound, Orphans
<1>4. "P1_CC" \in Reasons
  BY DEF Reasons
<1>5. Sound(Tr!RaiseIf(bad, e, "P1_CC"), c, o)
  BY <1>3, <1>4, SoundRaiseIf
<1> QED
  BY <1>1, <1>5 DEF e

LEMMA SoundGap ==
  ASSUME NEW eng, NEW c \in Nat, NEW o, Sound(eng, c, o), NEW pat \in BOOLEAN
  PROVE  Sound(Tr!FlagTableGap(eng, pat), c, o)
<1> DEFINE e == IF pat THEN [eng EXCEPT !.report.patTimeout = TRUE]
                ELSE [eng EXCEPT !.report.pmtTimeout = TRUE]
<1>1. /\ Shape(e) /\ e.fresh = eng.fresh /\ e.orphans = eng.orphans /\ e.seen = eng.seen
      /\ e.report.p1 = eng.report.p1 /\ e.report.p2 = eng.report.p2
      /\ e.report.unref = eng.report.unref /\ e.report.ptsDisc = eng.report.ptsDisc
  BY DEF Sound, Shape
<1>2. Tr!FlagTableGap(eng, pat) = Tr!Raise(e, IF pat THEN "P1_PAT" ELSE "P1_PMT")
  BY DEF Tr!FlagTableGap
<1> HIDE DEF e
<1>3. Sound(e, c, o)
  BY <1>1, SoundSame DEF Sound, Orphans
<1>4. "P1_PAT" \in Reasons /\ "P1_PMT" \in Reasons
  BY DEF Reasons
<1> QED
  BY <1>2, <1>3, <1>4, SoundRaise

LEMMA SoundRepetition ==
  ASSUME NEW eng, NEW c \in Nat, NEW o, Sound(eng, c, o), NEW pat \in BOOLEAN, NEW t
  PROVE  Sound(Tr!CheckRepetition(eng, pat, t), c, o)
  BY SoundGap DEF Tr!CheckRepetition

LEMMA SoundTables ==
  ASSUME NEW eng, NEW c \in Nat, NEW o, Sound(eng, c, o), NEW pkt
  PROVE  Sound(Tr!ParseTables(eng, pkt), c, o)
<1> DEFINE pcrs == {l.pcr : l \in eng.win.lastPcr}
           Rep(pat) == Tr!CheckRepetition(eng, pat, pcrs)
           Pat(e, pids) == [e EXCEPT !.win.patSeen = TRUE, !.win.patAt = pcrs, !.pmtPids = @ \cup pids]
           Pmt(e, pids) == [e EXCEPT !.win.pmtSeen = TRUE, !.win.pmtAt = pcrs, !.referenced = @ \cup pids]
<1>1. PICK pids :
        Tr!ParseTables(eng, pkt) \in
          {eng, Tr!Raise(eng, "P1_PAT"), Pat(Rep(TRUE), pids), Pmt(Rep(FALSE), pids)}
  BY DEF Tr!ParseTables
<1>2. Sound(Rep(TRUE), c, o) /\ Sound(Rep(FALSE), c, o)
  BY SoundRepetition
<1>3. Sound(Tr!Raise(eng, "P1_PAT"), c, o)
  BY SoundRaise DEF Reasons
<1> HIDE DEF Rep, pcrs
<1>4. ASSUME NEW e, Sound(e, c, o)
      PROVE  Sound(Pat(e, pids), c, o) /\ Sound(Pmt(e, pids), c, o)
  <2> DEFINE a == Pat(e, pids)
             b == Pmt(e, pids)
  <2>1. /\ Shape(a) /\ a.fresh = e.fresh /\ a.orphans = e.orphans /\ a.seen = e.seen
        /\ a.report = e.report
    BY <1>4 DEF Sound, Shape
  <2>2. /\ Shape(b) /\ b.fresh = e.fresh /\ b.orphans = e.orphans /\ b.seen = e.seen
        /\ b.report = e.report
    BY <1>4 DEF Sound, Shape
  <2> HIDE DEF a, b
  <2>3. Sound(a, c, o)
    BY <1>4, <2>1, SoundSame DEF Sound, Orphans
  <2>4. Sound(b, c, o)
    BY <1>4, <2>2, SoundSame DEF Sound, Orphans
  <2> QED
    BY <2>3, <2>4 DEF a, b
<1> HIDE DEF Pat, Pmt
<1> QED
  BY <1>1, <1>2, <1>3, <1>4

LEMMA SoundPts ==
  ASSUME NEW eng, NEW c \in Nat, NEW o, Sound(eng, c, o), NEW pkt
  PROVE  Sound(Tr!TrackPts(eng, pkt), c, o)
<1>0. eng.report.ptsDisc \in Nat
  BY DEF Sound, Tally
<1>1. PICK jump, win :
        Tr!TrackPts(eng, pkt) \in
          {eng, Tr!RaiseIf(jump, [eng EXCEPT !.win = win,
                                             !.report.ptsDisc = @ + (IF jump THEN 1 ELSE 0)],
                           "P2_PTS_DISC")}
  BY DEF Tr!TrackPts
<1>2. PICK d : d = eng.report.ptsDisc + (IF jump THEN 1 ELSE 0)
  OBVIOUS
<1> DEFINE e == [eng EXCEPT !.win = win, !.report.ptsDisc = d]
<1>3. /\ Shape(e) /\ e.fresh = eng.fresh /\ e.orphans = eng.orphans /\ e.seen = eng.seen
      /\ e.report.p1 = eng.report.p1 /\ e.report.p2 = eng.report.p2
      /\ e.report.unref = eng.report.unref /\ e.report.ptsDisc = d
  BY DEF Sound, Shape
<1>4. Tr!TrackPts(eng, pkt) \in {eng, Tr!RaiseIf(jump, e, "P2_PTS_DISC")}
  BY <1>1, <1>2
<1> HIDE DEF e
<1>5. CASE ~jump
  <2>1. d = eng.report.ptsDisc
    BY <1>0, <1>2, <1>5
  <2>2. Sound(e, c, o)
    BY <1>3, <2>1, SoundSame DEF Sound, Orphans
  <2> QED
    BY <1>4, <1>5, <2>2 DEF Tr!RaiseIf
<1>6. CASE jump
  <2> DEFINE f == Tr!RaiseTimes(e, "P2_PTS_DISC", 1)
  <2>1. PICK n \in Nat : n = 1
    OBVIOUS
  <2>2. eng.report.unref \in Nat /\ d \in Nat /\ d = eng.report.ptsDisc + n
    BY <1>0, <1>2, <1>6, <2>1 DEF Sound, Tally
  <2>3. e.report.unref + e.report.ptsDisc = (eng.report.unref + eng.report.ptsDisc) + n
    <3>1. PICK u, p : u = eng.report.unref /\ p = eng.report.ptsDisc
      OBVIOUS
    <3>2. u \in Nat /\ p \in Nat /\ d = p + n
      BY <1>0, <2>2, <3>1
    <3>3. u + d = (u + p) + n
      BY <3>2
    <3> QED
      BY <1>3, <3>1, <3>3
  <2>4. "P2_PTS_DISC" \in Codes \ Reasons
    BY DEF Codes, Reasons
  <2>5. Tally(f, c)
    <3>1. Tally(eng, c)
      BY DEF Sound
    <3>2. Tally(Tr!RaiseTimes(e, "P2_PTS_DISC", n), c)
      BY <1>3, <2>2, <2>3, <2>4, <3>1, SilentRaise
    <3> QED
      BY <2>1, <3>2
  <2>6. /\ Shape(f) /\ f.orphans = e.orphans /\ f.seen = e.seen
        /\ f.report.unref = e.report.unref
    <3>1. PICK g, code : g = Tr!RaiseTimes(e, code, n) /\ code = "P2_PTS_DISC"
      OBVIOUS
    <3>2. /\ Shape(g) /\ g.orphans = e.orphans /\ g.seen = e.seen
          /\ g.report.unref = e.report.unref
      <4>1. Shape(e) /\ g = Tr!RaiseTimes(e, code, n)
        BY <1>3, <3>1
      <4> QED
        BY <2>1, <4>1, RaisedKeeps
    <3> QED
      BY <2>1, <3>1, <3>2
  <2>7. Tr!RaiseIf(jump, e, "P2_PTS_DISC") = f
    BY <1>6 DEF Tr!RaiseIf, Tr!Raise
  <2> HIDE DEF f
  <2>8. Orphans(f, o)
    BY <1>3, <2>6 DEF Sound, Orphans
  <2> QED
    BY <1>4, <2>5, <2>6, <2>7, <2>8 DEF Sound
<1> QED
  BY <1>5, <1>6

LEMMA SoundPacket ==
  ASSUME NEW eng, NEW c \in Nat, NEW o, Sound(eng, c, o), NEW pkt
  PROVE  Sound(Tr!ProcessPacket(eng, pkt), c, o)
<1> DEFINE e == [eng EXCEPT !.seen = @ \cup {pkt.pid}]
           f == Tr!RaiseIf(pkt.tei, e, "P2_TEI")
<1>1. /\ Shape(e) /\ e.fresh = eng.fresh /\ e.orphans = eng.orphans
      /\ e.seen = eng.seen \cup {pkt.pid} /\ e.report = eng.report
  BY DEF Sound, Shape
<1> HIDE DEF e
<1>2. IsFiniteSet(e.seen)
  BY <1>1, FS_AddElement DEF Sound, Orphans
<1>3. Sound(e, c, o)
  BY <1>1, <1>2, SoundSame
<1>4. Sound(f, c, o)
  BY <1>3, SoundRaiseIf DEF Reasons
<1>5. Tr!ProcessPacket(eng, pkt) \in
        {eng, Tr!TrackPts(Tr!ParseTables(Tr!TrackCc(Tr!TrackPcr(f, pkt), pkt), pkt), pkt)}
  BY DEF Tr!ProcessPacket, e
<1> HIDE DEF f
<1>6. Sound(Tr!TrackCc(Tr!TrackPcr(f, pkt), pkt), c, o)
  BY <1>4, SoundPcr, SoundCc
<1>7. Sound(Tr!TrackPts(Tr!ParseTables(Tr!TrackCc(Tr!TrackPcr(f, pkt), pkt), pkt), pkt), c, o)
  BY <1>6, SoundTables, SoundPts
<1> QED
  BY <1>5, <1>7

LEMMA SoundPiece ==
  ASSUME NEW st, {"inSync", "eng"} \subseteq DOMAIN st,
         NEW c \in Nat, NEW o, Sound(st.eng, c, o), NEW window, NEW i
  PROVE  LET after == Tr!Piece(st, window, i)
         IN  {"inSync", "eng"} \subseteq DOMAIN after /\ Sound(after.eng, c, o)
<1>1. PICK n : n = st.eng.report.sync + 1
  OBVIOUS
<1> DEFINE e == [st.eng EXCEPT !.report.sync = n]
<1>2. /\ Shape(e) /\ e.fresh = st.eng.fresh /\ e.orphans = st.eng.orphans /\ e.seen = st.eng.seen
      /\ e.report.p1 = st.eng.report.p1 /\ e.report.p2 = st.eng.report.p2
      /\ e.report.unref = st.eng.report.unref /\ e.report.ptsDisc = st.eng.report.ptsDisc
  BY DEF Sound, Shape
<1>3. Tr!Piece(st, window, i) \in
        {st, [st EXCEPT !.eng = Tr!ProcessPacket(@, window[i])],
         [inSync |-> FALSE, eng |-> Tr!Raise(e, "P1_SYNC")],
         [inSync |-> TRUE, eng |-> Tr!ProcessPacket(st.eng, window[i])]}
  BY <1>1 DEF Tr!Piece
<1> HIDE DEF e
<1>4. Sound(e, c, o)
  BY <1>2, SoundSame DEF Sound, Orphans
<1>5. Sound(Tr!Raise(e, "P1_SYNC"), c, o)
  BY <1>4, SoundRaise DEF Reasons
<1>6. Sound(Tr!ProcessPacket(st.eng, window[i]), c, o)
  BY SoundPacket
<1> QED
  BY <1>3, <1>5, <1>6

LEMMA SoundWalk ==
  ASSUME NEW eng, NEW c \in Nat, NEW o, Sound(eng, c, o), NEW window, IsList(window)
  PROVE  Sound(Tr!Walk(eng, window), c, o)
<1> DEFINE n == Len(window)
           r == [window |-> window]
           places == [i \in 1..n |-> i]
           base == [inSync |-> TRUE, eng |-> eng]
           Step(st, i) == Tr!Piece(st, window, i)
           Fold(g) == g = [s \in SUBSET (1..n) |->
                             IF s = {} THEN base ELSE Step(g[s \ {Tr!Max(s)}], places[Tr!Max(s)])]
           h == CHOOSE g : Fold(g)
<1>1. n \in Nat
  BY DEF IsList
<1>2. Len(places) = n /\ DOMAIN places = 1..n
  BY <1>1
<1>3. Tr!Walk(eng, window) = h[1..n].eng
  BY <1>2 DEF Tr!Walk, Tr!FoldLeft, Tr!MapThenFoldSet
<1>4. \A S : Tr!Max(S) = Max(S)
  BY DEF Tr!Max, Max
<1>5. r.window = window
  OBVIOUS
<1>6. \A g : Fold(g) <=> Folds("walk", r, base, places, 1..n, g)
  BY <1>4, <1>5 DEF Folds, Turn
<1>7. {"inSync", "eng"} \subseteq DOMAIN base /\ base.eng = eng
  OBVIOUS
<1> HIDE DEF Fold, n, r, base, places
<1>8. Folds("walk", r, base, places, 1..n, h)
  BY <1>1, <1>6, FoldsExist
<1> HIDE DEF h
<1>9. PICK f : Runs("walk", r, base, places, n, f) /\ f[n] = h[1..n]
  BY <1>1, <1>8, FoldsRun
<1> DEFINE Fit(st) == {"inSync", "eng"} \subseteq DOMAIN st /\ Sound(st.eng, c, o)
           T == {k \in 0..n : Fit(f[k])}
<1>10. 0 \in T
  BY <1>1, <1>7, <1>9 DEF Runs
<1>11. ASSUME NEW k \in 1..n, k - 1 \in T PROVE k \in T
  <2>1. f[k] = Tr!Piece(f[k - 1], window, places[k])
    BY <1>5, <1>9 DEF Runs, Turn
  <2> QED
    BY <1>11, <2>1, SoundPiece
<1> HIDE DEF T
<1>12. \A k \in 0..n : k \in T
  BY <1>1, <1>10, <1>11, Upward
<1> QED
  BY <1>1, <1>3, <1>9, <1>12 DEF T

\* No PID that was seen is left out once a PMT is known.
Complete(eng) ==
  /\ eng.report.unref = Cardinality(eng.orphans)
  /\ eng.referenced # {} =>
       \A p \in eng.seen : Tr!IsProgramPid(p) =>
         p \in eng.pmtPids \cup eng.referenced \cup eng.orphans

LEMMA CheckedIsComplete ==
  ASSUME NEW eng, NEW c \in Nat, Sound(eng, c, eng.orphans)
  PROVE  LET e == Tr!CheckUnreferenced(eng)
         IN  Sound(e, c, e.orphans) /\ Complete(e)
<1> DEFINE found == Tr!Unreported(eng)
<1>1. PICK n : n = Cardinality(found)
  OBVIOUS
<1>2. PICK u : u = eng.report.unref + n
  OBVIOUS
<1>3. PICK code \in Codes : code = "P1_PID"
  BY DEF Codes
<1> DEFINE a == [eng EXCEPT !.orphans = @ \cup found, !.report.unref = u]
           e == Tr!RaiseTimes(a, code, n)
<1>4. Tr!CheckUnreferenced(eng) = e
  BY <1>1, <1>2, <1>3, SameCard DEF Tr!CheckUnreferenced
<1>5. IsFiniteSet(found) /\ found \cap eng.orphans = {}
  <2>1. found \subseteq eng.seen
    BY DEF Tr!Unreported
  <2> QED
    BY <2>1, FS_Subset DEF Tr!Unreported, Sound, Orphans
<1>6. n \in Nat
  BY <1>1, <1>5, FS_CardinalityType
<1>7. /\ Shape(a) /\ a.fresh = eng.fresh /\ a.seen = eng.seen
      /\ a.orphans = eng.orphans \cup found
      /\ a.pmtPids = eng.pmtPids /\ a.referenced = eng.referenced
      /\ a.report.p1 = eng.report.p1 /\ a.report.p2 = eng.report.p2
      /\ a.report.unref = u /\ a.report.ptsDisc = eng.report.ptsDisc
  BY DEF Sound, Shape
<1>8. /\ \A p \in eng.seen : Tr!IsProgramPid(p) /\ eng.referenced # {}
           => p \in eng.pmtPids \cup eng.referenced \cup (eng.orphans \cup found)
  BY DEF Tr!Unreported
<1> HIDE DEF found, a
<1>9. /\ Shape(e) /\ e.orphans = a.orphans /\ e.seen = a.seen
      /\ e.pmtPids = a.pmtPids /\ e.referenced = a.referenced
      /\ e.report.unref = a.report.unref
  <2>1. PICK g : g = e
    OBVIOUS
  <2>2. /\ Shape(g) /\ g.orphans = a.orphans /\ g.seen = a.seen
        /\ g.pmtPids = a.pmtPids /\ g.referenced = a.referenced
        /\ g.report.unref = a.report.unref
    <3>1. Shape(a) /\ g = Tr!RaiseTimes(a, code, n)
      BY <1>7, <2>1
    <3> QED
      BY <1>6, <3>1, RaisedKeeps
  <2> QED
    BY <2>1, <2>2
<1>10. /\ IsFiniteSet(eng.orphans \cup found)
       /\ Cardinality(eng.orphans \cup found) = Cardinality(eng.orphans) + n
  <2>1. IsFiniteSet(eng.orphans)
    BY DEF Sound, Orphans
  <2>2. /\ IsFiniteSet(eng.orphans \cup found)
        /\ Cardinality(eng.orphans \cup found) =
             Cardinality(eng.orphans) + Cardinality(found) - Cardinality(eng.orphans \cap found)
    BY <1>5, <2>1, FS_Union
  <2>3. Cardinality(eng.orphans \cap found) = 0
    BY <1>5, FS_EmptySet
  <2>4. Cardinality(eng.orphans) \in Nat
    BY <2>1, FS_CardinalityType
  <2>5. PICK x : x = Cardinality(eng.orphans)
    OBVIOUS
  <2> QED
    BY <1>1, <1>6, <2>2, <2>3, <2>4, <2>5
<1>11. e.report.unref = Cardinality(e.orphans)
  BY <1>2, <1>7, <1>9, <1>10 DEF Sound, Orphans
<1>12. Tally(e, c)
  <2>1. PICK x, d : x = eng.report.unref /\ d = eng.report.ptsDisc
    OBVIOUS
  <2>2. Tally(eng, c)
    BY DEF Sound
  <2>3. x \in Nat /\ d \in Nat
    BY <2>1, <2>2 DEF Tally
  <2>4. u = x + n /\ u \in Nat
    BY <1>2, <1>6, <2>1, <2>3
  <2>5. u + d = (x + d) + n
    BY <1>6, <2>3, <2>4
  <2>6. code \in Codes \ Reasons
    BY <1>3 DEF Codes, Reasons
  <2> QED
    BY <1>6, <1>7, <2>1, <2>2, <2>3, <2>4, <2>5, <2>6, SilentRaise
<1>13. Orphans(e, e.orphans)
  BY <1>7, <1>9, <1>10, <1>11 DEF Sound, Orphans
<1>14. Complete(e)
  BY <1>7, <1>8, <1>9, <1>11 DEF Complete
<1> HIDE DEF e
<1> QED
  BY <1>4, <1>9, <1>12, <1>13, <1>14 DEF Sound

LEMMA SoundFinish ==
  ASSUME NEW eng, NEW c \in Nat, Sound(eng, c, eng.orphans)
  PROVE  LET e == Tr!FinishWindow(eng)
         IN  Sound(e, c, e.orphans) /\ Complete(e)
<1> DEFINE w == eng.win
           long == \E f \in w.firstPcr, l \in w.lastPcr : Tr!Ticks(f, l.pcr) > Tr!TableTimeout
           tables == CASE long /\ ~w.patSeen -> Tr!FlagTableGap(eng, TRUE)
                       [] long /\ w.patSeen /\ ~w.pmtSeen /\ eng.pmtPids # {} ->
                            Tr!FlagTableGap(eng, FALSE)
                       [] OTHER -> eng
<1>1. PICK n : n = Tr!Max({tables.report.gap, Tr!Max({0} \cup Tr!ToSet(w.gaps))})
  OBVIOUS
<1> DEFINE wide == [tables EXCEPT !.report.gap = n]
           gaps == IF w.gaps = << >> THEN tables ELSE Tr!Raise(wide, "P2_PCR_GAP")
           jitter == Tr!RaiseIf(Tr!Jitters(w.intervals), gaps, "P2_PCR_JITTER")
           last == [jitter EXCEPT !.win.gaps = << >>, !.win.intervals = << >>]
           o == eng.orphans
<1>2. Tr!FinishWindow(eng) = Tr!CheckUnreferenced(last)
  BY <1>1 DEF Tr!FinishWindow
<1>3. Sound(tables, c, o)
  BY SoundGap
<1> HIDE DEF tables
<1>4. /\ Shape(wide) /\ wide.fresh = tables.fresh /\ wide.orphans = tables.orphans
      /\ wide.seen = tables.seen
      /\ wide.report.p1 = tables.report.p1 /\ wide.report.p2 = tables.report.p2
      /\ wide.report.unref = tables.report.unref /\ wide.report.ptsDisc = tables.report.ptsDisc
  BY <1>3 DEF Sound, Shape
<1> HIDE DEF wide
<1>5. Sound(wide, c, o)
  BY <1>3, <1>4, SoundSame DEF Sound, Orphans
<1>6. Sound(gaps, c, o)
  BY <1>3, <1>5, SoundRaise DEF Reasons
<1> HIDE DEF gaps
<1>7. Sound(jitter, c, o)
  BY <1>6, SoundRaiseIf DEF Reasons
<1> HIDE DEF jitter
<1>8. /\ Shape(last) /\ last.fresh = jitter.fresh /\ last.orphans = jitter.orphans
      /\ last.seen = jitter.seen /\ last.report = jitter.report
  BY <1>7 DEF Sound, Shape
<1> HIDE DEF last
<1>9. Sound(last, c, o) /\ last.orphans = o
  BY <1>7, <1>8, SoundSame DEF Sound, Orphans
<1> QED
  BY <1>2, <1>9, CheckedIsComplete

LEMMA SoundIngest ==
  ASSUME NEW eng, NEW c \in Nat, Sound(eng, c, eng.orphans), Complete(eng),
         NEW window, IsList(window)
  PROVE  LET e == Tr!Ingest(eng, window)
         IN  Sound(e, c, e.orphans) /\ Complete(e)
<1> DEFINE a == [eng EXCEPT !.win = Tr!EmptyWindow, !.report.patTimeout = FALSE,
                            !.report.pmtTimeout = FALSE]
           o == eng.orphans
<1>1. Tr!Ingest(eng, window) \in {eng, Tr!FinishWindow(Tr!Walk(a, window))}
  BY DEF Tr!Ingest
<1>2. /\ Shape(a) /\ a.fresh = eng.fresh /\ a.orphans = eng.orphans /\ a.seen = eng.seen
      /\ a.report.p1 = eng.report.p1 /\ a.report.p2 = eng.report.p2
      /\ a.report.unref = eng.report.unref /\ a.report.ptsDisc = eng.report.ptsDisc
  BY DEF Sound, Shape
<1> HIDE DEF a
<1>3. Sound(a, c, o)
  BY <1>2, SoundSame DEF Sound, Orphans
<1>4. Sound(Tr!Walk(a, window), c, o)
  BY <1>3, SoundWalk
<1>5. Tr!Walk(a, window).orphans = o
  BY <1>4 DEF Sound, Orphans
<1> DEFINE w == Tr!Walk(a, window)
           f == Tr!FinishWindow(w)
<1>6. Sound(w, c, w.orphans)
  BY <1>4, <1>5
<1>7. Sound(f, c, f.orphans) /\ Complete(f)
  BY <1>6, SoundFinish
<1> HIDE DEF f
<1> QED
  BY <1>1, <1>7 DEF f

-----------------------------------------------------------------------------
(* Orphans                                                                  *)

\* Between two windows no alarm is unsent, and c of them had a reason.
EngineInv ==
  /\ tr.fresh = << >> /\ Complete(tr)
  /\ \E c \in Nat : Sound(tr, c, tr.orphans)

WindowsInv ==
  /\ stream \in Streams
  /\ \A got \in seg : "s" \in DOMAIN got /\ IsList(got.s.window)

OrphanInv == WindowsInv /\ EngineInv

LEMMA OrphanInvInit == Init => OrphanInv
<1> SUFFICES ASSUME Init PROVE OrphanInv
  OBVIOUS
<1>1. WindowsInv
  BY DEF Init, WindowsInv
<1> DEFINE e == Tr!NewEngine
<1>2. /\ Shape(e) /\ e.fresh = << >> /\ e.orphans = {} /\ e.seen = {} /\ e.referenced = {}
      /\ e.report.p1 = 0 /\ e.report.p2 = 0 /\ e.report.unref = 0 /\ e.report.ptsDisc = 0
  BY DEF Shape, Tr!NewEngine, Tr!EmptyReport
<1>3. tr = e
  BY DEF Init
<1> HIDE DEF e
<1>4. IsFiniteSet({}) /\ Cardinality({}) = 0
  BY FS_EmptySet
<1>5. Reasoned(<< >>) = {}
  BY DEF Reasoned
<1>6. << >> \in Seq(Codes) /\ Len(<< >>) = 0
  OBVIOUS
<1>7. Tally(e, 0)
  BY <1>2, <1>4, <1>5, <1>6 DEF Tally, Tr!MaxViolations
<1>8. Orphans(e, {})
  BY <1>2, <1>4 DEF Orphans
<1>9. Complete(e)
  BY <1>2, <1>4 DEF Complete
<1> QED
  BY <1>1, <1>2, <1>3, <1>7, <1>8, <1>9 DEF OrphanInv, EngineInv, Sound

\* The engine after its window was analysed and its alarms were handed out.
LEMMA EngineTakes ==
  ASSUME NEW eng, eng.fresh = << >>, NEW c \in Nat, Sound(eng, c, eng.orphans), Complete(eng),
         NEW window, IsList(window)
  PROVE  LET e == Tr!Ingest(eng, window)
             t == Tr!TakeFresh(e)
         IN  /\ Sound(e, c, e.orphans)
             /\ t.fresh = << >> /\ t.report = e.report /\ Complete(t)
             /\ \E d \in Nat : Sound(t, d, t.orphans)
<1> DEFINE e == Tr!Ingest(eng, window)
           t == Tr!TakeFresh(e)
<1>1. Sound(e, c, e.orphans) /\ Complete(e)
  BY SoundIngest
<1> HIDE DEF e
<1>2. /\ Shape(t) /\ t.fresh = << >> /\ t.report = e.report /\ t.orphans = e.orphans
      /\ t.seen = e.seen /\ t.pmtPids = e.pmtPids /\ t.referenced = e.referenced
  BY <1>1 DEF Tr!TakeFresh, Sound, Shape
<1> HIDE DEF t
<1>3. Complete(t)
  BY <1>1, <1>2 DEF Complete
<1>4. PICK r : r = e.report
  OBVIOUS
<1>5. PICK n : n = Cardinality(Reasoned(e.fresh))
  OBVIOUS
<1>6. Tally(e, c) /\ n \in Nat
  BY <1>1, <1>5, ReasonedFinite DEF Sound, Tally
<1>7. r.p1 \in Nat /\ r.p2 \in Nat /\ r.unref \in Nat /\ r.ptsDisc \in Nat
  BY <1>4, <1>6 DEF Tally
<1>8. PICK total \in Nat, silent \in Nat : total = r.p1 + r.p2 /\ silent = r.unref + r.ptsDisc
  <2>1. PICK x, y, u, v : x = r.p1 /\ y = r.p2 /\ u = r.unref /\ v = r.ptsDisc
    OBVIOUS
  <2>2. x + y \in Nat /\ u + v \in Nat
    BY <1>7, <2>1
  <2> QED
    BY <2>1, <2>2
<1>9. (c + n) + silent <= total
  BY <1>4, <1>5, <1>6, <1>8 DEF Tally
<1>10. PICK d \in Nat : d + silent = total
  <2>1. total - silent \in Nat /\ (total - silent) + silent = total
    BY <1>6, <1>8, <1>9
  <2> QED
    BY <2>1
<1>11. Tally(t, d)
  <2>1. Reasoned(<< >>) = {} /\ Cardinality({}) = 0
    BY FS_EmptySet DEF Reasoned
  <2>2. << >> \in Seq(Codes) /\ Len(<< >>) = 0
    OBVIOUS
  <2>3. (d + 0) + silent = total /\ (d + 0) + silent <= total
    BY <1>8, <1>10
  <2>4. t.report = r /\ t.fresh = << >>
    BY <1>2, <1>4
  <2>5. (d + 0) + (r.unref + r.ptsDisc) = r.p1 + r.p2
        /\ (d + 0) + (r.unref + r.ptsDisc) <= r.p1 + r.p2
    BY <1>8, <2>3
  <2>6. Cardinality(Reasoned(t.fresh)) = 0
    BY <2>1, <2>4
  <2>7. t.fresh \in Seq(Codes) /\ Len(t.fresh) <= Tr!MaxViolations
    BY <2>2, <2>4 DEF Tr!MaxViolations
  <2> QED
    BY <1>7, <2>4, <2>5, <2>6, <2>7 DEF Tally
<1>12. Orphans(t, t.orphans)
  BY <1>1, <1>2 DEF Sound, Orphans
<1>13. Sound(t, d, t.orphans)
  BY <1>2, <1>11, <1>12 DEF Sound
<1> QED
  BY <1>1, <1>2, <1>3, <1>13 DEF e, t

\* The window of a segment as it is analysed.
LEMMA WindowListed ==
  ASSUME NEW got, IsList(got.s.window) PROVE IsList(Window(got))
<1>1. PICK n, f : n = Len(got.s.window) /\ f = Window(got)
  OBVIOUS
<1>2. n \in Nat /\ f = [i \in 1..n |-> f[i]]
  BY <1>1 DEF IsList, Window
<1>3. Len(f) = n
  BY <1>2
<1> QED
  BY <1>1, <1>2, <1>3 DEF IsList

LEMMA OrphanInvNext == OrphanInv /\ [Next]_vars => OrphanInv'
<1> SUFFICES ASSUME OrphanInv, [Next]_vars PROVE OrphanInv'
  OBVIOUS
<1> USE DEF OrphanInv
<1>1. ASSUME UNCHANGED <<stream, seg, tr>> PROVE OrphanInv'
  BY <1>1 DEF WindowsInv, EngineInv
<1>2. CASE FetchSegment
  <2>1. PICK s \in stream.segs : \E key, at :
          seg' = {[s |-> s, key |-> key, at |-> at, answer |-> NoAnswer]}
    BY <1>2, Zenon DEF FetchSegment
  <2>2. IsList(s.window)
    BY StreamsAssumption DEF WindowsInv
  <2>3. WindowsInv'
    <3>1. PICK key, at : seg' = {[s |-> s, key |-> key, at |-> at, answer |-> NoAnswer]}
      BY <2>1
    <3>2. PICK got : got = [s |-> s, key |-> key, at |-> at, answer |-> NoAnswer]
      OBVIOUS
    <3>3. got.s = s /\ "s" \in DOMAIN got /\ seg' = {got}
      BY <3>1, <3>2
    <3> QED
      BY <1>2, <2>2, <3>3 DEF FetchSegment, WindowsInv
  <2>4. UNCHANGED tr
    BY <1>2 DEF FetchSegment
  <2>5. EngineInv'
    BY <2>4 DEF EngineInv
  <2> QED
    BY <2>3, <2>5
<1>3. CASE Finish
  <2>1. WindowsInv'
    BY <1>3 DEF Finish, WindowsInv
  <2>2. PICK got \in seg : \/ tr' = Tr!TakeFresh(Tr!Ingest(tr, Window(got)))
                           \/ UNCHANGED tr
    BY <1>3 DEF Finish
  <2>3. PICK window, eng, t : window = Window(got) /\ eng = tr /\ t = tr'
    OBVIOUS
  <2>4. IsList(window)
    BY <2>3, WindowListed DEF WindowsInv
  <2>5. PICK c \in Nat : Sound(eng, c, eng.orphans)
    BY <2>3 DEF EngineInv
  <2>6. eng.fresh = << >> /\ Complete(eng)
    BY <2>3 DEF EngineInv
  <2>7. ASSUME t = Tr!TakeFresh(Tr!Ingest(eng, window))
        PROVE  t.fresh = << >> /\ Complete(t) /\ \E d \in Nat : Sound(t, d, t.orphans)
    BY <2>4, <2>5, <2>6, <2>7, EngineTakes
  <2>8. EngineInv'
    BY <2>2, <2>3, <2>7 DEF EngineInv
  <2> QED
    BY <2>1, <2>8
<1>4. CASE UNCHANGED vars
  BY <1>1, <1>4 DEF vars
<1>5. CASE StartPoll
  BY <1>1, <1>5 DEF StartPoll
<1>6. CASE PollFails
  BY <1>1, <1>6 DEF PollFails
<1>7. CASE EndCycle
  BY <1>1, <1>7 DEF EndCycle
<1>8. CASE ReadMaster
  BY <1>1, <1>8 DEF ReadMaster
<1>9. CASE ReadMedia
  BY <1>1, <1>9 DEF ReadMedia
<1>10. CASE ReadMpd
  BY <1>1, <1>10 DEF ReadMpd
<1>11. CASE EndMpd
  BY <1>1, <1>11 DEF EndMpd
<1>12. CASE FetchFails
  BY <1>1, <1>12 DEF FetchFails
<1>13. CASE KeyHeld
  BY <1>1, <1>13 DEF KeyHeld
<1>14. CASE KeyFetched
  BY <1>1, <1>14 DEF KeyFetched
<1>15. CASE Rotate
  BY <1>1, <1>15 DEF Rotate
<1>16. CASE KeyAnswered
  <2>1. /\ \E x : \E got \in seg : seg' = {[got EXCEPT !.answer = x]}
        /\ UNCHANGED <<stream, tr>>
    BY <1>16 DEF KeyAnswered
  <2>2. PICK x, got, on : got \in seg /\ on = [got EXCEPT !.answer = x] /\ seg' = {on}
    BY <2>1
  <2>3. "s" \in DOMAIN got /\ IsList(got.s.window)
    BY <2>2 DEF WindowsInv
  <2>4. "s" \in DOMAIN on /\ on.s = got.s
    BY <2>2, <2>3
  <2> QED
    BY <2>1, <2>2, <2>3, <2>4 DEF WindowsInv, EngineInv
<1> QED
  BY <1>2, <1>3, <1>4, <1>5, <1>6, <1>7, <1>8, <1>9, <1>10, <1>11, <1>12, <1>13, <1>14, <1>15, <1>16
  DEF Next

\* OrphansAreComplete: check_unreferenced_pids reports every program PID that no
\* PMT names, once, over any number of windows.
THEOREM OrphansStayComplete == Spec => []OrphansAreComplete
<1>1. OrphanInv => OrphansAreComplete
  BY DEF OrphanInv, EngineInv, Complete, OrphansAreComplete
<1> QED
  BY <1>1, OrphanInvInit, OrphanInvNext, PTL DEF Spec

-----------------------------------------------------------------------------
(* What events do to the metrics                                            *)

SnapShape(s) ==
  {"health", "ttfb", "ratio", "latency", "fps", "hits", "misses", "provider", "buffer", "rebuffer",
   "stallRisk", "g2g", "adActive", "stalls", "httpErrors", "ll", "mismatch", "p1", "p2",
   "adMismatch", "inband", "clearkeyOk", "errors", "partRatio", "doh", "version", "handshake",
   "resets", "ttfbHist", "partHist", "drmHist", "lastDrm"} \subseteq DOMAIN s

\* A counter counts.
Counters(errors) == \A code \in Reasons : Copies(errors, code) \in Nat

\* An event that is neither a report nor an alarm of the TR 101 290 engine, nor
\* - where breaks is FALSE - of an ad break.
Quiet(ev, breaks) ==
  /\ ev.type # "Tr101290"
  /\ ev.type = "Finding" => ev.reason \cap Reasons = {}
  /\ breaks \/ ev.type # "AdBreak"

\* The fields that the properties look at.
Alike(a, b, breaks) ==
  /\ SnapShape(b) /\ b.p1 = a.p1 /\ b.p2 = a.p2
  /\ \A code \in Reasons : Copies(b.errors, code) = Copies(a.errors, code)
  /\ breaks \/ b.adActive = a.adActive

\* A reason is counted once for each finding that has it.
LEMMA CopiesAdd ==
  ASSUME NEW errors, NEW reasons, NEW code, Copies(errors, code) \in Nat
  PROVE  Copies(errors (+) SetToBag(reasons), code)
           = Copies(errors, code) + (IF code \in reasons THEN 1 ELSE 0)
<1> DEFINE one == SetToBag(reasons)
           both == errors (+) one
<1>1. DOMAIN one = reasons /\ \A x \in reasons : one[x] = 1
  BY DEF SetToBag
<1> HIDE DEF one
<1>2. /\ DOMAIN both = DOMAIN errors \cup DOMAIN one
      /\ \A x \in DOMAIN both :
           both[x] = (IF x \in DOMAIN errors THEN errors[x] ELSE 0)
                     + (IF x \in DOMAIN one THEN one[x] ELSE 0)
  BY DEF (+)
<1> HIDE DEF both
<1>3. PICK n, m : n = Copies(errors, code) /\ m = IF code \in reasons THEN 1 ELSE 0
  OBVIOUS
<1>4. n \in Nat /\ n = (IF code \in DOMAIN errors THEN errors[code] ELSE 0)
  BY <1>3 DEF Copies
<1>5. CASE code \in DOMAIN both
  <2>1. both[code] = n + m
    BY <1>1, <1>2, <1>3, <1>4, <1>5
  <2> QED
    BY <1>3, <1>5, <2>1 DEF Copies, both, one
<1>6. CASE code \notin DOMAIN both
  <2>1. n = 0 /\ m = 0
    BY <1>1, <1>2, <1>3, <1>4, <1>6
  <2> QED
    BY <1>3, <1>6, <2>1 DEF Copies, both, one
<1> QED
  BY <1>5, <1>6

LEMMA FindingCounts ==
  ASSUME NEW s, SnapShape(s), Counters(s.errors), NEW ev, ev.type = "Finding"
  PROVE  LET t == UpdateMetrics(s, ev)
         IN  /\ SnapShape(t) /\ t.p1 = s.p1 /\ t.p2 = s.p2 /\ t.adActive = s.adActive
             /\ \A code \in Reasons :
                  Copies(t.errors, code)
                    = Copies(s.errors, code) + (IF code \in ev.reason THEN 1 ELSE 0)
<1>1. PICK stalls, errors : /\ stalls = s.stalls + Flag(ev.category = "stalling")
                            /\ errors = s.errors (+) SetToBag(ev.reason)
  OBVIOUS
<1> DEFINE t == [s EXCEPT !.stalls = stalls, !.errors = errors]
<1>2. UpdateMetrics(s, ev) = t
  BY <1>1 DEF UpdateMetrics
<1>3. /\ SnapShape(t) /\ t.p1 = s.p1 /\ t.p2 = s.p2 /\ t.adActive = s.adActive
      /\ t.errors = errors
  BY DEF SnapShape
<1> HIDE DEF t
<1>4. ASSUME NEW code \in Reasons
      PROVE  Copies(t.errors, code)
               = Copies(s.errors, code) + (IF code \in ev.reason THEN 1 ELSE 0)
  BY <1>1, <1>3, CopiesAdd DEF Counters
<1> QED
  BY <1>2, <1>3, <1>4

\* Nothing that the properties look at is touched.
Untouched(a, b) == /\ SnapShape(b) /\ b.p1 = a.p1 /\ b.p2 = a.p2 /\ b.errors = a.errors
                   /\ b.adActive = a.adActive

LEMMA QuicUntouched ==
  ASSUME NEW s, NEW r, Untouched(s, r), NEW quic
  PROVE  Untouched(s, OfQuic(r, quic))
<1> DEFINE t == OfQuic(r, quic)
<1>1. PICK x, y : t = [r EXCEPT !.handshake = x, !.resets = y]
  BY DEF OfQuic
<1> HIDE DEF t
<1>2. SnapShape(t) /\ t.p1 = r.p1 /\ t.p2 = r.p2 /\ t.errors = r.errors /\ t.adActive = r.adActive
  BY <1>1 DEF Untouched, SnapShape
<1>3. Untouched(s, t)
  BY <1>2 DEF Untouched
<1> QED
  BY <1>3 DEF t

LEMMA SegmentUntouched ==
  ASSUME NEW s, SnapShape(s), NEW ev
  PROVE  Untouched(s, OfSegment(s, ev))
<1> DEFINE r == [s EXCEPT
                   !.ttfb     = ev.ttfb,
                   !.ttfbHist = ObserveHist(@, TtfbBuckets, ev.ttfb),
                   !.ratio    = OrElse(ev.ratio, @),
                   !.doh      = OrElse(ev.doh, @),
                   !.version  = OrElse(ev.version, @),
                   !.latency  = OrElse(ev.latency, @),
                   !.fps      = OrElse(Positive(ev.fps), @)]
<1>1. Untouched(s, r)
  BY DEF SnapShape, Untouched
<1>2. OfSegment(s, ev) = OfQuic(r, ev.quic)
  BY DEF OfSegment
<1> HIDE DEF r
<1> QED
  BY <1>1, <1>2, QuicUntouched

LEMMA QuietUpdate ==
  ASSUME NEW s, SnapShape(s), Counters(s.errors), NEW breaks \in BOOLEAN, NEW ev, Quiet(ev, breaks)
  PROVE  Alike(s, UpdateMetrics(s, ev), breaks)
<1> DEFINE t == UpdateMetrics(s, ev)
<1>0. ASSUME Untouched(s, t) PROVE Alike(s, t, breaks)
  BY <1>0 DEF Alike, Untouched
<1>1. CASE ev.type = "Finding"
  <2>1. /\ SnapShape(t) /\ t.p1 = s.p1 /\ t.p2 = s.p2 /\ t.adActive = s.adActive
        /\ \A code \in Reasons :
             Copies(t.errors, code) = Copies(s.errors, code) + (IF code \in ev.reason THEN 1 ELSE 0)
    BY <1>1, FindingCounts
  <2> HIDE DEF t
  <2>2. \A code \in Reasons : code \notin ev.reason
    BY <1>1 DEF Quiet
  <2>3. \A code \in Reasons : Copies(t.errors, code) = Copies(s.errors, code)
    BY <2>1, <2>2 DEF Counters
  <2> QED
    BY <2>1, <2>3 DEF Alike, t
<1>2. CASE ev.type = "AdBreak"
  <2>1. t = [s EXCEPT !.adActive = Flag(ev.active)]
    BY <1>2 DEF UpdateMetrics
  <2>2. SnapShape(t) /\ t.p1 = s.p1 /\ t.p2 = s.p2 /\ t.errors = s.errors
    BY <2>1 DEF SnapShape
  <2> QED
    BY <1>2, <2>2 DEF Alike, Quiet
<1>4. ASSUME NEW a
      PROVE  /\ Untouched(s, [s EXCEPT !.httpErrors = a]) /\ Untouched(s, [s EXCEPT !.health = a])
             /\ Untouched(s, [s EXCEPT !.partRatio = a]) /\ Untouched(s, [s EXCEPT !.latency = a])
             /\ Untouched(s, [s EXCEPT !.g2g = a]) /\ Untouched(s, [s EXCEPT !.adMismatch = a])
             /\ Untouched(s, [s EXCEPT !.inband = a]) /\ Untouched(s, [s EXCEPT !.mismatch = a])
             /\ Untouched(s, [s EXCEPT !.version = a])
  BY DEF SnapShape, Untouched
<1>5. CASE ev.type \in {"Health", "LlHlsPart", "Latency", "G2g", "AdMarkerMismatch",
                        "InbandAdEvent", "Mismatch"}
  <2>1. PICK a : t \in {[s EXCEPT !.health = a], [s EXCEPT !.partRatio = a],
                        [s EXCEPT !.latency = a], [s EXCEPT !.g2g = a],
                        [s EXCEPT !.adMismatch = a], [s EXCEPT !.inband = a],
                        [s EXCEPT !.mismatch = a]}
    BY <1>5 DEF UpdateMetrics
  <2> HIDE DEF t
  <2> QED
    BY <1>0, <1>4, <2>1 DEF t
<1>6. CASE ev.type \in {"Error", "Status"}
  <2>1. PICK a : t \in {s, [s EXCEPT !.httpErrors = a]}
    BY <1>6 DEF UpdateMetrics, CountStatus
  <2>2. Untouched(s, s)
    BY DEF Untouched
  <2> HIDE DEF t
  <2> QED
    BY <1>0, <1>4, <2>1, <2>2 DEF t
<1>7. CASE ev.type = "Segment"
  <2>1. t = OfSegment(s, ev)
    BY <1>7 DEF UpdateMetrics
  <2> QED
    BY <1>0, <2>1, SegmentUntouched
<1>8. CASE ev.type = "Transport"
  <2> DEFINE r == [s EXCEPT !.version = OrElse(ev.version, @)]
  <2>1. t = OfQuic(r, ev.quic)
    BY <1>8 DEF UpdateMetrics
  <2>2. Untouched(s, r)
    BY DEF SnapShape, Untouched
  <2> HIDE DEF r
  <2> QED
    BY <1>0, <2>1, <2>2, QuicUntouched
<1>9. CASE ev.type = "Variants"
  <2>1. PICK a, b : t = [s EXCEPT !.fps = a, !.mismatch = b]
    BY <1>9 DEF UpdateMetrics, OfVariants
  <2>2. Untouched(s, t)
    BY <2>1 DEF SnapShape, Untouched
  <2> QED
    BY <1>0, <2>2
<1>10. CASE ev.type = "CdnStats"
  <2>1. PICK a, b, c : t = [s EXCEPT !.hits = a, !.misses = b, !.provider = c]
    BY <1>10 DEF UpdateMetrics
  <2>2. Untouched(s, t)
    BY <2>1 DEF SnapShape, Untouched
  <2> QED
    BY <1>0, <2>2
<1>11. CASE ev.type = "Buffer"
  <2>1. PICK a, b, c : t = [s EXCEPT !.buffer = a, !.rebuffer = b, !.stallRisk = c]
    BY <1>11 DEF UpdateMetrics
  <2>2. Untouched(s, t)
    BY <2>1 DEF SnapShape, Untouched
  <2> QED
    BY <1>0, <2>2
<1>12. CASE ev.type = "PlaylistMeta"
  <2>1. PICK a, b, c, d : t = [s EXCEPT !.ll = a, !.partHist = b, !.drmHist = c, !.lastDrm = d]
    BY <1>12 DEF UpdateMetrics, OfPlaylist
  <2>2. Untouched(s, t)
    BY <2>1 DEF SnapShape, Untouched
  <2> QED
    BY <1>0, <2>2
<1>13. CASE ev.type \notin {"Finding", "AdBreak", "Health", "LlHlsPart", "Latency", "G2g",
                            "AdMarkerMismatch", "InbandAdEvent", "Mismatch", "Error", "Status",
                            "Segment", "Transport", "Variants", "CdnStats", "Buffer",
                            "PlaylistMeta"}
  <2>1. t = s
    BY <1>13 DEF UpdateMetrics, Quiet
  <2>2. Untouched(s, s)
    BY DEF Untouched
  <2> HIDE DEF t
  <2> QED
    BY <1>0, <2>1, <2>2 DEF t
<1> QED
  BY <1>1, <1>2, <1>5, <1>6, <1>7, <1>8, <1>9, <1>10, <1>11, <1>12, <1>13

\* Lists of such events.
EventList(s, breaks) == Listed(s) /\ \A i \in DOMAIN s : Quiet(s[i], breaks)

LEMMA EventNone == ASSUME NEW breaks PROVE EventList(<< >>, breaks)
<1>1. DOMAIN << >> = {}
  OBVIOUS
<1> QED
  BY <1>1, ListedNone DEF EventList

LEMMA EventOne == ASSUME NEW breaks, NEW x, Quiet(x, breaks) PROVE EventList(<<x>>, breaks)
<1>1. <<x>> \in Seq({x}) /\ Len(<<x>>) = 1 /\ \A i \in DOMAIN <<x>> : <<x>>[i] = x
  OBVIOUS
<1> QED
  BY <1>1 DEF EventList, Listed

LEMMA EventJoin ==
  ASSUME NEW breaks, NEW s, NEW t, EventList(s, breaks), EventList(t, breaks)
  PROVE  EventList(s \o t, breaks)
<1>1. PICK m, n \in Nat : m = Len(s) /\ n = Len(t)
  BY ListedLen DEF EventList
<1>2. DOMAIN s = 1..m /\ DOMAIN t = 1..n
  BY <1>1, ListedLen DEF EventList
<1>3. /\ DOMAIN (s \o t) = 1..(m + n)
      /\ \A i \in 1..m : (s \o t)[i] = s[i]
      /\ \A i \in (m + 1)..(m + n) : (s \o t)[i] = t[i - m]
  BY ListedJoins, <1>1 DEF EventList
<1>4. ASSUME NEW i \in 1..(m + n) PROVE Quiet((s \o t)[i], breaks)
  <2>1. CASE i \in 1..m
    BY <1>2, <1>3, <2>1 DEF EventList
  <2>2. CASE i \notin 1..m
    <3>1. i \in (m + 1)..(m + n) /\ i - m \in 1..n
      BY <1>1, <2>2
    <3> QED
      BY <1>2, <1>3, <3>1 DEF EventList
  <2> QED
    BY <2>1, <2>2
<1> QED
  BY <1>3, <1>4, ListedJoin DEF EventList

LEMMA EventPair ==
  ASSUME NEW breaks, NEW x, NEW y, Quiet(x, breaks), Quiet(y, breaks)
  PROVE  EventList(<<x, y>>, breaks)
<1>1. <<x, y>> \in Seq({x, y}) /\ \A i \in DOMAIN <<x, y>> : <<x, y>>[i] \in {x, y}
  OBVIOUS
<1> QED
  BY <1>1 DEF EventList, Listed

LEMMA EventMap ==
  ASSUME NEW breaks, NEW n \in Nat, NEW f, f = [i \in 1..n |-> f[i]],
         \A i \in 1..n : Quiet(f[i], breaks)
  PROVE  EventList(f, breaks)
<1>1. DOMAIN f = 1..n
  OBVIOUS
<1> QED
  BY <1>1, ListedMap DEF EventList

LEMMA EventMany ==
  ASSUME NEW breaks, NEW n \in Nat, NEW x, Quiet(x, breaks)
  PROVE  EventList([i \in 1..n |-> x], breaks)
<1> DEFINE f == [i \in 1..n |-> x]
<1>1. f = [i \in 1..n |-> f[i]] /\ \A i \in 1..n : Quiet(f[i], breaks)
  OBVIOUS
<1> HIDE DEF f
<1>2. EventList(f, breaks)
  BY <1>1, EventMap
<1> QED
  BY <1>2 DEF f

\* A list of events leaves what the properties look at.
LEMMA QuietRun ==
  ASSUME NEW s, SnapShape(s), Counters(s.errors), NEW breaks \in BOOLEAN,
         NEW events, EventList(events, breaks)
  PROVE  Alike(s, UpdateAll(s, events), breaks)
<1>1. PICK n \in Nat : DOMAIN events = 1..n
  BY ListedLen DEF EventList
<1>2. PICK f : Runs("metrics", 0, s, events, n, f) /\ f[n] = UpdateAll(s, events)
  BY <1>1, UpdateAllRuns
<1> DEFINE T == {k \in 0..n : Alike(s, f[k], breaks)}
<1>3. 0 \in T
  BY <1>2 DEF Runs, Alike
<1>4. ASSUME NEW k \in 1..n, k - 1 \in T PROVE k \in T
  <2>1. PICK a, b : a = f[k - 1] /\ b = UpdateMetrics(a, events[k])
    OBVIOUS
  <2>2. f[k] = b
    BY <1>2, <2>1 DEF Runs, Turn
  <2>3. Alike(s, a, breaks)
    BY <1>4, <2>1
  <2>4. SnapShape(a) /\ Counters(a.errors)
    BY <2>3 DEF Alike, Counters
  <2>5. Quiet(events[k], breaks)
    BY <1>1 DEF EventList
  <2>6. Alike(a, b, breaks)
    BY <2>1, <2>4, <2>5, QuietUpdate
  <2>7. Alike(s, b, breaks)
    BY <2>3, <2>6 DEF Alike
  <2> QED
    BY <2>2, <2>7
<1> HIDE DEF T
<1>5. \A k \in 0..n : k \in T
  BY <1>3, <1>4, Upward
<1> QED
  BY <1>2, <1>5 DEF T

\* A list after a list is a run after a run.
LEMMA UpdateAllJoin ==
  ASSUME NEW s, NEW x, NEW y, Listed(x), Listed(y)
  PROVE  UpdateAll(s, x \o y) = UpdateAll(UpdateAll(s, x), y)
<1>1. PICK m, n : m = Len(x) /\ n = Len(y)
  OBVIOUS
<1> DEFINE z == x \o y
<1>2. /\ m \in Nat /\ n \in Nat /\ DOMAIN x = 1..m /\ DOMAIN y = 1..n /\ DOMAIN z = 1..(m + n)
      /\ \A i \in 1..m : z[i] = x[i]
      /\ \A i \in (m + 1)..(m + n) : z[i] = y[i - m]
  BY <1>1, ListedLen, ListedJoins
<1> HIDE DEF z
<1>3. PICK f : Runs("metrics", 0, s, z, m + n, f) /\ f[m + n] = UpdateAll(s, z)
  BY <1>2, UpdateAllRuns
<1>4. PICK g : Runs("metrics", 0, s, x, m, g) /\ g[m] = UpdateAll(s, x)
  BY <1>2, UpdateAllRuns
<1>5. \A k \in 0..m : f[k] = g[k]
  <2> DEFINE T == {k \in 0..m : f[k] = g[k]}
  <2>1. 0 \in T
    BY <1>2, <1>3, <1>4 DEF Runs
  <2>2. ASSUME NEW k \in 1..m, k - 1 \in T PROVE k \in T
    <3>1. f[k - 1] = g[k - 1] /\ k \in 1..(m + n) /\ z[k] = x[k]
      BY <1>2, <2>2
    <3> QED
      BY <1>3, <1>4, <3>1 DEF Runs
  <2> HIDE DEF T
  <2>3. \A k \in 0..m : k \in T
    BY <1>2, <2>1, <2>2, Upward
  <2> QED
    BY <2>3 DEF T
<1>6. f[m] = UpdateAll(s, x)
  BY <1>2, <1>4, <1>5
<1>7. PICK h : Runs("metrics", 0, f[m], y, n, h) /\ h[n] = UpdateAll(f[m], y)
  BY <1>2, UpdateAllRuns
<1>8. \A k \in 0..n : f[m + k] = h[k]
  <2> DEFINE T == {k \in 0..n : f[m + k] = h[k]}
  <2>1. 0 \in T
    BY <1>2, <1>7 DEF Runs
  <2>2. ASSUME NEW k \in 1..n, k - 1 \in T PROVE k \in T
    <3>1. f[m + (k - 1)] = h[k - 1]
      BY <2>2
    <3>2. m + k \in 1..(m + n) /\ (m + k) - 1 = m + (k - 1) /\ z[m + k] = y[k]
      <4>1. m + k \in (m + 1)..(m + n) /\ (m + k) - m = k /\ (m + k) - 1 = m + (k - 1)
        BY <1>2
      <4> QED
        BY <1>2, <4>1
    <3>3. f[m + k] = Turn("metrics", 0, f[m + (k - 1)], y[k])
      BY <1>3, <3>2 DEF Runs
    <3> QED
      BY <1>7, <3>1, <3>3 DEF Runs
  <2> HIDE DEF T
  <2>3. \A k \in 0..n : k \in T
    BY <1>2, <2>1, <2>2, Upward
  <2> QED
    BY <2>3 DEF T
<1>9. UpdateAll(s, z) = UpdateAll(f[m], y)
  BY <1>2, <1>3, <1>7, <1>8
<1> QED
  BY <1>6, <1>9 DEF z

LEMMA AlikeOnward ==
  ASSUME NEW a, NEW b, NEW breaks \in BOOLEAN, Alike(a, b, breaks), Counters(a.errors)
  PROVE  SnapShape(b) /\ Counters(b.errors)
  BY DEF Alike, Counters

-----------------------------------------------------------------------------
(* How many lines there are                                                 *)

LEMMA CountOfPart ==
  ASSUME NEW n \in Nat, NEW S, S \subseteq 1..n
  PROVE  IsFiniteSet(S) /\ Cardinality(S) \in Nat
<1>1. IsFiniteSet(1..n)
  BY FS_Interval
<1>2. IsFiniteSet(S)
  BY <1>1, FS_Subset
<1> QED
  BY <1>2, FS_CardinalityType

\* A set that is written out.
LEMMA FewAreFinite ==
  ASSUME NEW a, NEW b, NEW c, NEW d, NEW e, NEW f
  PROVE  IsFiniteSet({a, b, c, d, e, f})
<1>0. \A S, x : IsFiniteSet(S) => IsFiniteSet(S \cup {x})
  BY FS_AddElement
<1>1. IsFiniteSet({} \cup {a})
  BY <1>0, FS_EmptySet
<1>2. IsFiniteSet((({} \cup {a}) \cup {b}) \cup {c})
  BY <1>0, <1>1
<1>3. IsFiniteSet((((({} \cup {a}) \cup {b}) \cup {c}) \cup {d}) \cup {e})
  BY <1>0, <1>2
<1>4. IsFiniteSet(((((({} \cup {a}) \cup {b}) \cup {c}) \cup {d}) \cup {e}) \cup {f})
  BY <1>0, <1>3
<1>5. (((((({} \cup {a}) \cup {b}) \cup {c}) \cup {d}) \cup {e}) \cup {f}) = {a, b, c, d, e, f}
  OBVIOUS
<1> QED
  BY <1>4, <1>5

LEMMA SameLadCard == \A S : Lad!Cardinality(S) = Cardinality(S)
  BY DEF Lad!Cardinality, Cardinality

LEMMA FindingsListed ==
  ASSUME NEW variants, Listed(variants), NEW audio
  PROVE  Listed(Lad!AlignmentFindings(variants, audio))
<1> DEFINE Poor(v) == v.bandwidth > 0 /\ v.bandwidth < 1500 /\ \E h \in v.height : h >= 1080
           poor == {i \in 1..Len(variants) : Poor(variants[i])}
           n == Lad!Cardinality(poor)
           many == [i \in 1..n |-> "ABR_BW_RES_MISMATCH"]
<1>1. n \in Nat
  BY ListedLen, CountOfPart, SameLadCard
<1>2. PICK first \in {<<"ABR_AUDIO_MISSING">>, << >>} :
        Lad!AlignmentFindings(variants, audio) = first \o many
  BY DEF Lad!AlignmentFindings
<1>3. Listed(first)
  BY <1>2, ListedOne, ListedNone
<1> HIDE DEF n
<1>4. many = [i \in 1..n |-> many[i]]
  OBVIOUS
<1> HIDE DEF many
<1>5. Listed(many)
  BY <1>1, <1>4, ListedMap
<1> QED
  BY <1>2, <1>3, <1>5, ListedJoin

LEMMA VariantsListed ==
  ASSUME NEW streams, IsList(streams)
  PROVE  Listed(Lad!CollectVariants(streams))
<1> DEFINE Repeated(i) == \E j \in 1..(i - 1) : ~streams[j].iframe /\ streams[j].uri = streams[i].uri
           kept == {i \in 1..Len(streams) : ~streams[i].iframe /\ ~Repeated(i)}
           n == Lad!Cardinality(kept)
           v == Lad!CollectVariants(streams)
<1>1. n \in Nat
  BY CountOfPart, SameLadCard DEF IsList
<1>2. v = [i \in 1..n |-> v[i]]
  BY DEF Lad!CollectVariants
<1> HIDE DEF n, v
<1>3. Listed(v)
  BY <1>1, <1>2, ListedMap
<1> QED
  BY <1>3 DEF v

LEMMA LinesCount ==
  ASSUME NEW variants, NEW wire
  PROVE  Lad!WireLines(variants, wire) \in Nat
<1> DEFINE S == Lad!WireMismatches(variants[Lad!Chosen(variants)], wire)
<1>1. S \subseteq {"resolution", "fps", "codec"}
  BY DEF Lad!WireMismatches
<1>2. IsFiniteSet({"resolution", "fps", "codec"})
  <2>1. IsFiniteSet({"resolution", "fps", "codec", "codec", "codec", "codec"})
    BY FewAreFinite
  <2> QED
    BY <2>1
<1> HIDE DEF S
<1>3. Cardinality(S) \in Nat
  BY <1>1, <1>2, FS_Subset, FS_CardinalityType
<1> QED
  BY <1>3, SameLadCard DEF Lad!WireLines, S

LEMMA MismatchesCount ==
  ASSUME NEW active, NEW wire, IsList(wire.emsg)
  PROVE  /\ Cardinality(Mismatches(active, wire)) \in Nat
         /\ Cardinality(InbandEvents(wire)) \in Nat
<1> DEFINE n == Len(wire.emsg)
           rules == {"DAI_MANIFEST_WITHOUT_BINARY", "DAI_BINARY_WITHOUT_MANIFEST",
                     "DAI_DURATION_DRIFT", "DAI_PTS_DRIFT", "DAI_INBAND_WITHOUT_MANIFEST",
                     "DAI_MANIFEST_WITHOUT_INBAND"}
<1>1. n \in Nat /\ InbandEvents(wire) \subseteq 1..n
  BY DEF InbandEvents, IsList
<1>2. Mismatches(active, wire) \subseteq (0..n) \X rules
  <2>1. \A ad : Alignment(ad, wire) \subseteq rules
    BY DEF Alignment
  <2>2. \A ad, i : Inband(ad, wire.emsg[i]) \subseteq rules
    BY DEF Inband
  <2>3. InbandEvents(wire) \subseteq 0..n /\ 0 \in 0..n
    BY <1>1
  <2> HIDE DEF rules, n
  <2> QED
    BY <2>1, <2>2, <2>3 DEF Mismatches
<1>3. IsFiniteSet(0..n) /\ IsFiniteSet(rules)
  <2>1. IsFiniteSet(0..n)
    BY <1>1, FS_Interval
  <2> QED
    BY <2>1, FewAreFinite
<1> HIDE DEF rules, n
<1>4. IsFiniteSet((0..n) \X rules)
  BY <1>3, FS_Product
<1> QED
  BY <1>1, <1>2, <1>4, FS_Subset, FS_CardinalityType, CountOfPart

-----------------------------------------------------------------------------
(* The breaks that a playlist or an MPD tells                               *)

\* A CUE-IN is never active; where cues alone tell the breaks, all else is.
Break(ad, cues) == /\ ad.kind = "CUE-IN" => ~ad.active
                   /\ cues => ad.active \/ ad.kind = "CUE-IN"
Breaks(list, cues) == Listed(list) /\ \A i \in DOMAIN list : Break(list[i], cues)

LEMMA BreaksJoin ==
  ASSUME NEW cues, NEW s, NEW t, Breaks(s, cues), Breaks(t, cues)
  PROVE  Breaks(s \o t, cues)
<1>1. PICK m, n \in Nat : m = Len(s) /\ n = Len(t)
  BY ListedLen DEF Breaks
<1>2. DOMAIN s = 1..m /\ DOMAIN t = 1..n
  BY <1>1, ListedLen DEF Breaks
<1>3. /\ DOMAIN (s \o t) = 1..(m + n)
      /\ \A i \in 1..m : (s \o t)[i] = s[i]
      /\ \A i \in (m + 1)..(m + n) : (s \o t)[i] = t[i - m]
  BY ListedJoins, <1>1 DEF Breaks
<1>4. ASSUME NEW i \in 1..(m + n) PROVE Break((s \o t)[i], cues)
  <2>1. CASE i \in 1..m
    BY <1>2, <1>3, <2>1 DEF Breaks
  <2>2. CASE i \notin 1..m
    <3>1. i \in (m + 1)..(m + n) /\ i - m \in 1..n
      BY <1>1, <2>2
    <3> QED
      BY <1>2, <1>3, <3>1 DEF Breaks
  <2> QED
    BY <2>1, <2>2
<1> QED
  BY <1>3, <1>4, ListedJoin DEF Breaks

LEMMA BreaksFew ==
  /\ \A cues : Breaks(<< >>, cues)
  /\ \A cues, ad : Break(ad, cues) => Breaks(<<ad>>, cues)
<1>1. ASSUME NEW cues PROVE Breaks(<< >>, cues)
  <2>1. DOMAIN << >> = {}
    OBVIOUS
  <2> QED
    BY <2>1, ListedNone DEF Breaks
<1>2. ASSUME NEW cues, NEW ad, Break(ad, cues) PROVE Breaks(<<ad>>, cues)
  <2>1. <<ad>> \in Seq({ad}) /\ \A i \in DOMAIN <<ad>> : <<ad>>[i] = ad
    OBVIOUS
  <2> QED
    BY <1>2, <2>1 DEF Breaks, Listed
<1> QED
  BY <1>1, <1>2

LEMMA SectionKeepsKind ==
  ASSUME NEW info, {"kind", "binary", "active"} \subseteq DOMAIN info, NEW sections
  PROVE  OfSection(info, sections).kind = info.kind
<1>1. ASSUME NEW x, NEW y, NEW z
      PROVE  LET d == [info EXCEPT !.planned = x, !.id = y, !.active = z]
             IN  d.kind = info.kind /\ DOMAIN d = DOMAIN info
  OBVIOUS
<1>2. ASSUME NEW d, DOMAIN d = DOMAIN info, d.kind = info.kind, NEW z
      PROVE  [d EXCEPT !.binary = sections, !.active = z].kind = info.kind
  BY <1>2
<1>3. PICK x, y, z, w, d :
        /\ d = info \/ d = [info EXCEPT !.planned = x, !.id = y, !.active = z]
        /\ OfSection(info, sections) \in {info, [d EXCEPT !.binary = sections, !.active = w]}
  BY Zenon DEF OfSection
<1>4. DOMAIN d = DOMAIN info /\ d.kind = info.kind
  BY <1>1, <1>3
<1>5. [d EXCEPT !.binary = sections, !.active = w].kind = info.kind
  BY <1>2, <1>4
<1> QED
  BY <1>3, <1>5

LEMMA SignalIs ==
  ASSUME NEW tag, NEW at
  PROVE  \/ Signal(tag, at) = << >>
         \/ \E left, open :
              \/ /\ tag.kind \in {"CUE-OUT", "CUE-OUT-CONT"}
                 /\ Signal(tag, at) = <<AdInfo(tag.kind, {}, tag.planned, left, TRUE)>>
              \/ /\ tag.kind = "CUE-IN"
                 /\ Signal(tag, at) = <<AdInfo("CUE-IN", {}, {}, {0}, FALSE)>>
              \/ /\ tag.kind = "SCTE35"
                 /\ Signal(tag, at) =
                      <<OfSection(AdInfo("SCTE35", {}, {}, {}, TRUE), Sections(tag))>>
              \/ /\ tag.kind = "DATERANGE"
                 /\ Signal(tag, at) =
                      <<[AdInfo("DATERANGE", tag.id, tag.planned, left, open)
                           EXCEPT !.binary = Sections(tag)]>>
  BY DEF Signal

LEMMA SignalTells ==
  ASSUME NEW tag, NEW at, NEW cues \in BOOLEAN, cues => tag.kind \in Cues
  PROVE  Breaks(Signal(tag, at), cues)
<1> DEFINE list == Signal(tag, at)
<1>1. CASE list = << >>
  BY <1>1, BreaksFew
<1>2. CASE list # << >>
  <2>1. PICK ad : /\ list = <<ad>> /\ ad.kind = tag.kind
                  /\ tag.kind \in {"CUE-OUT", "CUE-OUT-CONT", "CUE-IN", "SCTE35", "DATERANGE"}
                  /\ tag.kind \in {"CUE-OUT", "CUE-OUT-CONT"} => ad.active = TRUE
                  /\ tag.kind = "CUE-IN" => ad.active = FALSE
    <3>1. PICK left, open :
              \/ /\ tag.kind \in {"CUE-OUT", "CUE-OUT-CONT"}
                 /\ list = <<AdInfo(tag.kind, {}, tag.planned, left, TRUE)>>
              \/ /\ tag.kind = "CUE-IN"
                 /\ list = <<AdInfo("CUE-IN", {}, {}, {0}, FALSE)>>
              \/ /\ tag.kind = "SCTE35"
                 /\ list = <<OfSection(AdInfo("SCTE35", {}, {}, {}, TRUE), Sections(tag))>>
              \/ /\ tag.kind = "DATERANGE"
                 /\ list = <<[AdInfo("DATERANGE", tag.id, tag.planned, left, open)
                               EXCEPT !.binary = Sections(tag)]>>
      BY <1>2, SignalIs
    <3> HIDE DEF list
    <3>2. PICK ad : list = <<ad>>
      BY <3>1
    <3>3. CASE tag.kind \in {"CUE-OUT", "CUE-OUT-CONT"}
      <4>1. ad = AdInfo(tag.kind, {}, tag.planned, left, TRUE)
        BY <3>1, <3>2, <3>3
      <4>2. ad.kind = tag.kind /\ ad.active = TRUE
        BY <4>1 DEF AdInfo
      <4> QED
        BY <3>2, <3>3, <4>2
    <3>4. CASE tag.kind = "CUE-IN"
      <4>1. ad = AdInfo("CUE-IN", {}, {}, {0}, FALSE)
        BY <3>1, <3>2, <3>4
      <4>2. ad.kind = "CUE-IN" /\ ad.active = FALSE
        BY <4>1 DEF AdInfo
      <4> QED
        BY <3>2, <3>4, <4>2
    <3>5. CASE tag.kind = "SCTE35"
      <4>1. PICK info : info = AdInfo("SCTE35", {}, {}, {}, TRUE)
        OBVIOUS
      <4>2. info.kind = "SCTE35" /\ {"kind", "binary", "active"} \subseteq DOMAIN info
        BY <4>1 DEF AdInfo
      <4>3. ad = OfSection(info, Sections(tag))
        BY <3>1, <3>2, <3>5, <4>1
      <4>4. ad.kind = "SCTE35"
        BY <4>2, <4>3, SectionKeepsKind
      <4> QED
        BY <3>2, <3>5, <4>4
    <3>6. CASE tag.kind = "DATERANGE"
      <4>1. ad = [AdInfo("DATERANGE", tag.id, tag.planned, left, open) EXCEPT !.binary = Sections(tag)]
        BY <3>1, <3>2, <3>6
      <4>2. ad.kind = "DATERANGE"
        BY <4>1 DEF AdInfo
      <4> QED
        BY <3>2, <3>6, <4>2
    <3> QED
      BY <3>1, <3>3, <3>4, <3>5, <3>6
  <2> HIDE DEF list
  <2>2. Break(ad, cues)
    BY <2>1 DEF Break, Cues
  <2> QED
    BY <2>1, <2>2, BreaksFew DEF list
<1> QED
  BY <1>1, <1>2

LEMMA SignalsTell ==
  ASSUME NEW items, IsList(items), NEW at, NEW cues \in BOOLEAN,
         cues => \A i \in DOMAIN items : items[i].kind \in Cues
  PROVE  Breaks(ExtractSignals(items, at), cues)
<1> DEFINE n == Len(items)
           places == [i \in 1..n |-> i]
           c == [items |-> items, now |-> at]
           Scan(list, i) == ScanItem(list, items, i, at)
           Fold(g) == g = [s \in SUBSET (1..n) |->
                             IF s = {} THEN << >> ELSE Scan(g[s \ {Max(s)}], places[Max(s)])]
           h == CHOOSE g : Fold(g)
<1>1. n \in Nat /\ DOMAIN items = 1..n /\ DOMAIN places = 1..n /\ \A i \in 1..n : places[i] = i
  BY DEF IsList
<1>2. Len(places) = n
  BY <1>1
<1>3. ExtractSignals(items, at) = h[1..n]
  BY <1>1, <1>2 DEF ExtractSignals, FoldLeft, MapThenFoldSet
<1>4. /\ c.items = items /\ c.now = at
      /\ \A g : Fold(g) <=> Folds("scan", c, << >>, places, 1..n, g)
  BY DEF Folds, Turn
<1> HIDE DEF Fold, n, c, places
<1>5. Folds("scan", c, << >>, places, 1..n, h)
  BY <1>1, <1>4, FoldsExist
<1> HIDE DEF h
<1>6. PICK f : Runs("scan", c, << >>, places, n, f) /\ f[n] = h[1..n]
  BY <1>1, <1>5, FoldsRun
<1> DEFINE T == {k \in 0..n : Breaks(f[k], cues)}
<1>7. 0 \in T
  BY <1>1, <1>6, BreaksFew DEF Runs
<1>8. ASSUME NEW k \in 1..n, k - 1 \in T PROVE k \in T
  <2>1. f[k] = ScanItem(f[k - 1], items, k, at)
    BY <1>1, <1>4, <1>6 DEF Runs, Turn
  <2>2. f[k] = f[k - 1] \/ f[k] = f[k - 1] \o Signal(items[k], at)
    BY <2>1 DEF ScanItem
  <2>3. Breaks(Signal(items[k], at), cues)
    BY <1>1, SignalTells
  <2>4. Breaks(f[k - 1], cues)
    BY <1>8
  <2> QED
    <3>1. Breaks(f[k], cues)
      BY <2>2, <2>3, <2>4, BreaksJoin
    <3> QED
      BY <1>1, <3>1
<1> HIDE DEF T
<1>9. \A k \in 0..n : k \in T
  BY <1>1, <1>7, <1>8, Upward
<1> QED
  BY <1>1, <1>3, <1>6, <1>9 DEF T

LEMMA DashTells ==
  ASSUME NEW streams, IsList(streams), \A i \in DOMAIN streams : IsList(streams[i].events)
  PROVE  Listed(DashEvents(streams))
<1> DEFINE n == Len(streams)
           Fold(g) == g = [s \in SUBSET (1..n) |->
                             IF s = {} THEN << >>
                             ELSE WithEvents(g[s \ {Max(s)}], streams[Max(s)])]
           h == CHOOSE g : Fold(g)
<1>1. n \in Nat /\ DOMAIN streams = 1..n
  BY DEF IsList
<1>3. DashEvents(streams) = h[1..n]
  BY <1>1 DEF DashEvents, FoldLeft, MapThenFoldSet
<1>4. \A g : Fold(g) <=> Folds("events", 0, << >>, streams, 1..n, g)
  BY DEF Folds, Turn
<1> HIDE DEF Fold, n
<1>5. Folds("events", 0, << >>, streams, 1..n, h)
  BY <1>1, <1>4, FoldsExist
<1> HIDE DEF h
<1>6. PICK f : Runs("events", 0, << >>, streams, n, f) /\ f[n] = h[1..n]
  BY <1>1, <1>5, FoldsRun
<1> DEFINE T == {k \in 0..n : Listed(f[k])}
<1>7. 0 \in T
  BY <1>1, <1>6, ListedNone DEF Runs
<1>8. ASSUME NEW k \in 1..n, k - 1 \in T PROVE k \in T
  <2> DEFINE s == streams[k]
             m == Len(s.events)
             told == [i \in 1..m |->
                       AdInfo("DASH-Event", s.events[i].id, s.events[i].duration,
                              s.events[i].duration, \E d \in s.events[i].duration : d > 0)]
  <2>1. f[k] = WithEvents(f[k - 1], s)
    BY <1>1, <1>6 DEF Runs, Turn
  <2>2. f[k] = f[k - 1] \/ f[k] = f[k - 1] \o told
    BY <2>1 DEF WithEvents
  <2>3. m \in Nat
    BY <1>1 DEF IsList
  <2>4. told = [i \in 1..m |-> told[i]]
    OBVIOUS
  <2> HIDE DEF told, m
  <2>5. Listed(told)
    BY <2>3, <2>4, ListedMap
  <2>6. Listed(f[k - 1])
    BY <1>8
  <2> QED
    <3>1. Listed(f[k])
      BY <2>2, <2>5, <2>6, ListedJoin
    <3> QED
      BY <1>1, <3>1
<1> HIDE DEF T
<1>9. \A k \in 0..n : k \in T
  BY <1>1, <1>7, <1>8, Upward
<1> QED
  BY <1>1, <1>3, <1>6, <1>9 DEF T

-----------------------------------------------------------------------------
(* The gauge and the break that is watched                                  *)

\* An active gauge has a break behind it, which was logged, and where breaks are
\* told by cues alone there is one only while the gauge is active.
Shown(s, kept, cues) ==
  /\ s.adActive = 1 => kept.active # {}
  /\ \A ad \in kept.active : LogKey(ad) \in kept.seen /\ ad.kind # "CUE-IN"
  /\ cues /\ kept.active # {} => s.adActive = 1

LEMMA AdEventsListed ==
  ASSUME NEW list, Listed(list)
  PROVE  /\ EventList(AdEvents(list), TRUE)
         /\ DOMAIN AdEvents(list) = 1..Len(list)
         /\ \A i \in 1..Len(list) :
              AdEvents(list)[i] = [type |-> "AdBreak", active |-> list[i].active]
<1> DEFINE f == AdEvents(list)
<1>1. Len(list) \in Nat
  BY ListedLen
<1>2. /\ DOMAIN f = 1..Len(list) /\ f = [i \in 1..Len(list) |-> f[i]]
      /\ \A i \in 1..Len(list) : f[i] = [type |-> "AdBreak", active |-> list[i].active]
  BY DEF AdEvents
<1> HIDE DEF f
<1>3. \A i \in 1..Len(list) : Quiet(f[i], TRUE)
  BY <1>2 DEF Quiet
<1>4. EventList(f, TRUE)
  BY <1>1, <1>2, <1>3, EventMap
<1> QED
  BY <1>2, <1>4 DEF f

\* CUE-IN is logged under a key that no break of another kind has.
LEMMA CueInKey ==
  ASSUME NEW ad, ad.kind # "CUE-IN"
  PROVE  LogKey(ad) # <<"cue-in", {}>>
<1>1. CASE ad.kind \in {"CUE-OUT", "CUE-OUT-CONT"}
  BY <1>1 DEF LogKey
<1>2. CASE ad.kind \notin {"CUE-OUT", "CUE-OUT-CONT"} /\ ad.id # {}
  BY <1>2 DEF LogKey
<1>3. CASE ad.kind \notin {"CUE-OUT", "CUE-OUT-CONT"} /\ ad.id = {}
  BY <1>3 DEF LogKey
<1> QED
  BY <1>1, <1>2, <1>3

LEMMA NoteShows ==
  ASSUME NEW s, SnapShape(s), NEW kept, NEW cues \in BOOLEAN, Shown(s, kept, cues),
         NEW ad, Break(ad, cues)
  PROVE  Shown(UpdateMetrics(s, [type |-> "AdBreak", active |-> ad.active]),
               NoteAd(kept, ad), cues)
<1> DEFINE t == UpdateMetrics(s, [type |-> "AdBreak", active |-> ad.active])
           note == NoteAd(kept, ad)
<1>1. t.adActive = IF ad.active THEN 1 ELSE 0
  <2>1. t = [s EXCEPT !.adActive = Flag(ad.active)]
    BY DEF UpdateMetrics
  <2> QED
    BY <2>1 DEF SnapShape, Flag
<1> HIDE DEF t
<1>2. PICK old : /\ old = (IF ad.kind \in {"CUE-OUT", "CUE-OUT-CONT"}
                           THEN kept.seen \ {<<"cue-in", {}>>} ELSE kept.seen)
  OBVIOUS
<1>3. PICK left : left = IF ad.kind = "CUE-IN"
                         THEN {k \in old : k[1] \notin {"cont", "out"}} ELSE old
  OBVIOUS
<1>4. note = [seen   |-> left \cup {LogKey(ad)},
              active |-> IF ad.active THEN {ad}
                         ELSE IF ad.kind = "CUE-IN" THEN {} ELSE kept.active]
  BY <1>2, <1>3 DEF NoteAd
<1>5. /\ note.seen = left \cup {LogKey(ad)}
      /\ note.active = IF ad.active THEN {ad}
                       ELSE IF ad.kind = "CUE-IN" THEN {} ELSE kept.active
  BY <1>4
<1> HIDE DEF note
<1>6. ASSUME ad.active PROVE Shown(t, note, cues)
  BY <1>1, <1>5, <1>6 DEF Shown, Break
<1>7. ASSUME ~ad.active, ad.kind = "CUE-IN" PROVE Shown(t, note, cues)
  BY <1>1, <1>5, <1>7 DEF Shown, Break
<1>8. ASSUME ~ad.active, ad.kind # "CUE-IN" PROVE Shown(t, note, cues)
  <2>1. note.active = kept.active /\ t.adActive = 0 /\ ~cues /\ left = old
    BY <1>1, <1>3, <1>5, <1>8 DEF Break
  <2>2. ASSUME NEW a \in kept.active PROVE LogKey(a) \in note.seen /\ a.kind # "CUE-IN"
    <3>1. a.kind # "CUE-IN" /\ LogKey(a) \in kept.seen
      BY DEF Shown
    <3>2. LogKey(a) # <<"cue-in", {}>>
      BY <3>1, CueInKey
    <3>3. LogKey(a) \in old
      BY <1>2, <3>1, <3>2
    <3> QED
      BY <1>5, <2>1, <3>1, <3>3
  <2> QED
    BY <2>1, <2>2 DEF Shown
<1>9. Shown(t, note, cues)
  BY <1>6, <1>7, <1>8
<1> QED
  BY <1>9 DEF t, note

LEMMA NotesShow ==
  ASSUME NEW s, SnapShape(s), Counters(s.errors), NEW kept, NEW cues \in BOOLEAN,
         Shown(s, kept, cues), NEW list, Breaks(list, cues)
  PROVE  Shown(UpdateAll(s, AdEvents(list)), NoteAds(kept, list), cues)
<1>1. PICK n \in Nat : n = Len(list) /\ DOMAIN list = 1..n
  BY ListedLen DEF Breaks
<1>2. PICK events : events = AdEvents(list)
  OBVIOUS
<1>3. /\ EventList(events, TRUE) /\ DOMAIN events = 1..n
      /\ \A i \in 1..n : events[i] = [type |-> "AdBreak", active |-> list[i].active]
  BY <1>1, <1>2, AdEventsListed DEF Breaks
<1>4. PICK f : Runs("metrics", 0, s, events, n, f) /\ f[n] = UpdateAll(s, events)
  BY <1>3, UpdateAllRuns
<1>5. PICK g : Runs("breaks", 0, kept, list, n, g) /\ g[n] = NoteAds(kept, list)
  BY <1>1, NoteAdsRuns
<1> DEFINE T == {k \in 0..n : /\ SnapShape(f[k]) /\ Counters(f[k].errors)
                              /\ Shown(f[k], g[k], cues)}
<1>6. 0 \in T
  BY <1>4, <1>5 DEF Runs
<1>7. ASSUME NEW k \in 1..n, k - 1 \in T PROVE k \in T
  <2>1. PICK a, b, ad, ev : a = f[k - 1] /\ b = g[k - 1] /\ ad = list[k] /\ ev = events[k]
    OBVIOUS
  <2>2. f[k] = UpdateMetrics(a, ev) /\ g[k] = NoteAd(b, ad)
    BY <1>4, <1>5, <2>1 DEF Runs, Turn
  <2>3. ev = [type |-> "AdBreak", active |-> ad.active] /\ Break(ad, cues) /\ Quiet(ev, TRUE)
    BY <1>1, <1>3, <2>1 DEF Breaks, EventList
  <2>4. SnapShape(a) /\ Counters(a.errors) /\ Shown(a, b, cues)
    BY <1>7, <2>1
  <2>5. Alike(a, f[k], TRUE)
    BY <2>2, <2>3, <2>4, QuietUpdate
  <2>6. Shown(f[k], g[k], cues)
    BY <2>2, <2>3, <2>4, NoteShows
  <2>7. SnapShape(f[k]) /\ Counters(f[k].errors)
    BY <2>4, <2>5, AlikeOnward
  <2> QED
    BY <2>6, <2>7
<1> HIDE DEF T
<1>8. \A k \in 0..n : k \in T
  BY <1>6, <1>7, Upward
<1> QED
  BY <1>2, <1>4, <1>5, <1>8 DEF T

\* The breaks of an MPD are watched, not logged.
LEMMA WatchShows ==
  ASSUME NEW s, SnapShape(s), Counters(s.errors), NEW kept, s.adActive = 1 => kept # {},
         NEW list, Listed(list)
  PROVE  UpdateAll(s, AdEvents(list)).adActive = 1 => Watched(list, kept) # {}
<1>1. PICK n \in Nat : n = Len(list) /\ DOMAIN list = 1..n
  BY ListedLen
<1>2. PICK events : events = AdEvents(list)
  OBVIOUS
<1>3. /\ EventList(events, TRUE) /\ DOMAIN events = 1..n
      /\ \A i \in 1..n : events[i] = [type |-> "AdBreak", active |-> list[i].active]
  BY <1>1, <1>2, AdEventsListed
<1>4. PICK f : Runs("metrics", 0, s, events, n, f) /\ f[n] = UpdateAll(s, events)
  BY <1>3, UpdateAllRuns
<1>5. PICK g : Runs("watched", 0, kept, list, n, g) /\ g[n] = Watched(list, kept)
  BY <1>1, WatchedRuns
<1> DEFINE T == {k \in 0..n : /\ SnapShape(f[k]) /\ Counters(f[k].errors)
                              /\ f[k].adActive = 1 => g[k] # {}}
<1>6. 0 \in T
  BY <1>4, <1>5 DEF Runs
<1>7. ASSUME NEW k \in 1..n, k - 1 \in T PROVE k \in T
  <2>1. PICK a, b, ad, ev : a = f[k - 1] /\ b = g[k - 1] /\ ad = list[k] /\ ev = events[k]
    OBVIOUS
  <2>2. f[k] = UpdateMetrics(a, ev) /\ g[k] = LastActive(b, ad)
    BY <1>4, <1>5, <2>1 DEF Runs, Turn
  <2>3. ev = [type |-> "AdBreak", active |-> ad.active] /\ Quiet(ev, TRUE)
    BY <1>1, <1>3, <2>1 DEF EventList
  <2>4. SnapShape(a) /\ Counters(a.errors)
    BY <1>7, <2>1
  <2>5. Alike(a, f[k], TRUE)
    BY <2>2, <2>3, <2>4, QuietUpdate
  <2>6. f[k] = [a EXCEPT !.adActive = Flag(ad.active)]
    BY <2>2, <2>3 DEF UpdateMetrics
  <2>7. f[k].adActive = 1 => g[k] # {}
    BY <2>2, <2>4, <2>6 DEF SnapShape, Flag, LastActive
  <2>8. SnapShape(f[k]) /\ Counters(f[k].errors)
    BY <2>4, <2>5, AlikeOnward
  <2> QED
    BY <2>7, <2>8
<1> HIDE DEF T
<1>8. \A k \in 0..n : k \in T
  BY <1>6, <1>7, Upward
<1> QED
  BY <1>2, <1>4, <1>5, <1>8 DEF T

-----------------------------------------------------------------------------
(* What the actions send                                                    *)

MetricsInv == SnapShape(snap) /\ Counters(snap.errors)

LEMMA QuietSend ==
  ASSUME NEW s, SnapShape(s), Counters(s.errors), NEW events, EventList(events, FALSE),
         NEW t, t = UpdateAll(s, events)
  PROVE  Alike(s, t, FALSE)
  BY QuietRun

LEMMA QuietFailing == \A status : EventList(Failing(status), FALSE)
<1> SUFFICES ASSUME NEW status PROVE EventList(Failing(status), FALSE)
  OBVIOUS
<1>1. PICK a, b : /\ Failing(status) = <<a, b>>
                  /\ a = [type |-> "Error", status |-> status]
                  /\ b = [type |-> "Status",
                          kind |-> IF loop.errors + 1 >= 3 THEN "error" ELSE "degraded",
                          status |-> status]
  BY DEF Failing
<1>2. Quiet(a, FALSE) /\ Quiet(b, FALSE)
  BY <1>1 DEF Quiet
<1>3. EventList(<<a, b>>, FALSE)
  BY <1>2, EventPair
<1> QED
  BY <1>1, <1>3

LEMMA QuietFinding ==
  ASSUME NEW category, NEW reason, reason \cap Reasons = {}
  PROVE  Quiet(Finding(category, reason), FALSE)
  BY DEF Quiet, Finding

LEMMA StartIsQuiet ==
  ASSUME MetricsInv, StartPoll
  PROVE  Alike(snap, snap', FALSE)
<1>1. PICK left : snap' = UpdateAll(snap, <<[type |-> "Buffer", buf |-> left]>>)
  BY DEF StartPoll, Send
<1>2. PICK ev, s, t : ev = [type |-> "Buffer", buf |-> left] /\ s = snap /\ t = snap'
  OBVIOUS
<1>3. Quiet(ev, FALSE)
  BY <1>2 DEF Quiet
<1>4. SnapShape(s) /\ Counters(s.errors) /\ t = UpdateAll(s, <<ev>>)
  BY <1>1, <1>2 DEF MetricsInv
<1>5. Alike(s, t, FALSE)
  BY <1>3, <1>4, EventOne, QuietSend
<1> QED
  BY <1>2, <1>5

LEMMA FailureIsQuiet ==
  ASSUME MetricsInv, PollFails
  PROVE  Alike(snap, snap', FALSE)
<1>1. PICK events, s, t : events = Failing(poll.status) /\ s = snap /\ t = snap'
  OBVIOUS
<1>2. SnapShape(s) /\ Counters(s.errors) /\ t = UpdateAll(s, events)
  BY <1>1 DEF MetricsInv, PollFails, Send
<1>3. EventList(events, FALSE)
  BY <1>1, QuietFailing
<1>4. Alike(s, t, FALSE)
  BY <1>2, <1>3, QuietSend
<1> QED
  BY <1>1, <1>4

LEMMA EndIsQuiet ==
  ASSUME MetricsInv, EndCycle
  PROVE  Alike(snap, snap', FALSE)
<1>1. PICK first, a, b, s, t :
        /\ first = (IF stream.proto = "hls" /\ loop.variants # << >>
                    THEN <<[type |-> "Variants", variants |-> loop.variants]>> ELSE << >>)
        /\ a = [type |-> "Buffer", buf |-> buf]
        /\ b = [type |-> "CdnStats", hits |-> loop.cdn.hits, misses |-> loop.cdn.misses,
                last |-> loop.cdn.last]
        /\ s = snap /\ t = snap'
  OBVIOUS
<1>2. SnapShape(s) /\ Counters(s.errors) /\ t = UpdateAll(s, first \o <<a, b>>)
  BY <1>1 DEF MetricsInv, EndCycle, Send
<1>3. Quiet(a, FALSE) /\ Quiet(b, FALSE)
      /\ Quiet([type |-> "Variants", variants |-> loop.variants], FALSE)
  BY <1>1 DEF Quiet
<1>5. EventList(<<a, b>>, FALSE)
  BY <1>3, EventPair
<1>6. EventList(first, FALSE)
  <2>1. PICK v : v = [type |-> "Variants", variants |-> loop.variants]
    OBVIOUS
  <2> QED
    BY <1>1, <1>3, <2>1, EventOne, EventNone
<1>7. Alike(s, t, FALSE)
  BY <1>2, <1>5, <1>6, EventJoin, QuietSend
<1> QED
  BY <1>1, <1>7

\* The findings of a ladder, one event each.
LEMMA RulesQuiet ==
  ASSUME NEW rules, Listed(rules)
  PROVE  EventList([i \in 1..Len(rules) |-> Finding("abr", {})], FALSE)
<1>1. Len(rules) \in Nat
  BY ListedLen
<1>2. PICK ev : ev = Finding("abr", {})
  OBVIOUS
<1>3. Quiet(ev, FALSE)
  BY <1>2, QuietFinding
<1> QED
  BY <1>1, <1>2, <1>3, EventMany

LEMMA MasterIsQuiet ==
  ASSUME MetricsInv, stream \in Streams, ReadMaster
  PROVE  Alike(snap, snap', FALSE)
<1>1. PICK variants, rules, s, t :
        /\ variants = Lad!CollectVariants(stream.master)
        /\ rules = Lad!AlignmentFindings(variants, stream.audio)
        /\ s = snap /\ t = snap'
  OBVIOUS
<1>2. SnapShape(s) /\ Counters(s.errors)
  BY <1>1 DEF MetricsInv
<1>3. PICK ev : ev = [type |-> "Variants", variants |-> Lad!SelectBest(variants)]
  OBVIOUS
<1>4. PICK failing : failing = Failing({})
  OBVIOUS
<1>5. \/ t = UpdateAll(s, failing)
      \/ t = UpdateAll(s, [i \in 1..Len(rules) |-> Finding("abr", {})] \o <<ev>>)
  BY <1>1, <1>3, <1>4 DEF ReadMaster, Send
<1>6. EventList(failing, FALSE)
  BY <1>4, QuietFailing
<1>7. Listed(variants)
  <2>1. PICK master : master = stream.master
    OBVIOUS
  <2>2. IsList(master)
    BY <2>1, StreamsAssumption
  <2> QED
    BY <1>1, <2>1, <2>2, VariantsListed
<1>8. Listed(rules)
  <2>1. PICK audio : audio = stream.audio
    OBVIOUS
  <2> QED
    BY <1>1, <1>7, <2>1, FindingsListed
<1>9. Quiet(ev, FALSE)
  BY <1>3 DEF Quiet
<1>10. EventList([i \in 1..Len(rules) |-> Finding("abr", {})] \o <<ev>>, FALSE)
  <2>1. PICK x : x = [i \in 1..Len(rules) |-> Finding("abr", {})]
    OBVIOUS
  <2>2. EventList(x, FALSE)
    BY <1>8, <2>1, RulesQuiet
  <2>3. EventList(<<ev>>, FALSE)
    BY <1>9, EventOne
  <2>4. EventList(x \o <<ev>>, FALSE)
    BY <2>2, <2>3, EventJoin
  <2> QED
    BY <2>1, <2>4
<1>11. Alike(s, t, FALSE)
  BY <1>2, <1>5, <1>6, <1>10, QuietSend
<1> QED
  BY <1>1, <1>11

LEMMA EndMpdIsQuiet ==
  ASSUME MetricsInv, EndMpd
  PROVE  Alike(snap, snap', FALSE)
<1>1. PICK a, b, s, t :
        /\ MpdEvents(loop.variants) = <<a, b>> /\ s = snap /\ t = snap'
        /\ a.type = "Variants" /\ b.type = "PlaylistMeta"
  <2>1. PICK x, y : MpdEvents(loop.variants) =
          <<[type |-> "Variants", variants |-> x],
            [type |-> "PlaylistMeta", ll |-> FALSE, part |-> {}, licence |-> y]>>
    BY DEF MpdEvents
  <2>2. PICK a, b : /\ a = [type |-> "Variants", variants |-> x]
                    /\ b = [type |-> "PlaylistMeta", ll |-> FALSE, part |-> {}, licence |-> y]
    OBVIOUS
  <2>3. a.type = "Variants" /\ b.type = "PlaylistMeta"
    BY <2>2
  <2> QED
    BY <2>1, <2>2, <2>3
<1>2. SnapShape(s) /\ Counters(s.errors) /\ t = UpdateAll(s, <<a, b>>)
  BY <1>1 DEF MetricsInv, EndMpd, Send
<1>3. Quiet(a, FALSE) /\ Quiet(b, FALSE)
  BY <1>1 DEF Quiet
<1>5. EventList(<<a, b>>, FALSE)
  BY <1>3, EventPair
<1>6. Alike(s, t, FALSE)
  BY <1>2, <1>5, QuietSend
<1> QED
  BY <1>1, <1>6

LEMMA QuietFailures == \A findings : EventList(FailureEvents(findings), FALSE)
<1> SUFFICES ASSUME NEW findings PROVE EventList(FailureEvents(findings), FALSE)
  OBVIOUS
<1>1. PICK a, b : a = Finding("rfc", {"redirect_loop"}) /\ b = Finding("rfc", {"tcp_io_reset"})
  OBVIOUS
<1>2. Quiet(a, FALSE) /\ Quiet(b, FALSE)
  BY <1>1, QuietFinding DEF Reasons
<1>3. PICK x \in {<<a>>, << >>}, y \in {<<b>>, << >>} : FailureEvents(findings) = x \o y
  BY <1>1 DEF FailureEvents
<1>4. EventList(x, FALSE) /\ EventList(y, FALSE)
  BY <1>2, EventOne, EventNone
<1> QED
  BY <1>3, <1>4, EventJoin

LEMMA FetchFailsIsQuiet ==
  ASSUME MetricsInv, FetchFails
  PROVE  Alike(snap, snap', FALSE)
<1>1. PICK x, y, s, t :
        /\ s = snap /\ t = snap' /\ t = UpdateAll(s, x \o y)
        /\ \E findings : x = FailureEvents(findings)
        /\ y = << >> \/ \E refused : y = Failing(refused)
  BY DEF FetchFails, Send
<1>2. EventList(x, FALSE) /\ EventList(y, FALSE)
  BY <1>1, QuietFailures, QuietFailing, EventNone
<1>3. EventList(x \o y, FALSE)
  BY <1>2, EventJoin
<1>4. SnapShape(s) /\ Counters(s.errors)
  BY <1>1 DEF MetricsInv
<1>5. Alike(s, t, FALSE)
  BY <1>1, <1>3, <1>4, QuietSend
<1> QED
  BY <1>1, <1>5

LEMMA KeyIsQuiet ==
  ASSUME MetricsInv, KeyFetched
  PROVE  Alike(snap, snap', FALSE)
<1>1. PICK x, s, t :
        /\ s = snap /\ t = snap' /\ t = UpdateAll(s, x)
        /\ x \in {<<Finding("drm", {"ERR_AES_KEY_FETCH_FAILED"})>>, << >>}
  BY DEF KeyFetched, Send
<1>2. EventList(x, FALSE)
  <2>1. PICK ev : ev = Finding("drm", {"ERR_AES_KEY_FETCH_FAILED"})
    OBVIOUS
  <2>2. Quiet(ev, FALSE)
    BY <2>1, QuietFinding DEF Reasons
  <2> QED
    BY <1>1, <2>1, <2>2, EventOne, EventNone
<1>3. SnapShape(s) /\ Counters(s.errors)
  BY <1>1 DEF MetricsInv
<1>4. Alike(s, t, FALSE)
  BY <1>1, <1>2, <1>3, QuietSend
<1> QED
  BY <1>1, <1>4

\* The lines of a segment that was downloaded.
LEMMA LinesQuiet ==
  ASSUME NEW n \in Nat, NEW type \in {"Mismatch", "AdMarkerMismatch", "InbandAdEvent"}
  PROVE  EventList([i \in 1..n |-> [type |-> type]], FALSE)
<1>1. PICK ev : ev = [type |-> type]
  OBVIOUS
<1>2. Quiet(ev, FALSE)
  BY <1>1 DEF Quiet
<1> QED
  BY <1>1, <1>2, EventMany

LEMMA QuietExtras ==
  ASSUME NEW wire, IsList(wire.emsg)
  PROVE  EventList(ExtraEvents(wire), FALSE)
<1>1. PICK active : active = ads.active
  OBVIOUS
<1>2. PICK m, n \in Nat : /\ m = Cardinality(Mismatches(active, wire))
                          /\ n = Cardinality(InbandEvents(wire))
  BY MismatchesCount
<1>3. PICK x, y : /\ x = [i \in 1..m |-> [type |-> "AdMarkerMismatch"]]
                  /\ y = [i \in 1..n |-> [type |-> "InbandAdEvent"]]
  OBVIOUS
<1>4. ExtraEvents(wire) = x \o y
  BY <1>1, <1>2, <1>3 DEF ExtraEvents
<1>5. EventList(x, FALSE) /\ EventList(y, FALSE)
  BY <1>3, LinesQuiet
<1> QED
  BY <1>4, <1>5, EventJoin

LEMMA FetchIsQuiet ==
  ASSUME MetricsInv, stream \in Streams, FetchSegment
  PROVE  Alike(snap, snap', FALSE)
<1>0. PICK s \in stream.segs, answer \in Answers : \E credit :
        snap' = Gauged(UpdateAll(snap,
                DohEvents(answer)
                \o <<[type |-> "Transport", version |-> s.version, quic |-> {}]>>
                \o (IF stream.proto = "dash" THEN <<[type |-> "Buffer", buf |-> credit]>> ELSE << >>)
                \o [i \in 1..Lad!WireLines(loop.variants, s.wire) |-> [type |-> "Mismatch"]]
                \o G2gEvents(s) \o ExtraEvents(s.wire)), s, answer)
  BY Zenon DEF FetchSegment
<1>1. PICK credit :
        snap' = Gauged(UpdateAll(snap,
                DohEvents(answer)
                \o <<[type |-> "Transport", version |-> s.version, quic |-> {}]>>
                \o (IF stream.proto = "dash" THEN <<[type |-> "Buffer", buf |-> credit]>> ELSE << >>)
                \o [i \in 1..Lad!WireLines(loop.variants, s.wire) |-> [type |-> "Mismatch"]]
                \o G2gEvents(s) \o ExtraEvents(s.wire)), s, answer)
  BY <1>0
<1>2. PICK a, b, c, d, e, f :
        /\ a = DohEvents(answer)
        /\ b = <<[type |-> "Transport", version |-> s.version, quic |-> {}]>>
        /\ c = (IF stream.proto = "dash" THEN <<[type |-> "Buffer", buf |-> credit]>> ELSE << >>)
        /\ d = [i \in 1..Lad!WireLines(loop.variants, s.wire) |-> [type |-> "Mismatch"]]
        /\ e = G2gEvents(s) /\ f = ExtraEvents(s.wire)
  OBVIOUS
<1>3. EventList(a, FALSE)
  <2>1. PICK ev : ev = Finding("info", {"ERR_DOH_RESOLUTION_FAILED"})
    OBVIOUS
  <2>2. Quiet(ev, FALSE)
    BY <2>1, QuietFinding DEF Reasons
  <2>3. a \in {<<ev>>, << >>}
    BY <1>2, <2>1 DEF DohEvents
  <2> QED
    BY <2>2, <2>3, EventOne, EventNone
<1>4. EventList(b, FALSE)
  <2>1. PICK ev : ev = [type |-> "Transport", version |-> s.version, quic |-> {}]
    OBVIOUS
  <2>2. Quiet(ev, FALSE)
    BY <2>1 DEF Quiet
  <2> QED
    BY <1>2, <2>1, <2>2, EventOne
<1>5. EventList(c, FALSE)
  <2>1. PICK ev : ev = [type |-> "Buffer", buf |-> credit]
    OBVIOUS
  <2>2. Quiet(ev, FALSE)
    BY <2>1 DEF Quiet
  <2> QED
    BY <1>2, <2>1, <2>2, EventOne, EventNone
<1>6. EventList(d, FALSE)
  <2>1. PICK variants, wire, n : /\ variants = loop.variants /\ wire = s.wire
                                 /\ n = Lad!WireLines(variants, wire)
    OBVIOUS
  <2>2. n \in Nat
    BY <2>1, LinesCount
  <2> QED
    BY <1>2, <2>1, <2>2, LinesQuiet
<1>7. EventList(e, FALSE)
  <2>1. PICK x : e = <<[type |-> "G2g", total |-> x]>>
    BY <1>2 DEF G2gEvents
  <2>2. PICK ev : ev = [type |-> "G2g", total |-> x]
    OBVIOUS
  <2>3. Quiet(ev, FALSE)
    BY <2>2 DEF Quiet
  <2> QED
    BY <2>1, <2>2, <2>3, EventOne
<1>8. EventList(f, FALSE)
  <2>1. PICK wire : wire = s.wire
    OBVIOUS
  <2>2. IsList(wire.emsg)
    BY <2>1, StreamsAssumption
  <2> QED
    BY <1>2, <2>1, <2>2, QuietExtras
<1>9. EventList(a \o b \o c \o d \o e \o f, FALSE)
  BY <1>3, <1>4, <1>5, <1>6, <1>7, <1>8, EventJoin
<1>10. PICK r, u, t : r = snap /\ u = UpdateAll(r, a \o b \o c \o d \o e \o f) /\ t = snap'
  OBVIOUS
<1>11. SnapShape(r) /\ Counters(r.errors)
  BY <1>10 DEF MetricsInv
<1>12. Alike(r, u, FALSE)
  BY <1>9, <1>10, <1>11, QuietSend
<1>13. t = Gauged(u, s, answer)
  BY <1>1, <1>2, <1>10
<1>14. PICK x, y : t = [u EXCEPT !.doh = x, !.clearkeyOk = y]
  BY <1>13 DEF Gauged
<1>15. /\ SnapShape(t) /\ t.p1 = u.p1 /\ t.p2 = u.p2 /\ t.errors = u.errors
       /\ t.adActive = u.adActive
  BY <1>12, <1>14 DEF Alike, SnapShape
<1>16. Alike(r, t, FALSE)
  BY <1>12, <1>15 DEF Alike
<1> QED
  BY <1>10, <1>16

-----------------------------------------------------------------------------
(* What the polls that tell of breaks send                                  *)

LEMMA MediaTells ==
  ASSUME PlayerInv, MetricsInv, ReadMedia
  PROVE  \E list, mid :
           /\ Breaks(list, stream.cuesOnly)
           /\ ads' = NoteAds(ads, list)
           /\ Alike(snap, mid, FALSE)
           /\ Alike(UpdateAll(mid, AdEvents(list)), snap', FALSE)
<1>1. PICK list, items, at, cues :
        /\ list = ExtractSignals(items, at)
        /\ items = poll.items /\ at = now /\ cues = stream.cuesOnly
  OBVIOUS
<1>2. Breaks(list, cues)
  <2>1. stream \in Streams /\ IsPoll(stream, poll) /\ stream.proto = "hls"
    BY DEF PlayerInv, Clocks, SummaryInv, ReadMedia
  <2>2. IsList(items) /\ cues \in BOOLEAN
        /\ (cues => \A i \in DOMAIN items : items[i].kind \in Cues)
    BY <1>1, <2>1, StreamsAssumption DEF IsPoll
  <2> QED
    BY <1>1, <2>2, SignalsTell
<1>3. ads' = NoteAds(ads, list)
  BY <1>1 DEF ReadMedia
<1>4. PICK probe, ll, licence :
        snap' = UpdateAll(snap, HintEvents(ll, probe) \o <<Described(ll, licence)>>
                                \o AdEvents(list) \o EdgeEvents)
  BY <1>1 DEF ReadMedia, Send
<1>5. PICK a, b, c, d, s, t :
        /\ a = HintEvents(ll, probe) /\ b = <<Described(ll, licence)>>
        /\ c = AdEvents(list) /\ d = EdgeEvents
        /\ s = snap /\ t = snap'
  OBVIOUS
<1>6. t = UpdateAll(s, a \o b \o c \o d)
  BY <1>4, <1>5
<1>7. EventList(a, FALSE)
  <2>1. PICK x, y : /\ x = Finding("ll_hls", {"ERR_PART_RTF_STALL"})
                    /\ y = [type |-> "LlHlsPart", ratio |-> {probe.ratio}]
    OBVIOUS
  <2>2. Quiet(x, FALSE) /\ Quiet(y, FALSE)
    BY <2>1, QuietFinding DEF Reasons, Quiet
  <2>3. a \in {<< >>, <<x>> \o <<y>>, << >> \o <<y>>}
    BY <1>5, <2>1 DEF HintEvents
  <2>4. EventList(<<x>> \o <<y>>, FALSE) /\ EventList(<< >> \o <<y>>, FALSE)
    BY <2>2, EventOne, EventNone, EventJoin
  <2> QED
    BY <2>3, <2>4, EventNone
<1>8. EventList(b, FALSE)
  <2>1. PICK ev : ev = Described(ll, licence)
    OBVIOUS
  <2>2. Quiet(ev, FALSE)
    BY <2>1 DEF Quiet, Described
  <2> QED
    BY <1>5, <2>1, <2>2, EventOne
<1>9. EventList(d, FALSE)
  <2> DEFINE ev == [type |-> "Latency",
                    latency |-> IF poll.ended THEN {} ELSE {3000 * poll.target}]
  <2>1. ev.type = "Latency" /\ d \in {<<ev>>, << >>}
    BY <1>5 DEF EdgeEvents
  <2> HIDE DEF ev
  <2>2. Quiet(ev, FALSE)
    BY <2>1 DEF Quiet
  <2> QED
    BY <2>1, <2>2, EventOne, EventNone
<1>10. EventList(c, TRUE)
  BY <1>2, <1>5, AdEventsListed DEF Breaks
<1>11. PICK mid, last : mid = UpdateAll(s, a \o b) /\ last = UpdateAll(mid, c)
  OBVIOUS
<1>12. t = UpdateAll(last, d)
  <2>1. Listed(a \o b) /\ Listed(c) /\ Listed((a \o b) \o c) /\ Listed(d)
    BY <1>7, <1>8, <1>9, <1>10, ListedJoin DEF EventList
  <2>2. UpdateAll(s, (a \o b) \o c) = last
    BY <1>11, <2>1, UpdateAllJoin
  <2>3. UpdateAll(s, ((a \o b) \o c) \o d) = UpdateAll(last, d)
    BY <2>1, <2>2, UpdateAllJoin
  <2> QED
    BY <1>6, <2>3
<1>13. SnapShape(s) /\ Counters(s.errors)
  BY <1>5 DEF MetricsInv
<1>14. Alike(s, mid, FALSE)
  BY <1>7, <1>8, <1>11, <1>13, EventJoin, QuietRun
<1>15. SnapShape(mid) /\ Counters(mid.errors)
  BY <1>13, <1>14, AlikeOnward
<1>16. Alike(mid, last, TRUE)
  BY <1>10, <1>11, <1>15, QuietRun
<1>17. SnapShape(last) /\ Counters(last.errors)
  BY <1>15, <1>16, AlikeOnward
<1>18. Alike(last, t, FALSE)
  BY <1>9, <1>12, <1>17, QuietSend
<1> QED
  BY <1>1, <1>2, <1>3, <1>5, <1>11, <1>14, <1>18

LEMMA MpdTells ==
  ASSUME PlayerInv, MetricsInv, ReadMpd
  PROVE  \/ Alike(snap, snap', FALSE) /\ UNCHANGED ads
         \/ \E list, mid :
              /\ Listed(list)
              /\ ads' = [ads EXCEPT !.active = Watched(list, @)]
              /\ Alike(snap, mid, FALSE)
              /\ snap' = UpdateAll(mid, AdEvents(list))
<1>0. stream \in Streams /\ IsPoll(stream, poll) /\ stream.proto = "dash"
  BY DEF PlayerInv, Clocks, SummaryInv, ReadMpd
<1>1. PICK s, t : s = snap /\ t = snap'
  OBVIOUS
<1>2. SnapShape(s) /\ Counters(s.errors)
  BY <1>1 DEF MetricsInv
<1>3. CASE Send(Failing({})) /\ UNCHANGED ads
  <2>1. PICK events : events = Failing({})
    OBVIOUS
  <2>2. EventList(events, FALSE) /\ t = UpdateAll(s, events)
    BY <1>1, <1>3, <2>1, QuietFailing DEF Send
  <2>3. Alike(s, t, FALSE)
    BY <1>2, <2>2, QuietSend
  <2> QED
    BY <1>1, <1>3, <2>3
<1>4. CASE ~(Send(Failing({})) /\ UNCHANGED ads)
  <2>1. PICK list : list = DashEvents(poll.streams)
    OBVIOUS
  <2>2. Listed(list)
    <3>1. PICK streams : streams = poll.streams
      OBVIOUS
    <3>2. IsList(streams) /\ \A i \in DOMAIN streams : IsList(streams[i].events)
      BY <1>0, <3>1 DEF IsPoll
    <3> QED
      BY <2>1, <3>1, <3>2, DashTells
  <2>3. PICK all \in Mpd!ParseMpd(poll.mpd, now) :
          LET rules == Lad!AlignmentFindings(all.variants, all.audio # << >>)
          IN  /\ Send([i \in 1..Len(rules) |-> Finding("abr", {})]
                      \o <<[type |-> "Variants", variants |-> all.variants],
                           [type |-> "Latency", latency |-> MpdLatency(all)]>>
                      \o AdEvents(list))
              /\ ads' = [ads EXCEPT !.active = Watched(list, @)]
    BY <1>4, <2>1 DEF ReadMpd
  <2>4. Known(all)
    <3>1. PICK mpd, at : mpd = poll.mpd /\ at = now
      OBVIOUS
    <3>2. IsMpd(mpd) /\ all \in Mpd!ParseMpd(mpd, at)
      BY <1>0, <2>3, <3>1 DEF IsPoll
    <3> QED
      BY <3>2, KnownMpd
  <2>5. PICK rules : rules = Lad!AlignmentFindings(all.variants, all.audio # << >>)
    OBVIOUS
  <2>6. Listed(rules)
    BY <2>4, <2>5, FindingsListed DEF Known
  <2>7. PICK a, x, y, c :
          /\ a = [i \in 1..Len(rules) |-> Finding("abr", {})]
          /\ x = [type |-> "Variants", variants |-> all.variants]
          /\ y = [type |-> "Latency", latency |-> MpdLatency(all)]
          /\ c = AdEvents(list)
    OBVIOUS
  <2>8. EventList(a, FALSE)
    BY <2>6, <2>7, RulesQuiet
  <2>9. EventList(<<x, y>>, FALSE)
    <3>1. Quiet(x, FALSE) /\ Quiet(y, FALSE)
      BY <2>7 DEF Quiet
    <3> QED
      BY <3>1, EventPair
  <2>10. EventList(c, TRUE)
    BY <2>2, <2>7, AdEventsListed
  <2>11. PICK mid : mid = UpdateAll(s, a \o <<x, y>>)
    OBVIOUS
  <2>12. t = UpdateAll(mid, c)
    <3>1. t = UpdateAll(s, (a \o <<x, y>>) \o c)
      BY <1>1, <2>3, <2>5, <2>7 DEF Send
    <3>2. Listed(a \o <<x, y>>) /\ Listed(c)
      BY <2>8, <2>9, <2>10, ListedJoin DEF EventList
    <3> QED
      BY <2>11, <3>1, <3>2, UpdateAllJoin
  <2>13. Alike(s, mid, FALSE)
    BY <1>2, <2>8, <2>9, <2>11, EventJoin, QuietRun
  <2> QED
    BY <1>1, <2>2, <2>3, <2>7, <2>12, <2>13
<1> QED
  BY <1>3, <1>4

-----------------------------------------------------------------------------
(* The watched break                                                        *)

\* Where breaks are logged, what is watched was logged and is not a CUE-IN.
AdInv ==
  /\ MetricsInv
  /\ stream.proto = "dash" => "active" \in DOMAIN ads
  /\ snap.adActive = 1 => ads.active # {}
  /\ stream.proto = "hls" => Shown(snap, ads, stream.cuesOnly)

QuietStep ==
  StartPoll \/ PollFails \/ EndCycle \/ ReadMaster \/ EndMpd \/ FetchFails \/ FetchSegment
  \/ KeyHeld \/ KeyAnswered \/ KeyFetched \/ Rotate \/ UNCHANGED vars

LEMMA AlikeSame == ASSUME MetricsInv, UNCHANGED snap PROVE Alike(snap, snap', FALSE)
  BY DEF MetricsInv, Alike

LEMMA QuietSteps ==
  ASSUME MetricsInv, stream \in Streams, QuietStep
  PROVE  Alike(snap, snap', FALSE) /\ UNCHANGED <<stream, ads, tr>>
<1>1. CASE StartPoll
  BY <1>1, StartIsQuiet DEF StartPoll
<1>2. CASE PollFails
  BY <1>2, FailureIsQuiet DEF PollFails
<1>3. CASE EndCycle
  BY <1>3, EndIsQuiet DEF EndCycle
<1>4. CASE ReadMaster
  BY <1>4, MasterIsQuiet DEF ReadMaster
<1>5. CASE EndMpd
  BY <1>5, EndMpdIsQuiet DEF EndMpd
<1>6. CASE FetchFails
  BY <1>6, FetchFailsIsQuiet DEF FetchFails
<1>7. CASE FetchSegment
  BY <1>7, FetchIsQuiet DEF FetchSegment
<1>8. CASE KeyHeld
  BY <1>8, AlikeSame DEF KeyHeld
<1>9. CASE KeyFetched
  BY <1>9, KeyIsQuiet DEF KeyFetched
<1>10. CASE Rotate
  BY <1>10, AlikeSame DEF Rotate
<1>11. CASE UNCHANGED vars
  BY <1>11, AlikeSame DEF vars
<1>12. CASE KeyAnswered
  BY <1>12, AlikeSame DEF KeyAnswered
<1> QED
  BY <1>1, <1>2, <1>3, <1>4, <1>5, <1>6, <1>7, <1>8, <1>9, <1>10, <1>11, <1>12 DEF QuietStep

\* The gauge stands and so does the break.
LEMMA ShownStays ==
  ASSUME NEW s, NEW t, NEW kept, NEW cues, Shown(s, kept, cues), t.adActive = s.adActive
  PROVE  Shown(t, kept, cues)
  BY DEF Shown

LEMMA AdInvInit == Init => AdInv
<1> SUFFICES ASSUME Init PROVE AdInv
  OBVIOUS
<1>1. snap = NewSnapshot /\ ads = [seen |-> {}, active |-> {}]
  BY DEF Init, NoAds
<1>2. SnapShape(snap) /\ snap.errors = EmptyBag /\ snap.adActive = 0
  BY <1>1 DEF NewSnapshot, SnapShape
<1>3. Counters(EmptyBag)
  BY DEF Counters, Copies, EmptyBag, SetToBag
<1> QED
  BY <1>1, <1>2, <1>3 DEF AdInv, MetricsInv, Shown

LEMMA MetricsInvNext ==
  ASSUME MetricsInv, NEW b \in BOOLEAN, Alike(snap, snap', b)
  PROVE  MetricsInv'
  BY DEF MetricsInv, Alike, Counters

LEMMA AdInvQuiet ==
  ASSUME AdInv, Alike(snap, snap', FALSE), UNCHANGED <<stream, ads>>
  PROVE  AdInv'
<1>1. MetricsInv'
  BY MetricsInvNext DEF AdInv
<1>2. snap'.adActive = snap.adActive
  BY DEF Alike
<1> QED
  BY <1>1, <1>2 DEF AdInv, Shown

-----------------------------------------------------------------------------
(* What the end of a segment sends                                          *)

\* Every place of a set of places is taken by one that has so many before it.
LEMMA PlacesFilled ==
  ASSUME NEW n \in Nat, NEW S, S \subseteq 1..n
  PROVE  \A k \in 1..Cardinality(S) : \E i \in S : Cardinality({j \in S : j < i}) = k - 1
<1> DEFINE Part(m) == {j \in S : j <= m}
           Fits(i, k) == Cardinality({j \in S : j < i}) = k - 1
           Filled(m) == \A k \in 1..Cardinality(Part(m)) : \E i \in Part(m) : Fits(i, k)
           T == {m \in 0..n : Filled(m)}
<1>0. \A j \in S : j \in Int /\ 1 <= j /\ j <= n
  OBVIOUS
<1>1. Filled(0)
  <2>1. ASSUME NEW j \in S, j <= 0 PROVE FALSE
    BY <1>0, <2>1
  <2>2. Part(0) = {}
    BY <2>1
  <2> HIDE DEF Part
  <2>3. Cardinality(Part(0)) = 0
    BY <2>2, FS_EmptySet
  <2> QED
    BY <2>3
<1>2. ASSUME NEW m \in 1..n, Filled(m - 1) PROVE Filled(m)
  <2>0. m \in Int /\ \A j \in S : (j <= m <=> j <= m - 1 \/ j = m) /\ (j < m <=> j <= m - 1)
                                /\ ~(m <= m - 1)
    BY <1>0
  <2>1. CASE m \notin S
    <3>1. \A j : j \in Part(m) <=> j \in Part(m - 1)
      BY <2>0, <2>1
    <3> HIDE DEF Part, Fits
    <3>2. Part(m) = Part(m - 1)
      BY <3>1
    <3> QED
      BY <1>2, <3>2
  <2>2. CASE m \in S
    <3>1. \A j : j \in Part(m) <=> j \in Part(m - 1) \cup {m}
      BY <2>0, <2>2
    <3>2. \A j : j \in {i \in S : i < m} <=> j \in Part(m - 1)
      BY <2>0
    <3>3. Part(m - 1) \subseteq 1..n /\ m \notin Part(m - 1)
      BY <2>0
    <3>4. {i \in S : i < m} = Part(m - 1)
      <4> DEFINE Less == {i \in S : i < m}
      <4>1. \A j : j \in Less <=> j \in Part(m - 1)
        BY <3>2
      <4> HIDE DEF Part, Less
      <4>2. Less = Part(m - 1)
        BY <4>1
      <4> QED
        BY <4>2 DEF Less
    <3>5. PICK c \in Nat : c = Cardinality(Part(m - 1)) /\ IsFiniteSet(Part(m - 1))
      <4> HIDE DEF Part
      <4>1. PICK P : P = Part(m - 1)
        OBVIOUS
      <4>2. IsFiniteSet(P) /\ Cardinality(P) \in Nat
        BY <3>3, <4>1, CountOfPart
      <4> QED
        BY <4>1, <4>2
    <3>6. Fits(m, c + 1)
      <4>1. c = Cardinality({i \in S : i < m})
        <5> HIDE DEF Part, Fits
        <5> QED
          BY <3>4, <3>5
      <4>2. (c + 1) - 1 = c
        OBVIOUS
      <4> QED
        BY <4>1, <4>2
    <3> HIDE DEF Part, Fits
    <3>7. Part(m) = Part(m - 1) \cup {m}
      BY <3>1
    <3>8. Cardinality(Part(m)) = c + 1
      BY <3>3, <3>5, <3>7, FS_AddElement
    <3>9. ASSUME NEW k \in 1..(c + 1)
          PROVE  \E i \in Part(m) : Fits(i, k)
      <4>1. CASE k \in 1..c
        <5>1. PICK i \in Part(m - 1) : Fits(i, k)
          BY <1>2, <3>5, <4>1
        <5> QED
          BY <3>7, <5>1
      <4>2. CASE k = c + 1
        BY <3>7, <3>6, <4>2
      <4>3. k \in 1..c \/ k = c + 1
        BY <3>5
      <4> QED
        BY <4>1, <4>2, <4>3
    <3> QED
      BY <3>8, <3>9
  <2> QED
    BY <2>1, <2>2
<1>3. \A j : j \in Part(n) <=> j \in S
  BY <1>0
<1> HIDE DEF Filled
<1>4. 0 \in T /\ \A m \in 1..n : m - 1 \in T => m \in T
  BY <1>1, <1>2
<1> HIDE DEF T
<1>5. \A m \in 0..n : m \in T
  BY <1>4, Upward
<1>6. Filled(n)
  BY <1>5 DEF T
<1> HIDE DEF Part
<1>7. Part(n) = S
  BY <1>3
<1> QED
  BY <1>6, <1>7 DEF Filled

\* One finding is one more in the counters.
LEMMA OneCounted ==
  ASSUME NEW a, NEW b, Counters(a), NEW c \in Reasons,
         \A code \in Reasons : Copies(b, code) = Copies(a, code) + (IF code \in {c} THEN 1 ELSE 0)
  PROVE  TrCounted(b) = TrCounted(a) + 1 /\ TrCounted(a) \in Nat
<1>1. PICK a1, a2, a3, a4, a5, a6, a7 \in Nat :
        /\ a1 = Copies(a, "P1_SYNC") /\ a2 = Copies(a, "P1_PAT") /\ a3 = Copies(a, "P1_PMT")
        /\ a4 = Copies(a, "P1_CC") /\ a5 = Copies(a, "P2_TEI") /\ a6 = Copies(a, "P2_PCR_GAP")
        /\ a7 = Copies(a, "P2_PCR_JITTER")
  BY DEF Counters, Reasons
<1>2. PICK b1, b2, b3, b4, b5, b6, b7 :
        /\ b1 = Copies(b, "P1_SYNC") /\ b2 = Copies(b, "P1_PAT") /\ b3 = Copies(b, "P1_PMT")
        /\ b4 = Copies(b, "P1_CC") /\ b5 = Copies(b, "P2_TEI") /\ b6 = Copies(b, "P2_PCR_GAP")
        /\ b7 = Copies(b, "P2_PCR_JITTER")
  OBVIOUS
<1>3. /\ b1 = a1 + (IF c = "P1_SYNC" THEN 1 ELSE 0) /\ b2 = a2 + (IF c = "P1_PAT" THEN 1 ELSE 0)
      /\ b3 = a3 + (IF c = "P1_PMT" THEN 1 ELSE 0) /\ b4 = a4 + (IF c = "P1_CC" THEN 1 ELSE 0)
      /\ b5 = a5 + (IF c = "P2_TEI" THEN 1 ELSE 0)
      /\ b6 = a6 + (IF c = "P2_PCR_GAP" THEN 1 ELSE 0)
      /\ b7 = a7 + (IF c = "P2_PCR_JITTER" THEN 1 ELSE 0)
  BY <1>1, <1>2 DEF Reasons
<1>4. b1 + b2 + b3 + b4 + b5 + b6 + b7 = (a1 + a2 + a3 + a4 + a5 + a6 + a7) + 1
  BY <1>3 DEF Reasons
<1>5. TrCounted(a) = a1 + a2 + a3 + a4 + a5 + a6 + a7
      /\ TrCounted(b) = b1 + b2 + b3 + b4 + b5 + b6 + b7
  BY <1>1, <1>2 DEF TrCounted
<1> QED
  BY <1>4, <1>5

LEMMA CountedIsNumber ==
  ASSUME NEW a, Counters(a) PROVE TrCounted(a) \in Nat
<1>1. PICK a1, a2, a3, a4, a5, a6, a7 \in Nat :
        /\ a1 = Copies(a, "P1_SYNC") /\ a2 = Copies(a, "P1_PAT") /\ a3 = Copies(a, "P1_PMT")
        /\ a4 = Copies(a, "P1_CC") /\ a5 = Copies(a, "P2_TEI") /\ a6 = Copies(a, "P2_PCR_GAP")
        /\ a7 = Copies(a, "P2_PCR_JITTER")
  BY DEF Counters, Reasons
<1>2. TrCounted(a) = a1 + a2 + a3 + a4 + a5 + a6 + a7
  BY <1>1 DEF TrCounted
<1> QED
  BY <1>2

\* The findings of a window are counted, each once.
LEMMA AlarmsCount ==
  ASSUME NEW s, SnapShape(s), Counters(s.errors), NEW n \in Nat, NEW list, DOMAIN list = 1..n,
         \A i \in 1..n : \E c \in Reasons : list[i] = Finding("info", {c})
  PROVE  LET t == UpdateAll(s, list)
         IN  /\ SnapShape(t) /\ Counters(t.errors) /\ t.adActive = s.adActive
             /\ t.p1 = s.p1 /\ t.p2 = s.p2
             /\ TrCounted(t.errors) = TrCounted(s.errors) + n
<1>1. PICK f : Runs("metrics", 0, s, list, n, f) /\ f[n] = UpdateAll(s, list)
  BY UpdateAllRuns
<1>2. PICK m \in Nat : m = TrCounted(s.errors)
  BY CountedIsNumber
<1> DEFINE T == {k \in 0..n : /\ SnapShape(f[k]) /\ Counters(f[k].errors)
                              /\ f[k].adActive = s.adActive
                              /\ f[k].p1 = s.p1 /\ f[k].p2 = s.p2
                              /\ TrCounted(f[k].errors) = m + k}
<1>3. 0 \in T
  BY <1>1, <1>2 DEF Runs
<1>4. ASSUME NEW k \in 1..n, k - 1 \in T PROVE k \in T
  <2>1. PICK c \in Reasons : list[k] = Finding("info", {c})
    OBVIOUS
  <2>2. PICK a, b, ev : a = f[k - 1] /\ b = f[k] /\ ev = Finding("info", {c})
    OBVIOUS
  <2>3. b = UpdateMetrics(a, ev)
    BY <1>1, <2>1, <2>2 DEF Runs, Turn
  <2>4. /\ SnapShape(a) /\ Counters(a.errors) /\ a.adActive = s.adActive
        /\ a.p1 = s.p1 /\ a.p2 = s.p2 /\ TrCounted(a.errors) = m + (k - 1)
    BY <1>4, <2>2
  <2>5. ev.type = "Finding" /\ ev.reason = {c}
    BY <2>2 DEF Finding
  <2>6. /\ SnapShape(b) /\ b.p1 = a.p1 /\ b.p2 = a.p2 /\ b.adActive = a.adActive
        /\ \A code \in Reasons :
             Copies(b.errors, code) = Copies(a.errors, code) + (IF code \in {c} THEN 1 ELSE 0)
    BY <2>3, <2>4, <2>5, FindingCounts
  <2>7. Counters(b.errors)
    BY <2>4, <2>6 DEF Counters
  <2>8. TrCounted(b.errors) = TrCounted(a.errors) + 1
    BY <2>4, <2>6, OneCounted
  <2>9. TrCounted(b.errors) = m + k
    BY <2>4, <2>8
  <2> QED
    BY <2>2, <2>4, <2>6, <2>7, <2>9
<1> HIDE DEF T
<1>5. \A k \in 0..n : k \in T
  BY <1>3, <1>4, Upward
<1>6. n \in T
  BY <1>5
<1> QED
  BY <1>1, <1>2, <1>6 DEF T

\* What the metrics make of a report.
LEMMA ReportCounts ==
  ASSUME NEW s, SnapShape(s), NEW report
  PROVE  LET t == UpdateMetrics(s, Reported(report))
         IN  /\ SnapShape(t) /\ t.p1 = report.p1 /\ t.p2 = report.p2
             /\ t.errors = s.errors /\ t.adActive = s.adActive
<1> DEFINE t == UpdateMetrics(s, Reported(report))
<1>1. PICK x, y : x = report.p1 /\ y = report.p2
  OBVIOUS
<1>2. t = [s EXCEPT !.p1 = x, !.p2 = y]
  BY <1>1 DEF UpdateMetrics, Reported
<1> HIDE DEF t
<1>3. SnapShape(t) /\ t.p1 = x /\ t.p2 = y /\ t.errors = s.errors /\ t.adActive = s.adActive
  BY <1>2 DEF SnapShape
<1> QED
  BY <1>1, <1>3 DEF t

\* So many findings, each of an alarm with a reason.
Alarms(list, n) ==
  /\ DOMAIN list = 1..n /\ Listed(list)
  /\ \A i \in 1..n : \E c \in Reasons : list[i] = Finding("info", {c})

\* The alarms of a window are told one by one, and those with a reason only.
LEMMA AlarmsTold ==
  ASSUME NEW eng, NEW fresh, fresh = eng.fresh, fresh \in Seq(Codes),
         NEW m, m = Cardinality(Reasoned(fresh)),
         NEW report, report = eng.report, NEW ev, ev = Reported(report),
         NEW events, events = AlarmEvents(eng)
  PROVE  m \in Nat /\ \E list : events = list \o <<ev>> /\ Alarms(list, m)
<1> DEFINE told == Reasoned(fresh)
           At(n) == CHOOSE i \in told : Cardinality({j \in told : j < i}) = n - 1
           list == [n \in 1..m |-> Finding("info", {fresh[At(n)]})]
<1>1. m \in Nat
  BY ReasonedFinite
<1>2. events = list \o <<ev>>
  BY DEF AlarmEvents, Reasoned
<1>3. told \subseteq 1..Len(fresh) /\ Len(fresh) \in Nat
  BY DEF Reasoned
<1>4. ASSUME NEW n \in 1..m PROVE At(n) \in told
  <2>1. PICK S, k : S = told /\ k = Len(fresh)
    OBVIOUS
  <2>2. \E i \in S : Cardinality({j \in S : j < i}) = n - 1
    BY <1>3, <2>1, PlacesFilled
  <2>3. \E i \in told : Cardinality({j \in told : j < i}) = n - 1
    BY <2>1, <2>2
  <2> HIDE DEF told
  <2> QED
    BY <2>3
<1>5. \A i \in told : fresh[i] \in Reasons
  <2>1. ASSUME NEW i \in told PROVE fresh[i] \in Reasons
    <3>1. fresh[i] \in Codes /\ Tr!HasReason(fresh[i])
      BY <1>3 DEF Reasoned
    <3> QED
      BY <3>1, CodesApart
  <2> QED
    BY <2>1
<1> HIDE DEF told, At
<1>6. ASSUME NEW i \in 1..m PROVE \E c \in Reasons : list[i] = Finding("info", {c})
  <2>1. fresh[At(i)] \in Reasons
    BY <1>4, <1>5
  <2> QED
    BY <2>1
<1>7. DOMAIN list = 1..m /\ list = [i \in 1..m |-> list[i]]
  OBVIOUS
<1> HIDE DEF list
<1>8. Listed(list)
  BY <1>1, <1>7, ListedMap
<1> QED
  BY <1>1, <1>2, <1>6, <1>7, <1>8 DEF Alarms

LEMMA AlarmsSent ==
  ASSUME NEW s, SnapShape(s), Counters(s.errors), NEW eng, eng.fresh \in Seq(Codes),
         NEW t, t = UpdateAll(s, AlarmEvents(eng))
  PROVE  /\ SnapShape(t) /\ Counters(t.errors) /\ t.adActive = s.adActive
         /\ t.p1 = eng.report.p1 /\ t.p2 = eng.report.p2
         /\ TrCounted(t.errors) = TrCounted(s.errors) + Cardinality(Reasoned(eng.fresh))
         /\ Listed(AlarmEvents(eng))
<1>1. PICK m \in Nat : m = Cardinality(Reasoned(eng.fresh))
  BY ReasonedFinite
<1>2. PICK fresh, report, ev, events :
        /\ fresh = eng.fresh /\ report = eng.report
        /\ ev = Reported(report)
        /\ events = AlarmEvents(eng)
  OBVIOUS
<1>3. PICK list : events = list \o <<ev>> /\ Alarms(list, m)
  <2>1. fresh \in Seq(Codes) /\ m = Cardinality(Reasoned(fresh))
    BY <1>1, <1>2
  <2> QED
    BY <1>2, <2>1, AlarmsTold
<1>9. PICK mid : mid = UpdateAll(s, list)
  OBVIOUS
<1>4. /\ SnapShape(mid) /\ Counters(mid.errors) /\ mid.adActive = s.adActive
      /\ TrCounted(mid.errors) = TrCounted(s.errors) + m
  BY <1>1, <1>3, <1>9, AlarmsCount DEF Alarms
<1>5. Listed(<<ev>>) /\ t = UpdateAll(mid, <<ev>>)
  <2>1. Listed(<<ev>>) /\ Listed(list)
    BY <1>3, ListedOne DEF Alarms
  <2>2. t = UpdateAll(s, list \o <<ev>>)
    BY <1>2, <1>3
  <2> QED
    BY <1>3, <1>9, <2>1, <2>2, UpdateAllJoin
<1>6. t = UpdateMetrics(mid, ev)
  <2>1. DOMAIN <<ev>> = 1..1 /\ <<ev>>[1] = ev
    OBVIOUS
  <2>2. PICK f : Runs("metrics", 0, mid, <<ev>>, 1, f) /\ f[1] = UpdateAll(mid, <<ev>>)
    BY <2>1, UpdateAllRuns
  <2>3. f[0] = mid /\ f[1] = UpdateMetrics(f[0], ev)
    BY <2>1, <2>2 DEF Runs, Turn
  <2> QED
    BY <1>5, <2>2, <2>3
<1>7. /\ SnapShape(t) /\ t.p1 = report.p1 /\ t.p2 = report.p2
      /\ t.errors = mid.errors /\ t.adActive = mid.adActive
  BY <1>2, <1>4, <1>6, ReportCounts
<1>8. Listed(AlarmEvents(eng))
  BY <1>2, <1>3, <1>5, ListedJoin DEF Alarms
<1> QED
  BY <1>1, <1>2, <1>4, <1>7, <1>8

\* The end of a segment, after its alarms.
LEMMA SegmentIsQuiet == \A got : EventList(SegmentEvents(got), FALSE)
<1> SUFFICES ASSUME NEW got PROVE EventList(SegmentEvents(got), FALSE)
  OBVIOUS
<1>1. PICK a, b, c, d, e :
        /\ a = Sampled(got.s, got.at)
        /\ b = [type |-> "Latency", latency |-> SegmentLatency(got.at)]
        /\ c = [type |-> "Buffer", buf |-> buf]
        /\ d = [type |-> "Variants", variants |-> loop.variants]
        /\ e = Finding("stalling", {"ERR_RTF_STALL_RISK"})
  OBVIOUS
<1>2. Quiet(a, FALSE)
  BY <1>1 DEF Sampled, Quiet
<1>3. Quiet(b, FALSE) /\ Quiet(c, FALSE) /\ Quiet(d, FALSE)
  BY <1>1 DEF Quiet
<1>4. Quiet(e, FALSE)
  BY <1>1, QuietFinding DEF Reasons
<1>5. PICK x, y : /\ x \in {<<e>>, << >>} /\ y \in {<< >>, <<b, c>> \o <<d>> \o x}
                  /\ SegmentEvents(got) = <<a>> \o y
  BY <1>1 DEF SegmentEvents
<1>6. EventList(<<a>>, FALSE) /\ EventList(<<b, c>>, FALSE) /\ EventList(<<d>>, FALSE)
  BY <1>2, <1>3, EventOne, EventPair
<1>7. EventList(x, FALSE)
  BY <1>4, <1>5, EventOne, EventNone
<1>8. EventList(<<b, c>> \o <<d>> \o x, FALSE)
  BY <1>6, <1>7, EventJoin
<1>9. EventList(y, FALSE)
  BY <1>5, <1>8, EventNone
<1> QED
  BY <1>5, <1>6, <1>9, EventJoin

LEMMA MediaKeeps ==
  ASSUME PlayerInv, AdInv, ReadMedia
  PROVE  AdInv'
<1>1. PICK list, mid :
        /\ Breaks(list, stream.cuesOnly)
        /\ ads' = NoteAds(ads, list)
        /\ Alike(snap, mid, FALSE)
        /\ Alike(UpdateAll(mid, AdEvents(list)), snap', FALSE)
  BY MediaTells DEF AdInv
<1>2. PICK s, t, u, kept, next, cues :
        /\ s = snap /\ t = snap' /\ u = UpdateAll(mid, AdEvents(list))
        /\ kept = ads /\ next = ads' /\ cues = stream.cuesOnly
  OBVIOUS
<1>3. SnapShape(s) /\ Counters(s.errors)
  BY <1>2 DEF AdInv, MetricsInv
<1>4. stream.proto = "hls" /\ UNCHANGED stream /\ cues \in BOOLEAN
  BY <1>2, StreamsAssumption DEF ReadMedia, PlayerInv, Clocks
<1>5. SnapShape(mid) /\ Counters(mid.errors) /\ mid.adActive = s.adActive
  BY <1>1, <1>2, <1>3, AlikeOnward DEF Alike
<1>6. Shown(s, kept, cues)
  BY <1>2, <1>4 DEF AdInv
<1>7. Shown(mid, kept, cues)
  BY <1>5, <1>6, ShownStays
<1>8. Shown(u, next, cues)
  BY <1>1, <1>2, <1>4, <1>5, <1>7, NotesShow
<1>9. Alike(u, t, FALSE)
  BY <1>1, <1>2
<1>10. Counters(u.errors)
  <2>1. PICK events : events = AdEvents(list)
    OBVIOUS
  <2>2. EventList(events, TRUE)
    BY <1>1, <2>1, AdEventsListed DEF Breaks
  <2>3. Alike(mid, u, TRUE)
    BY <1>2, <1>5, <2>1, <2>2, QuietRun
  <2> QED
    BY <1>5, <2>3, AlikeOnward
<1>11. SnapShape(t) /\ Counters(t.errors) /\ t.adActive = u.adActive
  BY <1>9, <1>10, AlikeOnward DEF Alike
<1>12. Shown(t, next, cues)
  BY <1>8, <1>11, ShownStays
<1> QED
  BY <1>2, <1>4, <1>11, <1>12 DEF AdInv, MetricsInv, Shown

LEMMA MpdKeeps ==
  ASSUME PlayerInv, AdInv, ReadMpd
  PROVE  AdInv'
<1>1. stream.proto = "dash" /\ UNCHANGED stream
  BY DEF ReadMpd
<1>2. CASE Alike(snap, snap', FALSE) /\ UNCHANGED ads
  BY <1>1, <1>2, AdInvQuiet
<1>3. ASSUME NEW list, NEW mid, Listed(list),
             ads' = [ads EXCEPT !.active = Watched(list, @)],
             Alike(snap, mid, FALSE), snap' = UpdateAll(mid, AdEvents(list))
      PROVE  AdInv'
  <2>1. PICK s, t, kept, next : /\ s = snap /\ t = snap' /\ kept = ads.active
                                /\ next = Watched(list, kept)
    OBVIOUS
  <2>2. SnapShape(s) /\ Counters(s.errors) /\ (s.adActive = 1 => kept # {})
    BY <2>1 DEF AdInv, MetricsInv
  <2>3. SnapShape(mid) /\ Counters(mid.errors) /\ mid.adActive = s.adActive
    BY <1>3, <2>1, <2>2, AlikeOnward DEF Alike
  <2>4. t.adActive = 1 => next # {}
    BY <1>3, <2>1, <2>2, <2>3, WatchShows
  <2>5. SnapShape(t) /\ Counters(t.errors)
    <3>1. PICK events : events = AdEvents(list)
      OBVIOUS
    <3>2. EventList(events, TRUE)
      BY <1>3, <3>1, AdEventsListed
    <3>3. Alike(mid, t, TRUE)
      BY <1>3, <2>1, <2>3, <3>1, <3>2, QuietRun
    <3> QED
      BY <2>3, <3>3, AlikeOnward
  <2>6. "active" \in DOMAIN ads' /\ ads'.active = next
    BY <1>1, <1>3, <2>1 DEF AdInv
  <2> QED
    BY <1>1, <2>1, <2>4, <2>5, <2>6 DEF AdInv, MetricsInv
<1> QED
  BY <1>2, <1>3, MpdTells DEF AdInv

\* What the end of a segment leaves.
LEMMA FinishTells ==
  ASSUME OrphanInv, MetricsInv, Finish
  PROVE  \/ Alike(snap, snap', FALSE) /\ UNCHANGED <<tr, ghost>>
         \/ \E window, mid :
              LET eng == Tr!Ingest(tr, window)
              IN  /\ IsList(window)
                  /\ tr' = Tr!TakeFresh(eng)
                  /\ ghost' = [ghost EXCEPT !.burst = @ \/ Len(eng.fresh) = Tr!MaxViolations]
                  /\ eng.fresh \in Seq(Codes)
                  /\ mid = UpdateAll(snap, AlarmEvents(eng))
                  /\ Alike(mid, snap', FALSE)
<1>1. PICK got \in seg :
        LET eng == Tr!Ingest(tr, Window(got))
        IN  IF Analysed(got)
            THEN /\ tr' = Tr!TakeFresh(eng)
                 /\ Send(AlarmEvents(eng) \o SegmentEvents(got))
                 /\ ghost' = [ghost EXCEPT !.burst = @ \/ Len(eng.fresh) = Tr!MaxViolations]
            ELSE /\ Send(SegmentEvents(got))
                 /\ UNCHANGED <<tr, ghost>>
  BY DEF Finish
<1>2. PICK window, eng, s, t, rest :
        /\ window = Window(got) /\ eng = Tr!Ingest(tr, window) /\ s = snap /\ t = snap'
        /\ rest = SegmentEvents(got)
  OBVIOUS
<1>3. SnapShape(s) /\ Counters(s.errors)
  BY <1>2 DEF MetricsInv
<1>4. EventList(rest, FALSE)
  BY <1>2, SegmentIsQuiet
<1>5. CASE ~Analysed(got)
  <2>1. t = UpdateAll(s, rest) /\ UNCHANGED <<tr, ghost>>
    BY <1>1, <1>2, <1>5 DEF Send
  <2>2. Alike(s, t, FALSE)
    BY <1>3, <1>4, <2>1, QuietSend
  <2> QED
    BY <1>2, <2>1, <2>2
<1>6. CASE Analysed(got)
  <2>1. /\ tr' = Tr!TakeFresh(eng)
        /\ ghost' = [ghost EXCEPT !.burst = @ \/ Len(eng.fresh) = Tr!MaxViolations]
        /\ t = UpdateAll(s, AlarmEvents(eng) \o rest)
    BY <1>1, <1>2, <1>6 DEF Send
  <2>2. IsList(window)
    BY <1>2, WindowListed DEF OrphanInv, WindowsInv
  <2>10. PICK e : e = tr
    OBVIOUS
  <2>3. e.fresh = << >> /\ Complete(e) /\ \E c \in Nat : Sound(e, c, e.orphans)
    BY <2>10 DEF OrphanInv, EngineInv
  <2>4. PICK c \in Nat : Sound(eng, c, eng.orphans)
    BY <1>2, <2>2, <2>3, <2>10, EngineTakes
  <2>5. eng.fresh \in Seq(Codes)
    BY <2>4 DEF Sound, Tally
  <2>6. PICK events, mid : events = AlarmEvents(eng) /\ mid = UpdateAll(s, events)
    OBVIOUS
  <2>7. SnapShape(mid) /\ Counters(mid.errors) /\ Listed(events)
    BY <1>3, <2>5, <2>6, AlarmsSent
  <2>8. t = UpdateAll(mid, rest)
    BY <1>4, <2>1, <2>6, <2>7, UpdateAllJoin DEF EventList
  <2>9. Alike(mid, t, FALSE)
    BY <1>4, <2>7, <2>8, QuietSend
  <2> QED
    BY <1>2, <2>1, <2>2, <2>5, <2>6, <2>9
<1> QED
  BY <1>5, <1>6

LEMMA FinishKeeps ==
  ASSUME OrphanInv, AdInv, Finish
  PROVE  AdInv'
<1>1. UNCHANGED <<stream, ads>>
  BY DEF Finish
<1>2. CASE Alike(snap, snap', FALSE)
  BY <1>1, <1>2, AdInvQuiet
<1>3. ASSUME NEW eng, NEW mid, eng.fresh \in Seq(Codes),
             mid = UpdateAll(snap, AlarmEvents(eng)), Alike(mid, snap', FALSE)
      PROVE  AdInv'
  <2>1. PICK s, t : s = snap /\ t = snap'
    OBVIOUS
  <2>2. SnapShape(s) /\ Counters(s.errors)
    BY <2>1 DEF AdInv, MetricsInv
  <2>3. SnapShape(mid) /\ Counters(mid.errors) /\ mid.adActive = s.adActive
    BY <1>3, <2>1, <2>2, AlarmsSent
  <2>4. SnapShape(t) /\ Counters(t.errors) /\ t.adActive = s.adActive
    BY <1>3, <2>1, <2>3, AlikeOnward DEF Alike
  <2> QED
    BY <1>1, <2>1, <2>4 DEF AdInv, MetricsInv, Shown
<1> QED
  BY <1>2, <1>3, FinishTells DEF AdInv

LEMMA AdInvNext ==
  ASSUME PlayerInv, OrphanInv, AdInv, [Next]_vars
  PROVE  AdInv'
<1>1. CASE QuietStep
  <2>1. stream \in Streams
    BY DEF OrphanInv, WindowsInv
  <2> QED
    BY <1>1, <2>1, QuietSteps, AdInvQuiet DEF AdInv
<1>2. CASE ReadMedia
  BY <1>2, MediaKeeps
<1>3. CASE ReadMpd
  BY <1>3, MpdKeeps
<1>4. CASE Finish
  BY <1>4, FinishKeeps
<1> QED
  BY <1>1, <1>2, <1>3, <1>4 DEF Next, QuietStep

\* WatchedBreakIsShown: NoteAds and Watched follow the breaks that AdEvents tells
\* the metrics, in the same order, so the gauge never outlives the break that
\* segments are checked against.
THEOREM WatchedBreakStaysShown == Spec => []WatchedBreakIsShown
<1>1. PlayerInv /\ AdInv => WatchedBreakIsShown
  <2>1. PlayerInv /\ stream.cuesOnly => stream.proto = "hls"
    BY StreamsAssumption DEF PlayerInv, Clocks
  <2> QED
    BY <2>1 DEF AdInv, Shown, WatchedBreakIsShown
<1>2. Init => PlayerInv /\ OrphanInv /\ AdInv
  BY PlayerInvInit, OrphanInvInit, AdInvInit
<1>3. PlayerInv /\ OrphanInv /\ AdInv /\ [Next]_vars => (PlayerInv /\ OrphanInv /\ AdInv)'
  BY PlayerInvNext, OrphanInvNext, AdInvNext
<1> QED
  BY <1>1, <1>2, <1>3, PTL DEF Spec

-----------------------------------------------------------------------------
(* Alarms                                                                   *)

\* What was counted and the alarms that have no reason make up the totals,
\* unless a window had more alarms than are kept.
Balance(r, counted, burst) ==
  LET silent == r.unref + r.ptsDisc
      total  == r.p1 + r.p2
  IN  /\ counted + silent <= total
      /\ ~burst => counted + silent = total

CountInv == MetricsInv /\ AlarmsAreCountedOnce

LEMMA SameCounts ==
  ASSUME NEW a, NEW b, NEW breaks, Alike(a, b, breaks)
  PROVE  TrCounted(b.errors) = TrCounted(a.errors) /\ b.p1 = a.p1 /\ b.p2 = a.p2
<1>1. \A code \in Reasons : Copies(b.errors, code) = Copies(a.errors, code)
  BY DEF Alike
<1>2. /\ Copies(b.errors, "P1_SYNC") = Copies(a.errors, "P1_SYNC")
      /\ Copies(b.errors, "P1_PAT") = Copies(a.errors, "P1_PAT")
      /\ Copies(b.errors, "P1_PMT") = Copies(a.errors, "P1_PMT")
      /\ Copies(b.errors, "P1_CC") = Copies(a.errors, "P1_CC")
      /\ Copies(b.errors, "P2_TEI") = Copies(a.errors, "P2_TEI")
      /\ Copies(b.errors, "P2_PCR_GAP") = Copies(a.errors, "P2_PCR_GAP")
      /\ Copies(b.errors, "P2_PCR_JITTER") = Copies(a.errors, "P2_PCR_JITTER")
  BY <1>1 DEF Reasons
<1>3. TrCounted(b.errors) = TrCounted(a.errors)
  BY <1>2 DEF TrCounted
<1> QED
  BY <1>3 DEF Alike

\* With no alarm unsent, those that were told are the totals less the silent.
LEMMA BalanceKeeps ==
  ASSUME NEW eng, eng.fresh = << >>, NEW c \in Nat, Sound(eng, c, eng.orphans),
         NEW e, Sound(e, c, e.orphans), NEW k \in Nat, NEW burst, Balance(eng.report, k, burst),
         NEW m, m = Cardinality(Reasoned(e.fresh)),
         NEW later, later = (burst \/ Len(e.fresh) = Tr!MaxViolations)
  PROVE  Balance(e.report, k + m, later)
<1>1. PICK a1, a2, a3, a4 \in Nat : /\ a1 = eng.report.p1 /\ a2 = eng.report.p2
                                    /\ a3 = eng.report.unref /\ a4 = eng.report.ptsDisc
  BY DEF Sound, Tally
<1>2. PICK b1, b2, b3, b4 \in Nat : /\ b1 = e.report.p1 /\ b2 = e.report.p2
                                    /\ b3 = e.report.unref /\ b4 = e.report.ptsDisc
  BY DEF Sound, Tally
<1>3. c + (a3 + a4) = a1 + a2
  <2>1. Len(eng.fresh) < Tr!MaxViolations
    BY DEF Tr!MaxViolations
  <2>2. Reasoned(eng.fresh) = {}
    BY DEF Reasoned
  <2>3. Cardinality(Reasoned(eng.fresh)) = 0
    BY <2>2, FS_EmptySet
  <2>4. (c + 0) + (a3 + a4) = a1 + a2
    BY <1>1, <2>1, <2>3 DEF Sound, Tally
  <2> QED
    BY <2>4
<1>4. PICK len \in Nat : /\ len = Len(e.fresh) /\ len <= Tr!MaxViolations /\ m \in Nat
                         /\ (c + m) + (b3 + b4) <= b1 + b2
                         /\ len < Tr!MaxViolations => (c + m) + (b3 + b4) = b1 + b2
  <2>1. e.fresh \in Seq(Codes) /\ Len(e.fresh) <= Tr!MaxViolations
    BY DEF Sound, Tally
  <2>2. m \in Nat
    BY <2>1, ReasonedFinite
  <2>3. /\ (c + m) + (b3 + b4) <= b1 + b2
        /\ Len(e.fresh) < Tr!MaxViolations => (c + m) + (b3 + b4) = b1 + b2
    BY <1>2 DEF Sound, Tally
  <2>4. Len(e.fresh) \in Nat
    BY <2>1
  <2> QED
    BY <2>1, <2>2, <2>3, <2>4
<1>5. k + (a3 + a4) <= a1 + a2 /\ (~burst => k + (a3 + a4) = a1 + a2)
  BY <1>1 DEF Balance
<1>6. k <= c /\ (~burst => k = c)
  BY <1>3, <1>5
<1>7. (k + m) + (b3 + b4) <= b1 + b2
  BY <1>4, <1>6
<1>8. ASSUME ~later PROVE (k + m) + (b3 + b4) = b1 + b2
  <2>1. ~burst /\ len # Tr!MaxViolations
    BY <1>4, <1>8
  <2>3. PICK max \in Nat : max = Tr!MaxViolations
    BY DEF Tr!MaxViolations
  <2>2. len < Tr!MaxViolations
    BY <1>4, <2>1, <2>3
  <2> QED
    BY <1>4, <1>6, <2>1, <2>2
<1> QED
  BY <1>2, <1>7, <1>8 DEF Balance

LEMMA CountInvInit == Init => CountInv
<1> SUFFICES ASSUME Init PROVE CountInv
  OBVIOUS
<1>1. MetricsInv
  BY AdInvInit DEF AdInv
<1>2. snap.errors = EmptyBag /\ snap.p1 = 0 /\ snap.p2 = 0
  BY DEF Init, NewSnapshot
<1>3. TrCounted(EmptyBag) = 0
  BY DEF TrCounted, Copies, EmptyBag, SetToBag
<1>4. /\ tr.report.p1 = 0 /\ tr.report.p2 = 0 /\ tr.report.unref = 0 /\ tr.report.ptsDisc = 0
  BY DEF Init, Tr!NewEngine, Tr!EmptyReport
<1> QED
  BY <1>1, <1>2, <1>3, <1>4 DEF CountInv, AlarmsAreCountedOnce

\* Where the alarms and the counters stand.
LEMMA CountsStand ==
  ASSUME CountInv, NEW ads_ \in BOOLEAN, Alike(snap, snap', ads_), UNCHANGED tr,
         ghost'.burst = ghost.burst
  PROVE  CountInv'
<1>1. MetricsInv'
  BY MetricsInvNext DEF CountInv
<1>2. PICK s, t : s = snap /\ t = snap'
  OBVIOUS
<1>3. TrCounted(t.errors) = TrCounted(s.errors) /\ t.p1 = s.p1 /\ t.p2 = s.p2
  BY <1>2, SameCounts
<1>4. AlarmsAreCountedOnce'
  BY <1>2, <1>3 DEF CountInv, AlarmsAreCountedOnce
<1> QED
  BY <1>1, <1>4 DEF CountInv

LEMMA MediaCounts ==
  ASSUME PlayerInv, CountInv, ReadMedia
  PROVE  CountInv'
<1>1. PICK list, mid :
        /\ Breaks(list, stream.cuesOnly)
        /\ Alike(snap, mid, FALSE)
        /\ Alike(UpdateAll(mid, AdEvents(list)), snap', FALSE)
  BY MediaTells DEF CountInv
<1>2. PICK s, t, events, u : /\ s = snap /\ t = snap' /\ events = AdEvents(list)
                             /\ u = UpdateAll(mid, events)
  OBVIOUS
<1>3. SnapShape(mid) /\ Counters(mid.errors)
  <2>1. Counters(s.errors) /\ Alike(s, mid, FALSE)
    BY <1>1, <1>2 DEF CountInv, MetricsInv
  <2> QED
    BY <2>1, AlikeOnward
<1>4. EventList(events, TRUE)
  BY <1>1, <1>2, AdEventsListed DEF Breaks
<1>5. Alike(mid, u, TRUE)
  BY <1>2, <1>3, <1>4, QuietRun
<1>6. Alike(s, mid, FALSE) /\ Alike(u, t, FALSE)
  BY <1>1, <1>2
<1>7. Alike(s, t, TRUE)
  BY <1>5, <1>6 DEF Alike
<1>8. UNCHANGED <<tr, ghost>>
  BY DEF ReadMedia
<1> QED
  BY <1>2, <1>7, <1>8, CountsStand

LEMMA MpdCounts ==
  ASSUME PlayerInv, CountInv, ReadMpd
  PROVE  CountInv'
<1>1. UNCHANGED <<tr, ghost>>
  BY DEF ReadMpd
<1>2. CASE Alike(snap, snap', FALSE)
  BY <1>1, <1>2, CountsStand
<1>3. ASSUME NEW list, NEW mid, Listed(list),
             Alike(snap, mid, FALSE), snap' = UpdateAll(mid, AdEvents(list))
      PROVE  CountInv'
  <2>1. PICK s, t, events : s = snap /\ t = snap' /\ events = AdEvents(list)
    OBVIOUS
  <2>2. Counters(s.errors) /\ Alike(s, mid, FALSE)
    BY <1>3, <2>1 DEF CountInv, MetricsInv
  <2>3. SnapShape(mid) /\ Counters(mid.errors)
    BY <2>2, AlikeOnward
  <2>4. EventList(events, TRUE)
    BY <1>3, <2>1, AdEventsListed
  <2>5. Alike(mid, t, TRUE)
    BY <1>3, <2>1, <2>3, <2>4, QuietRun
  <2>6. Alike(s, t, TRUE)
    BY <2>2, <2>5 DEF Alike
  <2> QED
    BY <1>1, <2>1, <2>6, CountsStand
<1> QED
  BY <1>2, <1>3, MpdTells DEF CountInv

LEMMA FinishCounts ==
  ASSUME PlayerInv, OrphanInv, CountInv, Finish
  PROVE  CountInv'
<1>1. CASE Alike(snap, snap', FALSE) /\ UNCHANGED <<tr, ghost>>
  BY <1>1, CountsStand
<1>2. ASSUME NEW window, NEW mid, NEW e, e = Tr!Ingest(tr, window), IsList(window),
             tr' = Tr!TakeFresh(e),
             ghost' = [ghost EXCEPT !.burst = @ \/ Len(e.fresh) = Tr!MaxViolations],
             e.fresh \in Seq(Codes),
             mid = UpdateAll(snap, AlarmEvents(e)), Alike(mid, snap', FALSE)
      PROVE  CountInv'
  <2>1. PICK s, t, eng, tnext, report, burst, later :
          /\ s = snap /\ t = snap' /\ eng = tr /\ tnext = tr' /\ report = e.report
          /\ burst = ghost.burst /\ later = (burst \/ Len(e.fresh) = Tr!MaxViolations)
    OBVIOUS
  <2>2. eng.fresh = << >> /\ Complete(eng) /\ \E c \in Nat : Sound(eng, c, eng.orphans)
    BY <2>1 DEF OrphanInv, EngineInv
  <2>3. PICK c \in Nat : Sound(eng, c, eng.orphans)
    BY <2>2
  <2>4. Sound(e, c, e.orphans) /\ tnext.report = report
    <3>1. e = Tr!Ingest(eng, window) /\ tnext = Tr!TakeFresh(e)
      BY <1>2, <2>1
    <3> QED
      BY <1>2, <2>1, <2>2, <2>3, <3>1, EngineTakes
  <2>5. SnapShape(s) /\ Counters(s.errors)
    BY <2>1 DEF CountInv, MetricsInv
  <2>6. PICK k, m : k = TrCounted(s.errors) /\ m = Cardinality(Reasoned(e.fresh))
    OBVIOUS
  <2>7. k \in Nat
    BY <2>5, <2>6, CountedIsNumber
  <2>8. Balance(eng.report, k, burst)
    BY <2>1, <2>6 DEF CountInv, AlarmsAreCountedOnce, Balance
  <2>9. Balance(report, k + m, later)
    BY <2>1, <2>2, <2>3, <2>4, <2>6, <2>7, <2>8, BalanceKeeps
  <2>10. /\ Counters(mid.errors) /\ SnapShape(mid) /\ mid.p1 = report.p1 /\ mid.p2 = report.p2
         /\ TrCounted(mid.errors) = k + m
    <3>1. mid = UpdateAll(s, AlarmEvents(e))
      BY <1>2, <2>1
    <3> QED
      BY <1>2, <2>1, <2>5, <2>6, <3>1, AlarmsSent
  <2>11. Alike(mid, t, FALSE)
    BY <1>2, <2>1
  <2>12. TrCounted(t.errors) = k + m /\ t.p1 = report.p1 /\ t.p2 = report.p2
    BY <2>10, <2>11, SameCounts
  <2>13. SnapShape(t) /\ Counters(t.errors)
    BY <2>10, <2>11, AlikeOnward
  <2>14. ghost'.burst = later
    BY <1>2, <2>1 DEF PlayerInv, Clocks
  <2>15. AlarmsAreCountedOnce'
    BY <2>1, <2>4, <2>9, <2>12, <2>14 DEF AlarmsAreCountedOnce, Balance
  <2> QED
    BY <2>1, <2>13, <2>15 DEF CountInv, MetricsInv
<1> QED
  BY <1>1, <1>2, FinishTells DEF CountInv

LEMMA CountInvNext ==
  ASSUME PlayerInv, OrphanInv, CountInv, [Next]_vars
  PROVE  CountInv'
<1>1. CASE QuietStep
  <2>1. stream \in Streams
    BY DEF OrphanInv, WindowsInv
  <2>2. Alike(snap, snap', FALSE) /\ UNCHANGED tr
    BY <1>1, <2>1, QuietSteps DEF CountInv
  <2>3. ghost'.burst = ghost.burst
    <3>1. CASE FetchSegment
      <4>1. PICK s : ghost' = [ghost EXCEPT
              !.secs = AtMost(LeftOf(@, ghost.at, now + s.secs) + DurationOf(s), BufferCap),
              !.at = now + s.secs, !.downloads = @ + s.secs, !.used = {}]
        BY <3>1, Zenon DEF FetchSegment
      <4>2. PICK x, y, z : ghost' = [ghost EXCEPT !.secs = x, !.at = y, !.downloads = z, !.used = {}]
        BY <4>1
      <4> QED
        BY <4>2 DEF PlayerInv, Clocks
    <3>2. CASE KeyHeld \/ KeyFetched
      <4>1. PICK x : ghost' = [ghost EXCEPT !.used = x]
        BY <3>2 DEF KeyHeld, KeyFetched
      <4> QED
        BY <4>1 DEF PlayerInv, Clocks
    <3>3. CASE ~(FetchSegment \/ KeyHeld \/ KeyFetched)
      BY <1>1, <3>3 DEF QuietStep, StartPoll, PollFails, EndCycle, ReadMaster, EndMpd, FetchFails,
                        KeyAnswered, Rotate, vars
    <3> QED
      BY <3>1, <3>2, <3>3
  <2> QED
    BY <2>2, <2>3, CountsStand
<1>2. CASE ReadMedia
  BY <1>2, MediaCounts
<1>3. CASE ReadMpd
  BY <1>3, MpdCounts
<1>4. CASE Finish
  BY <1>4, FinishCounts
<1> QED
  BY <1>1, <1>2, <1>3, <1>4 DEF Next, QuietStep

\* AlarmsAreCountedOnce: the totals of the engine reach the metrics with the
\* report and the counters through the findings of take_new_checks, and the two
\* agree as long as no window has more alarms than are kept.
THEOREM AlarmsStayCounted == Spec => []AlarmsAreCountedOnce
<1>1. CountInv => AlarmsAreCountedOnce
  BY DEF CountInv
<1>2. Init => PlayerInv /\ OrphanInv /\ CountInv
  BY PlayerInvInit, OrphanInvInit, CountInvInit
<1>3. PlayerInv /\ OrphanInv /\ CountInv /\ [Next]_vars => (PlayerInv /\ OrphanInv /\ CountInv)'
  BY PlayerInvNext, OrphanInvNext, CountInvNext
<1> QED
  BY <1>1, <1>2, <1>3, PTL DEF Spec

=============================================================================
