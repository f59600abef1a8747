----------------------------- MODULE ScreenProofs -----------------------------
(***************************************************************************)
(* One channel is polled at a time and the cleared panes show it alone,    *)
(* for every catalog, queue and number of channels opened, whatever the    *)
(* user types and however late the tasks left behind end.  The highlighted *)
(* row is the channel Enter opens, the log filter named is the one applied *)
(* and Esc always leads out.                                               *)
(***************************************************************************)
EXTENDS Screen, SequenceTheorems, FiniteSetTheorems, TLAPS

States == Live \cup {"none", "done"}

\* OneSession is not inductive: that a switch leaves no task running that was
\* not told to stop needs that all tasks before the latest were, and that
\* there is none after it.
Sessions ==
  /\ latest \in 0..MaxPollers
  /\ poller \in [Pollers -> States]
  /\ aborted \subseteq Pollers
  /\ \A p \in Pollers : poller[p] \in Live => p <= latest
  /\ \A p \in Pollers : p < latest => p \in aborted
  /\ mode = "Picker" \/ run = "ended" =>
       \A p \in Pollers : poller[p] \in Live => p \in aborted

\* ShownIsLatest needs that whatever waits in the queue is of the latest
\* poller, since events do not say whose they are.
Events(p) == Seq([from : {p}, kind : Kinds])
Shown ==
  /\ queue \in Events(latest)
  /\ shown \in [Panes -> SUBSET Nat]
  /\ ShownIsLatest

SInv == Sessions /\ Shown

-----------------------------------------------------------------------------
\* The shorter of the queue's capacity and what is offered.
LEMMA MinOfTwo ==
  ASSUME NEW a \in Nat, NEW b \in Nat
  PROVE  Min({a, b}) \in Nat /\ Min({a, b}) <= b
<1>1. \E x \in {a, b} : \A y \in {a, b} : x =< y
  BY SMT
<1> QED
  BY <1>1 DEF Min

LEMMA ToldIsOf == ASSUME NEW p, NEW kind PROVE Told(p, kind) \in Events(p)
<1>1. CASE kind \in Kinds
  BY <1>1 DEF Told, Events
<1>2. CASE kind \notin Kinds
  BY <1>2 DEF Told, Events
<1> QED
  BY <1>1, <1>2

LEMMA BothAreOf ==
  ASSUME NEW p, NEW s \in Events(p), NEW t \in Events(p)
  PROVE  s \o t \in Events(p)
BY ConcatProperties DEF Events

\* Only the latest poller's events enter the queue of the screen.
LEMMA OfferKeeps ==
  ASSUME NEW p, NEW events \in Events(p), queue \in Events(latest), Offer(p, events)
  PROVE  queue' \in Events(latest)
<1>1. CASE Receiving(p)
  <2> DEFINE all == queue \o events
             cut == Min({Capacity, Len(all)})
  <2>1. p = latest
    BY <1>1 DEF Receiving
  <2>2. all \in Events(latest)
    BY <2>1, BothAreOf
  <2>3. Len(all) \in Nat
    BY <2>2 DEF Events
  <2>4. cut \in Nat /\ cut <= Len(all)
    BY <2>3, MinOfTwo, ScreenAssumption
  <2>5. queue' = SubSeq(all, 1, cut)
    BY <1>1 DEF Offer
  <2> HIDE DEF all, cut
  <2> DEFINE S == [from : {latest}, kind : Kinds]
  <2>6. 1 \in Int /\ cut \in Int /\ \A i \in 1..cut : all[i] \in S
    <3>1. all \in Seq(S)
      BY <2>2 DEF Events
    <3> HIDE DEF S
    <3> QED
      BY <2>3, <2>4, <3>1
  <2>7. SubSeq(all, 1, cut) \in Seq(S)
    <3> HIDE DEF S
    <3> QED
      BY <2>6, SubSeqProperties
  <2> QED
    BY <2>5, <2>7 DEF Events
<1>2. CASE ~Receiving(p)
  BY <1>2 DEF Offer
<1> QED
  BY <1>1, <1>2

-----------------------------------------------------------------------------
(* The tasks. *)

\* A task that goes on or ends was there before: no step of one starts another.
LEMMA TaskSteps ==
  ASSUME SInv, NEW p \in Pollers, NEW from \in Live, NEW to \in {"detecting", "polling", "done"},
         Step(p, from, to), UNCHANGED <<mode, run, latest, aborted>>
  PROVE  Sessions'
<1>1. \A q \in Pollers : poller'[q] \in Live => poller[q] \in Live
  BY DEF SInv, Sessions, Step
<1>2. poller' \in [Pollers -> States]
  BY DEF SInv, Sessions, Step, States, Live
<1> QED
  BY <1>1, <1>2 DEF SInv, Sessions

LEMMA ShownStays ==
  ASSUME SInv, queue' \in Events(latest), UNCHANGED <<latest, shown>>
  PROVE  Shown'
BY DEF SInv, Shown, ShownIsLatest

LEMMA PollerSteps ==
  ASSUME SInv, NEW p \in Pollers, Poller(p) \/ DropTask(p) \/ HookEnds(p)
  PROVE  SInv'
<1>0. queue \in Events(latest)
  BY DEF SInv, Shown
<1>1. CASE Begin(p)
  <2>1. queue' \in Events(latest)
    BY <1>0, <1>1, ToldIsOf, BothAreOf, OfferKeeps DEF Begin
  <2> QED
    BY <1>1, <2>1, TaskSteps, ShownStays DEF Begin, view, Live, SInv
<1>2. CASE Detect(p)
  <2>1. queue' \in Events(latest)
    BY <1>0, <1>2, ToldIsOf, OfferKeeps DEF Detect
  <2> QED
    BY <1>2, <2>1, TaskSteps, ShownStays DEF Detect, view, Live, SInv
<1>3. CASE GiveUp(p)
  <2>1. queue' \in Events(latest)
    BY <1>0, <1>3, ToldIsOf, BothAreOf, OfferKeeps DEF GiveUp
  <2> QED
    BY <1>3, <2>1, TaskSteps, ShownStays DEF GiveUp, view, Live, SInv
<1>4. CASE Poll(p)
  <2>1. queue' \in Events(latest)
    BY <1>0, <1>4, ToldIsOf, OfferKeeps DEF Poll
  <2>2. UNCHANGED <<mode, run, latest, poller, aborted, shown>>
    BY <1>4 DEF Poll, view, tasks
  <2> QED
    BY <2>1, <2>2, ShownStays DEF SInv, Sessions
<1>5. CASE DropTask(p)
  <2>1. queue' \in Events(latest)
    BY <1>0, <1>5 DEF DropTask
  <2> QED
    BY <1>5, <2>1, TaskSteps, ShownStays DEF DropTask, view, SInv
<1>6. CASE HookEnds(p)
  <2>1. UNCHANGED <<mode, run, latest, poller, aborted, shown, queue>>
    BY <1>6 DEF HookEnds, view
  <2> QED
    BY <1>0, <2>1, ShownStays DEF SInv, Sessions
<1> QED
  BY <1>1, <1>2, <1>3, <1>4, <1>5, <1>6 DEF Poller

-----------------------------------------------------------------------------
(* The event loop and the keys. *)

LEMMA ApplyKeeps == SInv /\ ApplyEvent => SInv'
<1> SUFFICES ASSUME SInv, ApplyEvent PROVE SInv'
  OBVIOUS
<1> DEFINE event == Head(queue)
<1>1. event \in [from : {latest}, kind : Kinds] /\ queue' \in Events(latest)
  BY HeadTailProperties DEF ApplyEvent, SInv, Shown, Events
<1>2. UNCHANGED <<mode, run, latest, poller, aborted>>
  BY DEF ApplyEvent, view, tasks
<1>3. event.from = latest
  BY <1>1
<1>4. \A pane \in Panes : shown'[pane] \in {shown[pane], {latest}, shown[pane] \cup {latest}}
  BY <1>3 DEF ApplyEvent
<1>5. DOMAIN shown' = Panes
  BY DEF ApplyEvent
<1>6. shown' \in [Panes -> SUBSET Nat]
  <2>1. latest \in Nat
    BY DEF SInv, Sessions
  <2>2. \A pane \in Panes : shown'[pane] \in SUBSET Nat
    BY <1>4, <2>1 DEF SInv, Shown
  <2>3. shown' = [pane \in Panes |-> shown'[pane]]
    BY DEF ApplyEvent
  <2> QED
    BY <2>2, <2>3
<1>7. ShownIsLatest'
  BY <1>2, <1>4 DEF SInv, Shown, ShownIsLatest, Panes
<1> QED
  BY <1>1, <1>2, <1>6, <1>7 DEF SInv, Sessions, Shown

\* Clearing only removes data.
LEMMA ClearShrinks ==
  ASSUME NEW panes, shown \in [Panes -> SUBSET Nat]
  PROVE  /\ Clear(panes) \in [Panes -> SUBSET Nat]
         /\ \A pane \in Panes : Clear(panes)[pane] \subseteq shown[pane]
         /\ \A pane \in Panes : pane \in panes => Clear(panes)[pane] = {}
BY DEF Clear

LEMMA EndKeeps == SInv /\ End => SInv'
<1> SUFFICES ASSUME SInv, End PROVE SInv'
  OBVIOUS
<1>1. aborted' = aborted \cup (1..latest) /\ queue' = <<>>
      /\ UNCHANGED <<latest, poller, shown>>
  BY DEF End, AbortPoller
<1>2. Sessions'
  BY <1>1, ScreenAssumption DEF SInv, Sessions, Pollers
<1>3. queue' \in Events(latest)
  BY <1>1 DEF Events
<1> QED
  BY <1>1, <1>2, <1>3, ShownStays DEF SInv

LEMMA SwitchKeeps ==
  ASSUME SInv, run = "running", NEW channel, SwitchChannel(channel)
  PROVE  SInv'
<1>1. /\ aborted' = aborted \cup (1..latest) /\ queue' = <<>>
      /\ latest < MaxPollers /\ latest' = latest + 1
      /\ \/ UNCHANGED <<poller, mode>> /\ run' = "failed"
         \/ /\ poller' = [poller EXCEPT ![latest'] = "spawned"]
            /\ mode' = "Diagnostic" /\ UNCHANGED run
  BY DEF SwitchChannel, SpawnPoller, AbortPoller
<1>2. latest \in 0..MaxPollers /\ latest' \in 1..MaxPollers
  BY <1>1, ScreenAssumption DEF SInv, Sessions
<1>3. Sessions'
  <2>1. poller' \in [Pollers -> States]
    BY <1>1 DEF SInv, Sessions, States, Live
  <2>2. \A q \in Pollers : poller'[q] \in Live => poller[q] \in Live \/ q = latest'
    BY <1>1 DEF SInv, Sessions
  <2>3. \A q \in Pollers : q < latest' => q \in aborted'
    BY <1>1, <1>2 DEF Pollers
  <2>4. aborted' \subseteq Pollers
    BY <1>1, <1>2, ScreenAssumption DEF SInv, Sessions, Pollers
  <2>5. \A q \in Pollers : poller'[q] \in Live => q <= latest'
    BY <1>1, <1>2, <2>2 DEF SInv, Sessions, Pollers
  <2>6. mode' = "Picker" \/ run' = "ended" =>
          \A q \in Pollers : poller'[q] \in Live => q \in aborted'
    BY <1>1, <1>2 DEF SInv, Sessions, Pollers
  <2> QED
    BY <1>2, <2>1, <2>3, <2>4, <2>5, <2>6 DEF Sessions
<1>4. shown' = Clear(Cleared \cup {"active_url"})
  BY DEF SwitchChannel
<1>5. queue' \in Events(latest')
  BY <1>1 DEF Events
<1>6. shown' \in [Panes -> SUBSET Nat] /\ ShownIsLatest'
  BY <1>4, ClearShrinks DEF SInv, Shown, ShownIsLatest, Panes
<1> QED
  BY <1>3, <1>5, <1>6 DEF SInv, Shown, Events

LEMMA ReturnKeeps == SInv /\ run = "running" /\ ReturnToPicker => SInv'
<1> SUFFICES ASSUME SInv, run = "running", ReturnToPicker PROVE SInv'
  OBVIOUS
<1>1. aborted' = aborted \cup (1..latest) /\ UNCHANGED <<run, latest, poller, queue>>
  BY DEF ReturnToPicker, AbortPoller
<1>2. Sessions'
  BY <1>1, ScreenAssumption DEF SInv, Sessions, Pollers
<1>3. shown' = Clear({"status"})
  BY DEF ReturnToPicker
<1>4. Shown'
  BY <1>1, <1>3, ClearShrinks DEF SInv, Shown, ShownIsLatest, Panes
<1> QED
  BY <1>2, <1>4 DEF SInv

\* A key that opens no channel and does not go back to the list leaves the
\* tasks and the queue alone.
LEMMA OtherKeys ==
  ASSUME SInv, UNCHANGED <<mode, tasks, queue>>, run' # "ended",
         shown' = shown \/ \E panes : shown' = Clear(panes)
  PROVE  SInv'
<1>1. UNCHANGED <<mode, latest, poller, aborted, queue>>
  BY DEF tasks
<1>2. Sessions'
  BY <1>1 DEF SInv, Sessions
<1>3. shown' \in [Panes -> SUBSET Nat] /\ \A pane \in Panes : shown'[pane] \subseteq shown[pane]
  BY ClearShrinks DEF SInv, Shown
<1> QED
  BY <1>1, <1>2, <1>3 DEF SInv, Shown, ShownIsLatest, Panes

LEMMA PressKeeps == ASSUME SInv, NEW key, Press(key) PROVE SInv'
<1> USE DEF view, logFilter
<1>0. run = "running"
  BY DEF Press
<1>1. CASE Quit
  BY <1>1, OtherKeys DEF Quit
<1>2. CASE CloseHelp \/ OpenHelp(key) \/ Typing(key) \/ ChooseFilter(key)
  BY <1>0, <1>2, OtherKeys DEF CloseHelp, OpenHelp, Typing, ChooseFilter
<1>3. CASE ResetMetrics(key)
  BY <1>0, <1>3, OtherKeys DEF ResetMetrics
<1>4. CASE Export(key) \/ OpenPicker(key)
  BY <1>0, <1>4, OtherKeys DEF Export, OpenPicker
<1>5. CASE KeyInPicker(key)
  <2>1. CASE \E channel : SwitchChannel(channel)
    BY <1>0, <2>1, SwitchKeeps
  <2>2. CASE ~\E channel : SwitchChannel(channel)
    <3>1. UNCHANGED <<mode, tasks, queue, shown>> /\ run' \in {run, "quitting"}
      BY <1>5, <2>2 DEF KeyInPicker
    <3> QED
      BY <1>0, <3>1, OtherKeys
  <2> QED
    BY <2>1, <2>2
<1>6. CASE Leave(key)
  BY <1>0, <1>1, <1>6, ReturnKeeps DEF Leave
<1> QED
  BY <1>1, <1>2, <1>3, <1>4, <1>5, <1>6 DEF Press

-----------------------------------------------------------------------------
LEMMA SInvInit == Init => SInv
<1> SUFFICES ASSUME Init PROVE SInv
  OBVIOUS
<1>1. latest \in 0..MaxPollers /\ latest \in {0, 1} /\ (mode = "Picker" => latest = 0)
  BY ScreenAssumption DEF Init
<1>2. poller \in [Pollers -> States] /\ \A p \in Pollers : poller[p] \in Live => p <= latest
  BY DEF Init, States, Live
<1>3. Sessions
  BY <1>1, <1>2 DEF Init, Sessions, Pollers
<1>4. Shown
  BY DEF Init, Shown, Events, ShownIsLatest, Panes
<1> QED
  BY <1>3, <1>4 DEF SInv

LEMMA SInvStep == SInv /\ [Next]_vars => SInv'
<1> SUFFICES ASSUME SInv, [Next]_vars PROVE SInv'
  OBVIOUS
<1>1. CASE UNCHANGED vars
  BY <1>1 DEF vars, view, tasks, SInv, Sessions, Shown, ShownIsLatest
<1> QED
  BY <1>1, PressKeeps, ApplyKeeps, EndKeeps, PollerSteps DEF Next

LEMMA AlwaysSInv == Spec => []SInv
BY SInvInit, SInvStep, PTL DEF Spec

\* Every poller task but the latest has been told to stop, and that one too in
\* the channel list and after the loop, whatever channels were opened, refused
\* or left (spawn_poller, return_to_picker, run).
THEOREM OneAtATime == Spec => []OneSession
<1>1. SInv => OneSession
  BY DEF SInv, Sessions, OneSession, Pollers
<1> QED
  BY <1>1, AlwaysSInv, PTL

\* No cleared pane shows what another channel's poller measured, however late
\* its events come and however many channels were opened (switch_channel,
\* reset_metrics_silent, spawn_poller).
THEOREM PanesShowTheirChannel == Spec => []ShownIsLatest
<1>1. SInv => ShownIsLatest
  BY DEF SInv, Shown
<1> QED
  BY <1>1, AlwaysSInv, PTL

-----------------------------------------------------------------------------
(* The channel list: the row it highlights.                                *)

\* A set of positions that is not empty has a first one.
LEMMA FirstOf ==
  ASSUME NEW positions \in SUBSET Nat, positions # {}
  PROVE  Min(positions) \in positions
<1>1. \E x \in positions : \A y \in positions : ~(<<y, x>> \in OpToRel(<, Nat))
  BY NatLessThanWellFounded, WFMin
<1>2. \A x, y \in Nat : ~(<<y, x>> \in OpToRel(<, Nat)) => x <= y
  BY DEF OpToRel
<1>3. \E x \in positions : \A y \in positions : x =< y
  BY <1>1, <1>2
<1> QED
  BY <1>3 DEF Min

\* The row found for a channel is one of the list's and holds that channel.
LEMMA RowHolds ==
  ASSUME NEW S, NEW list \in Seq(S), NEW channel
  PROVE  /\ RowOf(list, channel) \in 0..Len(list)
         /\ RowOf(list, channel) # 0 => list[RowOf(list, channel)] = channel
         /\ (\E i \in 1..Len(list) : list[i] = channel) => RowOf(list, channel) # 0
<1> DEFINE rows == {i \in 1..Len(list) : list[i] = channel}
<1>1. RowOf(list, channel) = IF rows # {} THEN Min(rows) ELSE 0
  BY DEF RowOf, SelectInSeq
<1>2. Len(list) \in Nat
  BY LenProperties
<1>3. rows # {} => Min(rows) \in rows
  <2>1. rows \in SUBSET Nat
    OBVIOUS
  <2> HIDE DEF rows
  <2> QED
    BY <2>1, FirstOf
<1> QED
  BY <1>1, <1>2, <1>3

\* The filtered list is a sequence; unfiltered, it begins with the first channel.
LEMMA FilteredList == ASSUME NEW query PROVE \E S : Filtered(query) \in Seq(S)
<1> DEFINE matching == {i \in Catalog : Contained(query, Names[i])}
           list == Filtered(query)
<1>1. Cardinality(matching) \in Nat
  <2>1. Catalog = 1..Len(Names) /\ Len(Names) \in Nat
    BY LenProperties, PickerAssumption DEF Catalog
  <2>2. IsFiniteSet(Catalog)
    BY <2>1, FS_Interval
  <2> QED
    BY <2>2, FS_Subset, FS_CardinalityType
<1>2. list = [n \in 1..Cardinality(matching) |-> list[n]]
  BY DEF Filtered
<1> HIDE DEF matching, list
<1>3. list \in Seq({list[n] : n \in 1..Cardinality(matching)})
  BY <1>1, <1>2
<1> QED
  BY <1>3 DEF list

LEMMA UnfilteredList ==
  ASSUME Names # <<>>
  PROVE  1 \in DOMAIN Filtered(<<>>) /\ Filtered(<<>>)[1] = 1
<1> DEFINE matching == {i \in Catalog : Contained(<<>>, Names[i])}
           Before(i) == {k \in matching : k < i}
<1>1. Catalog = 1..Len(Names) /\ Len(Names) \in Nat \ {0}
  BY LenProperties, EmptySeq, PickerAssumption DEF Catalog
<1>2. ASSUME NEW i \in Catalog PROVE Contained(<<>>, Names[i])
  <2>1. Names[i] \in Seq(STRING)
    BY <1>1, ElementOfSeq, PickerAssumption
  <2>2. Len(Names[i]) \in Nat /\ Len(<<>>) = 0
    BY <2>1, LenProperties
  <2>3. SubSeq(Names[i], 0 + 1, 0 + 0) = <<>>
    BY <2>1, <2>2
  <2> QED
    BY <2>2, <2>3 DEF Contained
<1>3. matching = 1..Len(Names)
  BY <1>1, <1>2
<1>4. Filtered(<<>>) = [n \in 1..Cardinality(matching) |->
                          CHOOSE i \in matching : Cardinality(Before(i)) = n - 1]
  BY DEF Filtered
<1> HIDE DEF matching
<1>5. Cardinality(matching) \in Nat \ {0} /\ IsFiniteSet(matching)
  BY <1>1, <1>3, FS_Interval
<1>6. 1 \in matching /\ Before(1) = {}
  BY <1>1, <1>3
<1>7. ASSUME NEW i \in matching, Cardinality(Before(i)) = 0 PROVE i = 1
  <2>1. Before(i) \in SUBSET matching /\ (1 \notin Before(i) => i = 1)
    BY <1>1, <1>3
  <2> HIDE DEF Before
  <2>2. Before(i) = {}
    BY <1>5, <1>7, <2>1, FS_EmptySet, FS_Subset
  <2> QED
    BY <2>1, <2>2
<1> HIDE DEF Before
<1>8. Cardinality(Before(1)) = 0
  BY <1>6, FS_EmptySet
<1>9. (CHOOSE i \in matching : Cardinality(Before(i)) = 0) = 1
  BY <1>6, <1>7, <1>8
<1>10. 1 - 1 = 0 /\ 1 \in 1..Cardinality(matching)
  BY <1>5
<1>11. Filtered(<<>>)[1] = CHOOSE i \in matching : Cardinality(Before(i)) = 1 - 1
  BY <1>4, <1>10
<1> QED
  BY <1>4, <1>9, <1>10, <1>11

\* Fields: an update of a picker is a picker.  Highlighted: the highlighted row
\* holds the selected channel, and there is none exactly in an empty list.
Fields(p) ==
  {"selected", "query", "searching", "row"} \subseteq DOMAIN p /\ p.searching \in BOOLEAN
Highlighted(p) ==
  LET list == Filtered(p.query)
  IN  IF p.row = 0 THEN list = <<>> ELSE p.row \in DOMAIN list /\ p.selected = list[p.row]

\* Where the cursor is put on a row of the filtered list, that row is
\* highlighted.
LEMMA AtHighlights ==
  ASSUME NEW p, Fields(p), NEW row,
         Filtered(p.query) = <<>> \/ row \in 1..Len(Filtered(p.query))
  PROVE  LET after == At(p, Filtered(p.query), row)
         IN  Fields(after) /\ Highlighted(after) /\ after.searching = p.searching
<1> DEFINE list == Filtered(p.query)
           after == At(p, list, row)
<1>1. PICK S : list \in Seq(S)
  BY FilteredList
<1>2. list = <<>> \/ row \in 1..Len(list)
  OBVIOUS
<1> HIDE DEF list
<1>3. /\ DOMAIN after = DOMAIN p
      /\ after.query = p.query /\ after.searching = p.searching
      /\ IF list = <<>> THEN after.row = 0 ELSE after.selected = list[row] /\ after.row = row
  BY DEF At, Fields
<1>4. Filtered(after.query) = list
  BY <1>3 DEF list
<1> HIDE DEF after
<1>5. Highlighted(after)
  BY <1>1, <1>2, <1>3, <1>4, LenProperties DEF Highlighted
<1> QED
  BY <1>3, <1>5 DEF Fields, after, list

\* The cursor is on a row of any list that is not empty, and on the selected
\* channel's if the list has one.
LEMMA CursorOnRow ==
  ASSUME NEW S, NEW list \in Seq(S), list # <<>>, NEW p
  PROVE  /\ Cursor(p, list) \in 1..Len(list)
         /\ (\E i \in 1..Len(list) : list[i] = p.selected) => list[Cursor(p, list)] = p.selected
<1>1. Len(list) \in Nat \ {0}
  BY LenProperties, EmptySeq
<1>2. /\ RowOf(list, p.selected) \in 0..Len(list)
      /\ RowOf(list, p.selected) # 0 => list[RowOf(list, p.selected)] = p.selected
      /\ (\E i \in 1..Len(list) : list[i] = p.selected) => RowOf(list, p.selected) # 0
  BY RowHolds
<1> QED
  BY <1>1, <1>2 DEF Cursor

LEMMA HighlightIsSelectedChannel ==
  ASSUME NEW p, Highlighted(p)
  PROVE  HighlightIsSelected(p)
<1> DEFINE list == Filtered(p.query)
<1>1. PICK S : list \in Seq(S)
  BY FilteredList
<1>2. IF p.row = 0 THEN list = <<>> ELSE p.row \in DOMAIN list /\ p.selected = list[p.row]
  BY DEF Highlighted
<1>3. SelectCurrent(p) = IF list = <<>> THEN 0 ELSE list[Cursor(p, list)]
  BY DEF SelectCurrent
<1>4. HighlightIsSelected(p) <=>
        IF p.row = 0 THEN list = <<>> /\ SelectCurrent(p) = 0
        ELSE p.row \in DOMAIN list /\ p.selected = list[p.row] /\ SelectCurrent(p) = p.selected
  BY DEF HighlightIsSelected
<1> HIDE DEF list
<1>5. p.row # 0 => list # <<>> /\ p.row \in 1..Len(list)
  BY <1>1, <1>2, LenProperties, EmptySeq
<1>6. p.row # 0 => SelectCurrent(p) = p.selected
  BY <1>1, <1>2, <1>3, <1>5, CursorOnRow
<1> QED
  BY <1>2, <1>3, <1>4, <1>6

\* The moves of the picker keep the row on the selected channel.
LEMMA SyncHighlights ==
  ASSUME NEW p, Fields(p)
  PROVE  LET after == SyncVisual(p)
         IN  Fields(after) /\ Highlighted(after) /\ after.searching = p.searching
<1> DEFINE list == Filtered(p.query)
           row == Cursor(p, list)
<1>1. PICK S : list \in Seq(S)
  BY FilteredList
<1>2. list = <<>> \/ row \in 1..Len(list)
  BY <1>1, CursorOnRow
<1>3. SyncVisual(p) = At(p, Filtered(p.query), row)
  BY DEF SyncVisual
<1> HIDE DEF row
<1> QED
  BY <1>2, <1>3, AtHighlights

LEMMA JumpHighlights ==
  ASSUME NEW p, Fields(p)
  PROVE  LET after == JumpFirstFiltered(p)
         IN  Fields(after) /\ Highlighted(after) /\ after.searching = p.searching
<1>1. PICK S : Filtered(p.query) \in Seq(S)
  BY FilteredList
<1>2. Filtered(p.query) = <<>> \/ 1 \in 1..Len(Filtered(p.query))
  BY <1>1, LenProperties, EmptySeq
<1> QED
  BY <1>2, AtHighlights DEF JumpFirstFiltered

LEMMA MoveHighlights ==
  ASSUME NEW p, Fields(p), Highlighted(p), NEW delta \in Int
  PROVE  LET after == MoveBy(p, delta)
         IN  Fields(after) /\ Highlighted(after) /\ after.searching = p.searching
<1> DEFINE list == Filtered(p.query)
           next == Cursor(p, list) + delta
           row == IF next < 1 THEN 1 ELSE IF next > Len(list) THEN Len(list) ELSE next
<1>1. PICK S : list \in Seq(S)
  BY FilteredList
<1>2. MoveBy(p, delta) = IF list = <<>> THEN p ELSE At(p, Filtered(p.query), row)
  BY DEF MoveBy
<1>3. list # <<>> => row \in 1..Len(list)
  <2> HIDE DEF list
  <2>1. list # <<>> => Cursor(p, list) \in 1..Len(list) /\ Len(list) \in Nat
    BY <1>1, CursorOnRow, LenProperties
  <2> QED
    BY <2>1
<1> HIDE DEF row
<1>4. CASE list = <<>>
  BY <1>2, <1>4
<1>5. CASE list # <<>>
  BY <1>2, <1>3, <1>5, AtHighlights
<1> QED
  BY <1>4, <1>5

\* Whatever key the picker takes.
LEMMA KeyHighlights ==
  ASSUME NEW p, Fields(p), Highlighted(p), NEW key
  PROVE  Fields(PickerKey(p, key).picker) /\ Highlighted(PickerKey(p, key).picker)
<1> DEFINE Good(q) == Fields(q) /\ Highlighted(q)
<1>1. /\ \A q, action : Result(q, action).picker = q
      /\ \A q : Selecting(q).picker = q
  BY DEF Result, Selecting
<1>2. \A flag \in BOOLEAN : Good([p EXCEPT !.searching = flag])
  BY DEF Fields, Highlighted
<1>3. Good(CloseSearch(p))
  <2> DEFINE q == [p EXCEPT !.searching = FALSE, !.query = <<>>]
  <2>1. Fields(q)
    BY DEF Fields
  <2> HIDE DEF q
  <2>2. Good(SyncVisual(q))
    BY <2>1, SyncHighlights
  <2> QED
    BY <2>2 DEF CloseSearch, q
<1>4. Good(Type(p, key))
  <2> DEFINE q == [p EXCEPT !.query = Append(@, key)]
  <2>1. Fields(q)
    BY DEF Fields
  <2> HIDE DEF q
  <2>2. Good(JumpFirstFiltered(q))
    BY <2>1, JumpHighlights
  <2> QED
    BY <2>2 DEF Type, q
<1>5. Good(Erase(p))
  <2> DEFINE q == [p EXCEPT !.query = IF @ = <<>> THEN @ ELSE Front(@)]
  <2>1. Fields(q)
    BY DEF Fields
  <2> HIDE DEF q
  <2>2. Good(JumpFirstFiltered(q))
    BY <2>1, JumpHighlights
  <2> QED
    BY <2>2 DEF Erase, q
<1>6. \A delta \in Int : Good(MoveBy(p, delta))
  BY MoveHighlights
<1>7. -1 \in Int /\ 1 \in Int /\ Page \in Int /\ -Page \in Int
  BY PickerAssumption
<1>8. Good(p)
  OBVIOUS
<1> HIDE DEF Good
<1>9. Good(SearchKey(p, key).picker)
  BY <1>1, <1>2, <1>3, <1>4, <1>5, <1>8 DEF SearchKey
<1>10. Good(ListKey(p, key).picker)
  <2>1. /\ Good(Result(MoveBy(p, -1), "None").picker)
        /\ Good(Result(MoveBy(p, 1), "None").picker)
        /\ Good(Result(MoveBy(p, -Page), "None").picker)
        /\ Good(Result(MoveBy(p, Page), "None").picker)
    BY <1>1, <1>6, <1>7
  <2>2. /\ \A action : Good(Result(p, action).picker)
        /\ Good(Selecting(p).picker)
        /\ Good(Result([p EXCEPT !.searching = TRUE], "None").picker)
    BY <1>1, <1>2, <1>8
  <2> QED
    BY <2>1, <2>2 DEF ListKey
<1>11. Good(PickerKey(p, key).picker)
  BY <1>9, <1>10 DEF PickerKey
<1> QED
  BY <1>11 DEF Good

\* What the keys do to the list, the log filter and the mode.
KeysInv ==
  /\ Fields(picker) /\ Highlighted(picker)
  /\ FilterShownIsApplied
  /\ mode \in {"Picker", "Diagnostic"}

LEMMA KeysInvInit == Init => KeysInv
<1> SUFFICES ASSUME Init PROVE KeysInv
  OBVIOUS
<1>1. picker = NewPicker
  BY DEF Init
<1>2. Fields(picker)
  BY <1>1 DEF Fields, NewPicker
<1>3. Highlighted(picker)
  <2>1. picker.query = <<>> /\ picker.selected = 1 /\ picker.row = IF Names = <<>> THEN 0 ELSE 1
    BY <1>1 DEF NewPicker
  <2>2. CASE Names = <<>>
    <3>1. Catalog = {}
      BY <2>2 DEF Catalog
    <3>2. Filtered(<<>>) = <<>>
      <4> DEFINE matching == {i \in Catalog : Contained(<<>>, Names[i])}
      <4>1. Cardinality(matching) = 0
        BY <3>1, FS_EmptySet
      <4>2. DOMAIN Filtered(<<>>) = 1..Cardinality(matching)
        BY DEF Filtered
      <4>3. PICK S : Filtered(<<>>) \in Seq(S)
        BY FilteredList
      <4> HIDE DEF matching
      <4> QED
        BY <4>1, <4>2, <4>3, LenProperties, EmptySeq
    <3> QED
      BY <2>1, <2>2, <3>2 DEF Highlighted
  <2>3. CASE Names # <<>>
    BY <2>1, <2>3, UnfilteredList DEF Highlighted
  <2> QED
    BY <2>2, <2>3
<1>4. FilterShownIsApplied /\ mode \in {"Picker", "Diagnostic"}
  BY DEF Init, FilterShownIsApplied
<1> QED
  BY <1>2, <1>3, <1>4 DEF KeysInv

LEMMA KeysInvPress == ASSUME KeysInv, NEW key, Press(key) PROVE KeysInv'
<1> USE DEF view, logFilter
<1>1. CASE KeyInPicker(key)
  <2>1. picker' = PickerKey(picker, key).picker /\ UNCHANGED <<filter, regex>>
    BY <1>1 DEF KeyInPicker
  <2>2. mode' \in {mode, "Diagnostic"}
    BY <1>1 DEF KeyInPicker, SwitchChannel
  <2>3. Fields(picker') /\ Highlighted(picker')
    BY <2>1, KeyHighlights DEF KeysInv
  <2> QED
    BY <2>1, <2>2, <2>3 DEF KeysInv, FilterShownIsApplied
<1>2. CASE Typing(key)
  <2>1. UNCHANGED <<picker, mode>>
    BY <1>2 DEF Typing
  <2>2. FilterShownIsApplied'
    BY <1>2 DEF Typing, KeysInv, FilterShownIsApplied
  <2> QED
    BY <2>1, <2>2 DEF KeysInv
<1>3. CASE ChooseFilter(key)
  <2>1. UNCHANGED <<picker, mode>>
    BY <1>3 DEF ChooseFilter
  <2>2. FilterShownIsApplied'
    BY <1>3 DEF ChooseFilter, CycleFilter, KeysInv, FilterShownIsApplied
  <2> QED
    BY <2>1, <2>2 DEF KeysInv
<1>4. CASE Quit \/ CloseHelp \/ OpenHelp(key) \/ ResetMetrics(key) \/ Export(key)
            \/ OpenPicker(key) \/ Leave(key)
  <2>1. UNCHANGED <<picker, filter, regex>> /\ mode' \in {mode, "Picker"}
    BY <1>4 DEF Quit, CloseHelp, OpenHelp, ResetMetrics, Export, OpenPicker, Leave,
                ReturnToPicker
  <2> QED
    BY <2>1 DEF KeysInv, FilterShownIsApplied
<1> QED
  BY <1>1, <1>2, <1>3, <1>4 DEF Press

LEMMA KeysInvStep == KeysInv /\ [Next]_vars => KeysInv'
<1> SUFFICES ASSUME KeysInv, [Next]_vars PROVE KeysInv'
  OBVIOUS
<1>1. CASE \E key \in Keys : Press(key)
  BY <1>1, KeysInvPress
<1>2. CASE ~\E key \in Keys : Press(key)
  <2>1. UNCHANGED <<view, logFilter>>
    BY <1>2 DEF Next, ApplyEvent, End, Poller, Begin, Detect, GiveUp, Poll, DropTask, HookEnds,
                vars
  <2> QED
    BY <2>1 DEF KeysInv, FilterShownIsApplied, view, logFilter
<1> QED
  BY <1>1, <1>2

LEMMA AlwaysKeysInv == Spec => []KeysInv
BY KeysInvInit, KeysInvStep, PTL DEF Spec

\* What Esc still has to close: Depth counts these.
Layers ==
  {layer \in {"help", "edit", "search", "overlay", "channel"} :
     CASE layer = "help" -> help
       [] layer = "edit" -> edit
       [] layer = "search" -> picker.searching
       [] layer = "overlay" -> overlay
       [] layer = "channel" -> catalog /\ mode = "Diagnostic"}

LEMMA LayersCount ==
  /\ Cardinality(Layers) \in Nat
  /\ Depth = IF run # "running" THEN 0 ELSE 1 + Cardinality(Layers)
  /\ Layers' \subseteq Layers /\ Layers' # Layers =>
       Cardinality(Layers') < Cardinality(Layers) /\ Cardinality(Layers') \in Nat
<1>1. IsFiniteSet(Layers)
  <2> DEFINE all == {"help", "edit", "search", "overlay", "channel"}
  <2>1. IsFiniteSet(all)
    <3>1. IsFiniteSet({"help"})
      BY FS_Singleton
    <3>2. IsFiniteSet({"help"} \cup {"edit"})
      BY <3>1, FS_AddElement
    <3>3. IsFiniteSet({"help"} \cup {"edit"} \cup {"search"})
      BY <3>2, FS_AddElement
    <3>4. IsFiniteSet({"help"} \cup {"edit"} \cup {"search"} \cup {"overlay"})
      BY <3>3, FS_AddElement
    <3>5. IsFiniteSet({"help"} \cup {"edit"} \cup {"search"} \cup {"overlay"} \cup {"channel"})
      BY <3>4, FS_AddElement
    <3>6. all = {"help"} \cup {"edit"} \cup {"search"} \cup {"overlay"} \cup {"channel"}
      OBVIOUS
    <3> QED
      BY <3>5, <3>6
  <2>2. Layers \in SUBSET all
    BY DEF Layers
  <2> HIDE DEF all
  <2> QED
    BY <2>1, <2>2, FS_Subset
<1>2. Cardinality(Layers) \in Nat
  BY <1>1, FS_CardinalityType
<1>3. Layers' \subseteq Layers /\ Layers' # Layers =>
        Cardinality(Layers') < Cardinality(Layers) /\ Cardinality(Layers') \in Nat
  <2> SUFFICES ASSUME Layers' \subseteq Layers, Layers' # Layers
               PROVE  /\ Cardinality(Layers') < Cardinality(Layers)
                      /\ Cardinality(Layers') \in Nat
    OBVIOUS
  <2>1. Layers' \in SUBSET Layers
    OBVIOUS
  <2>2. /\ Cardinality(Layers') <= Cardinality(Layers)
        /\ Cardinality(Layers) = Cardinality(Layers') => Layers = Layers'
    BY <1>1, <2>1, FS_Subset
  <2>3. Cardinality(Layers') \in Nat
    BY <1>1, <2>1, FS_Subset, FS_CardinalityType
  <2> QED
    BY <1>2, <2>2, <2>3
<1>4. Depth = IF run # "running" THEN 0 ELSE 1 + Cardinality(Layers)
  BY DEF Depth, Layers
<1> QED
  BY <1>2, <1>3, <1>4

\* Esc closes a layer and opens none, or it ends the loop.
LEMMA EscCloses ==
  ASSUME KeysInv, Press("Esc")
  PROVE  run' # "running" \/ (Layers' \subseteq Layers /\ Layers' # Layers)
<1> USE DEF view
<1>1. CASE CloseHelp
  <2>1. "help" \in Layers /\ "help" \notin Layers'
    BY <1>1 DEF CloseHelp, Layers
  <2>2. Layers' \subseteq Layers
    BY <1>1 DEF CloseHelp, Layers, logFilter
  <2> QED
    BY <2>1, <2>2
<1>2. CASE KeyInPicker("Esc")
  <2>1. CASE picker.searching
    <3>1. PickerKey(picker, "Esc") = Result(CloseSearch(picker), "None")
      BY <2>1 DEF PickerKey, SearchKey, Controls
    <3>2. picker' = CloseSearch(picker) /\ UNCHANGED <<catalog, help, edit, mode, overlay>>
      BY <1>2, <3>1 DEF KeyInPicker, Result, logFilter
    <3>3. picker'.searching = FALSE
      <4> DEFINE q == [picker EXCEPT !.searching = FALSE, !.query = <<>>]
      <4>1. Fields(q) /\ q.searching = FALSE
        BY DEF Fields, KeysInv
      <4>2. picker' = SyncVisual(q)
        BY <3>2 DEF CloseSearch
      <4> HIDE DEF q
      <4> QED
        BY <4>1, <4>2, SyncHighlights
    <3>4. "search" \in Layers /\ "search" \notin Layers'
      BY <2>1, <3>3 DEF Layers
    <3>5. Layers' \subseteq Layers
      BY <3>2, <3>3 DEF Layers
    <3> QED
      BY <3>4, <3>5
  <2>2. CASE ~picker.searching
    <3>1. PickerKey(picker, "Esc") = Result(picker, "Cancel")
      BY <2>2 DEF PickerKey, ListKey
    <3>2. \/ run' = "quitting"
          \/ overlay /\ ~overlay' /\ UNCHANGED <<catalog, help, edit, mode, picker>>
      BY <1>2, <3>1 DEF KeyInPicker, Result, logFilter
    <3>3. CASE overlay /\ ~overlay' /\ UNCHANGED <<catalog, help, edit, mode, picker>>
      <4>1. "overlay" \in Layers /\ "overlay" \notin Layers' /\ Layers' \subseteq Layers
        BY <3>3 DEF Layers
      <4> QED
        BY <4>1
    <3> QED
      BY <3>2, <3>3
  <2> QED
    BY <2>1, <2>2
<1>3. CASE Typing("Esc")
  <2>1. edit /\ ~edit' /\ UNCHANGED <<catalog, help, mode, overlay, picker>>
    BY <1>3 DEF Typing, Editing, Controls
  <2>2. "edit" \in Layers /\ "edit" \notin Layers' /\ Layers' \subseteq Layers
    BY <2>1 DEF Layers
  <2> QED
    BY <2>2
<1>4. CASE Leave("Esc")
  <2>1. CASE Quit
    BY <2>1 DEF Quit
  <2>2. CASE catalog /\ ReturnToPicker
    <3>1. /\ mode = "Diagnostic" /\ mode' = "Picker" /\ overlay' = FALSE /\ ~overlay
          /\ UNCHANGED <<catalog, help, picker, edit>>
      BY <1>4, <2>2 DEF Leave, OnDashboard, PickerActive, KeysInv, ReturnToPicker, logFilter
    <3>2. "channel" \in Layers /\ "channel" \notin Layers' /\ Layers' \subseteq Layers
      BY <2>2, <3>1 DEF Layers
    <3> QED
      BY <3>2
  <2> QED
    BY <1>4, <2>1, <2>2 DEF Leave
<1>5. ~OpenHelp("Esc") /\ ~ChooseFilter("Esc") /\ ~ResetMetrics("Esc") /\ ~Export("Esc")
        /\ ~OpenPicker("Esc")
  BY DEF OpenHelp, ChooseFilter, ResetMetrics, Export, OpenPicker
<1> QED
  BY <1>1, <1>2, <1>3, <1>4, <1>5 DEF Press

\* The row highlighted in the channel list is always the channel that Enter
\* opens and the detail pane describes, whatever was searched for, erased or
\* moved to (ChannelPicker::handle_key, move_by, sync_visual, select_current).
THEOREM HighlightOpens == Spec => []EnterOpensHighlighted
<1>1. KeysInv => EnterOpensHighlighted
  BY HighlightIsSelectedChannel DEF KeysInv, EnterOpensHighlighted
<1> QED
  BY <1>1, AlwaysKeysInv, PTL

\* A regular expression is applied to the log only while its own text is the
\* filter the screen names (handle_key, cycle_log_filter).
THEOREM FilterIsNamed == Spec => []FilterShownIsApplied
<1>1. KeysInv => FilterShownIsApplied
  BY DEF KeysInv
<1> QED
  BY <1>1, AlwaysKeysInv, PTL

\* Every Esc closes one thing and opens nothing, so that a finite number of them
\* leads out of the program from wherever the user is (handle_key).
THEOREM EscAlwaysLeadsOut == Spec => EscLeadsOut
<1>1. KeysInv /\ Press("Esc") => Depth' < Depth
  <2> SUFFICES ASSUME KeysInv, Press("Esc") PROVE Depth' < Depth
    OBVIOUS
  <2>1. run = "running"
    BY DEF Press
  <2>2. /\ Depth = 1 + Cardinality(Layers) /\ Cardinality(Layers) \in Nat
        /\ Depth' = IF run' # "running" THEN 0 ELSE 1 + Cardinality(Layers')
    <3>1. Depth' = IF run' # "running" THEN 0 ELSE 1 + Cardinality(Layers')
      BY DEF Depth, Layers
    <3> QED
      BY <2>1, <3>1, LayersCount
  <2>3. CASE run' # "running"
    BY <2>2, <2>3
  <2>4. CASE run' = "running"
    <3>1. Cardinality(Layers') < Cardinality(Layers) /\ Cardinality(Layers') \in Nat
      BY <2>2, <2>4, EscCloses, LayersCount
    <3> QED
      BY <2>2, <2>4, <3>1
  <2> QED
    BY <2>3, <2>4
<1> QED
  BY <1>1, AlwaysKeysInv, PTL DEF EscLeadsOut
=============================================================================
