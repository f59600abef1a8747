------------------------------- MODULE Scte35 -------------------------------
(***************************************************************************)
(* The decoder of a SCTE-35 splice section (engine/scte35.rs), at the      *)
(* level of its fields: which of the events and descriptors of a section   *)
(* end up in the single summary that streamtop keeps of it.                *)
(*                                                                         *)
(* A section on the wire is a record: size (its bytes), known (its table   *)
(* id is one of a splice section), command, events (the splice_insert or   *)
(* the events of a splice_schedule), declared (the number of events it     *)
(* announces), pts (the splice time of a time_signal) and descriptors.  An *)
(* event is                                                                *)
(*   [id, cancel, oon, pts, duration, autoReturn, whole]                   *)
(* whole: its avail fields are inside the command.  A descriptor is        *)
(*   [whole, id, cancel, type, duration]                                   *)
(* An Option is a set of at most one element; durations are in seconds.    *)
(***************************************************************************)
EXTENDS Naturals, Sequences, SequencesExt

MaxScte35Bytes == 262144     \* MAX_SCTE35_BYTES
ReturnTypes    == {49, 51, 53, 55}      \* 0x31, 0x33, 0x35, 0x37: a segment ends

\* The fields of a section of which nothing was read.
NoFields == [command |-> "null", oon |-> {}, event |-> {}, pts |-> {}, duration |-> {},
             autoReturn |-> {}, count |-> {}, descriptors |-> << >>, notes |-> 0]

LOCAL Prefer(old, new) == IF old # {} THEN old ELSE new

-----------------------------------------------------------------------------
(* The commands *)

\* SpliceInsert: one event; a cancelled one keeps its id and nothing else.
SpliceInsert(sec) ==
  LET e == Head(sec.events)
  IN  CASE sec.events = << >> -> [NoFields EXCEPT !.command = "insert", !.notes = 1]
        [] sec.events # << >> /\ e.cancel ->
             [NoFields EXCEPT !.command = "insert", !.event = {e.id}]
        [] OTHER -> [NoFields EXCEPT !.command = "insert", !.event = {e.id}, !.oon = {e.oon},
                                     !.pts = e.pts, !.duration = e.duration,
                                     !.autoReturn = IF e.duration = {} THEN {} ELSE {e.autoReturn}]

TimeSignal(sec) ==
  [NoFields EXCEPT !.command = "time_signal", !.pts = sec.pts,
                   !.notes = IF sec.pts = {} THEN 1 ELSE 0]

\* SpliceSchedule: the id, the splice time and the duration are those of the
\* first event that has one, the out-of-network flag is that of the last.
\* A truncated event ends the walk; a cancelled one is passed over.
SpliceSchedule(sec) ==
  LET Event(st, i) ==
        LET e    == sec.events[i]
            here == [st.fields EXCEPT !.event = Prefer(@, {e.id})]
            full == [here EXCEPT !.oon = {e.oon}, !.pts = Prefer(@, e.pts),
                                 !.duration   = Prefer(@, e.duration),
                                 !.autoReturn = IF here.duration = {} /\ e.duration # {}
                                                THEN {e.autoReturn} ELSE @]
            note == [st.fields EXCEPT !.notes = @ + 1]
        IN  CASE st.stop -> st
              [] ~st.stop /\ i > Len(sec.events) -> [stop |-> TRUE, fields |-> note]
              [] ~st.stop /\ i <= Len(sec.events) /\ e.cancel -> [st EXCEPT !.fields = here]
              [] ~st.stop /\ i <= Len(sec.events) /\ ~e.cancel /\ e.whole -> [st EXCEPT !.fields = full]
              [] OTHER -> [stop |-> TRUE, fields |-> [full EXCEPT !.notes = @ + 1]]
      start == [NoFields EXCEPT !.command = "schedule", !.count = {sec.declared}]
  IN  FoldLeft(Event, [stop |-> FALSE, fields |-> start], [i \in 1..sec.declared |-> i]).fields

Command(sec) ==
  CASE sec.command = "insert"      -> SpliceInsert(sec)
    [] sec.command = "time_signal" -> TimeSignal(sec)
    [] sec.command = "schedule"    -> SpliceSchedule(sec)
    [] sec.command = "null"        -> NoFields
    [] OTHER                       -> [NoFields EXCEPT !.command = sec.command, !.notes = 1]

-----------------------------------------------------------------------------
(* Descriptors and the section *)

\* parse_segmentation_descriptor: a cancelled one keeps its id, with type 0 and
\* no duration; a truncated one is left out and noted.
Descriptor(d) ==
  IF d.cancel THEN [id |-> d.id, type |-> 0, duration |-> {}]
  ELSE [id |-> d.id, type |-> d.type, duration |-> d.duration]

Descriptors(sec) ==
  LET kept == SelectSeq(sec.descriptors, LAMBDA d : d.whole)
  IN  [i \in 1..Len(kept) |-> Descriptor(kept[i])]

\* The shortest section that is looked at; a foreign table must be longer.
MinBytes(sec) == IF sec.known THEN 14 ELSE 18

\* parse_scte35_bytes
ParseSection(sec) ==
  LET fields == Command(sec)
      kept   == Descriptors(sec)
  IN  IF sec.size > MaxScte35Bytes \/ sec.size < MinBytes(sec) THEN {}
      ELSE {[fields EXCEPT !.descriptors = kept,
                           !.notes = @ + (Len(sec.descriptors) - Len(kept))]}

=============================================================================
