----------------------------- MODULE ChannelPicker -----------------------------
(***************************************************************************)
(* The channel list of src/src/ui/channel_picker.rs: the cursor, the       *)
(* search and the row the list widget highlights.  Operators only; the     *)
(* screen (module Screen) owns the picker and runs it.                     *)
(*                                                                         *)
(* Names and queries are sequences of characters, compared without case;   *)
(* a channel's name stands for its name and its group, which are searched  *)
(* alike.                                                                  *)
(***************************************************************************)
EXTENDS Integers, Sequences, SequencesExt, FiniteSets

CONSTANTS
  Names,       \* the catalog: channel i is called Names[i]
  Page         \* rows a page key moves by (10)

ASSUME PickerAssumption == Names \in Seq(Seq(STRING)) /\ Page \in Nat \ {0}

Catalog == DOMAIN Names

\* `row` is list_state: the highlighted row of the filtered list, 0 for None.
NewPicker == [selected |-> 1, query |-> <<>>, searching |-> FALSE,
              row |-> IF Names = <<>> THEN 0 ELSE 1]

Contained(query, name) ==
  \E i \in 0..(Len(name) - Len(query)) :
    SubSeq(name, i + 1, i + Len(query)) = query

\* filtered_indices: what matches, in the order of the catalog.  The n-th match
\* has n - 1 matches before it.
Filtered(query) ==
  LET matching == {i \in Catalog : Contained(query, Names[i])}
      Before(i) == {k \in matching : k < i}
  IN  [n \in 1..Cardinality(matching) |->
         CHOOSE i \in matching : Cardinality(Before(i)) = n - 1]

RowOf(list, channel) == SelectInSeq(list, LAMBDA c : c = channel)

\* The cursor on a row of the list, or on nothing when the list is empty.
At(picker, list, row) ==
  IF list = <<>> THEN [picker EXCEPT !.row = 0]
  ELSE [picker EXCEPT !.selected = list[row], !.row = row]

\* Rows are clamped to the list; a channel the filter hides counts as row 1.
Cursor(picker, list) == IF RowOf(list, picker.selected) = 0 THEN 1
                        ELSE RowOf(list, picker.selected)
SyncVisual(picker) ==
  LET list == Filtered(picker.query)
  IN  At(picker, list, Cursor(picker, list))
MoveBy(picker, delta) ==
  LET list == Filtered(picker.query)
      next == Cursor(picker, list) + delta
  IN  IF list = <<>> THEN picker
      ELSE At(picker, list, IF next < 1 THEN 1
                            ELSE IF next > Len(list) THEN Len(list) ELSE next)
JumpFirstFiltered(picker) == At(picker, Filtered(picker.query), 1)

\* What Enter opens: 0 is no channel.
SelectCurrent(picker) ==
  LET list == Filtered(picker.query)
  IN  IF list = <<>> THEN 0 ELSE list[Cursor(picker, list)]

-----------------------------------------------------------------------------
(* handle_key: the picker after a key, and the PickerAction it returns.    *)
(* Keys that are no control key type a character.                          *)

Controls == {"CtrlC", "Esc", "Enter", "Tab", "Backspace",
             "Up", "Down", "PageUp", "PageDown"}

Result(picker, action) == [picker |-> picker, action |-> action, channel |-> 0]
Selecting(picker) ==
  IF SelectCurrent(picker) = 0 THEN Result(picker, "None")
  ELSE [picker |-> picker, action |-> "Select", channel |-> SelectCurrent(picker)]

\* Variants: Esc leaves the search field open; a typed character keeps the
\* cursor where it is.
CloseSearchKeepsField(picker) == SyncVisual([picker EXCEPT !.query = <<>>])
TypeInPlace(picker, char) == [picker EXCEPT !.query = Append(@, char)]

CloseSearch(picker) ==
  SyncVisual([picker EXCEPT !.searching = FALSE, !.query = <<>>])
Type(picker, char) == JumpFirstFiltered([picker EXCEPT !.query = Append(@, char)])
Erase(picker) ==
  JumpFirstFiltered([picker EXCEPT !.query = IF @ = <<>> THEN @ ELSE Front(@)])

SearchKey(picker, key) ==
  CASE key = "Esc" -> Result(CloseSearch(picker), "None")
    [] key = "Enter" -> Selecting([picker EXCEPT !.searching = FALSE])
    [] key = "Backspace" -> Result(Erase(picker), "None")
    [] key \notin Controls -> Result(Type(picker, key), "None")
    [] OTHER -> Result(picker, "None")

ListKey(picker, key) ==
  CASE key = "q" -> Result(picker, "Quit")
    [] key = "Esc" -> Result(picker, "Cancel")
    [] key = "/" -> Result([picker EXCEPT !.searching = TRUE], "None")
    [] key \in {"Up", "k"} -> Result(MoveBy(picker, -1), "None")
    [] key \in {"Down", "j"} -> Result(MoveBy(picker, 1), "None")
    [] key = "PageUp" -> Result(MoveBy(picker, -Page), "None")
    [] key = "PageDown" -> Result(MoveBy(picker, Page), "None")
    [] key = "Enter" -> Selecting(picker)
    [] OTHER -> Result(picker, "None")

PickerKey(picker, key) ==
  IF picker.searching THEN SearchKey(picker, key) ELSE ListKey(picker, key)

-----------------------------------------------------------------------------
(* The row shown highlighted is the channel the detail pane describes and  *)
(* Enter opens; nothing is highlighted exactly when nothing matches.       *)
HighlightIsSelected(picker) ==
  LET list == Filtered(picker.query)
  IN  IF picker.row = 0 THEN list = <<>> /\ SelectCurrent(picker) = 0
      ELSE /\ picker.row \in DOMAIN list
           /\ picker.selected = list[picker.row]
           /\ SelectCurrent(picker) = picker.selected
=============================================================================
