------------------------------- MODULE Compare -------------------------------
(***************************************************************************)
(* The side-by-side screen.  Two pollers feed two panes; while the screen  *)
(* is paused their events go to a ring per pane that keeps the last        *)
(* RingCap of them, and resuming applies what the rings hold.              *)
(***************************************************************************)
EXTENDS Naturals, Sequences, SequencesExt

CONSTANTS
    RingCap,        \* PAUSE_RING_CAP
    MaxEvents       \* bound: events the two pollers send

VARIABLES
    sent,       \* side -> events its poller has sent
    pending,    \* side -> its event channel
    pane,       \* side -> what its pane shows
    ring,       \* side -> its pause buffer
    paused,
    closed,     \* should_quit
    since       \* history: side -> events received since the screen was paused

compareVars == <<sent, pending, pane, ring, paused, closed, since>>

Sides == {"left", "right"}

(* Events that replace what is shown, switch it, or are counted. *)
Kinds == {"health", "ad starts", "ad ends", "finding"}
NewPane == [health |-> 0, adActive |-> FALSE, findings |-> 0]

Apply(p, e) ==
    CASE e.kind = "health"    -> [p EXCEPT !.health = e.n]
      [] e.kind = "ad starts" -> [p EXCEPT !.adActive = TRUE]
      [] e.kind = "ad ends"   -> [p EXCEPT !.adActive = FALSE]
      [] e.kind = "finding"   -> [p EXCEPT !.findings = @ + 1]

ApplyAll(p, events) == FoldLeft(Apply, p, events)

\* Variant: the newest event is refused instead.
PushUntilFull(buf, e) ==
    IF Len(buf) >= RingCap THEN buf ELSE Append(buf, e)

(* PauseRingBuffer::push *)
Push(buf, e) == Append(IF Len(buf) >= RingCap THEN Tail(buf) ELSE buf, e)

Send(s) ==
    /\ sent["left"] + sent["right"] < MaxEvents
    /\ sent' = [sent EXCEPT ![s] = @ + 1]
    /\ \E k \in Kinds : pending' = [pending EXCEPT ![s] = Append(@, [kind |-> k, n |-> sent'[s]])]
    /\ UNCHANGED <<pane, ring, paused, closed, since>>

Recv(s) ==
    /\ pending[s] # <<>>
    /\ pending' = [pending EXCEPT ![s] = Tail(@)]
    /\ LET e == Head(pending[s]) IN
       IF paused
       THEN /\ ring' = [ring EXCEPT ![s] = Push(@, e)]
            /\ since' = [since EXCEPT ![s] = Append(@, e)]
            /\ UNCHANGED pane
       ELSE /\ pane' = [pane EXCEPT ![s] = Apply(@, e)]
            /\ UNCHANGED <<ring, since>>
    /\ UNCHANGED <<sent, paused, closed>>

Pause ==
    /\ ~paused
    /\ paused' = TRUE
    /\ UNCHANGED <<sent, pending, pane, ring, closed, since>>

Resume ==
    /\ paused
    /\ pane' = [s \in Sides |-> ApplyAll(pane[s], ring[s])]
    /\ ring' = [s \in Sides |-> <<>>]
    /\ since' = [s \in Sides |-> <<>>]
    /\ paused' = FALSE
    /\ UNCHANGED <<sent, pending, closed>>

(* q, Esc and Ctrl+C end the screen and abort both pollers. *)
Close ==
    /\ closed' = TRUE
    /\ UNCHANGED <<sent, pending, pane, ring, paused, since>>

CompareInit ==
    /\ sent = [s \in Sides |-> 0]
    /\ pending = [s \in Sides |-> <<>>] /\ ring = [s \in Sides |-> <<>>]
    /\ since = [s \in Sides |-> <<>>]
    /\ pane = [s \in Sides |-> NewPane]
    /\ paused = FALSE /\ closed = FALSE

CompareNext ==
    /\ ~closed
    /\ \/ \E s \in Sides : Send(s) \/ Recv(s)
       \/ Pause \/ Resume \/ Close
=============================================================================
