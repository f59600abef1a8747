----------------------------- MODULE LossyChannel -----------------------------
(***************************************************************************)
(* What a bounded event channel promises its consumer: events numbered 1,  *)
(* 2, ... are offered one after the other; each is queued or lost; the     *)
(* consumer takes the queued ones in order; a consumer that goes away      *)
(* discards the queue.  The promise is Ordered: no event is taken twice or *)
(* before an older one.  How long the queue may get is not said here.      *)
(***************************************************************************)
EXTENDS Naturals, Sequences

VARIABLES offered,   \* number of events offered so far
          queue,     \* events waiting
          taken      \* events the consumer took

lossyVars == <<offered, queue, taken>>

Init == offered = 0 /\ queue = <<>> /\ taken = <<>>

Offer ==
  /\ offered' = offered + 1
  /\ queue' \in {queue, Append(queue, offered + 1)}
  /\ UNCHANGED taken

Take ==
  /\ queue # <<>>
  /\ taken' = Append(taken, Head(queue))
  /\ queue' = Tail(queue)
  /\ UNCHANGED offered

Discard ==
  /\ queue' = <<>>
  /\ UNCHANGED <<offered, taken>>

Next == Offer \/ Take \/ Discard

Spec == Init /\ [][Next]_lossyVars

\* Strictly increasing numbers, none above n.
Ascending(s, n) ==
  /\ \A i \in 1..Len(s) : s[i] \in 1..n
  /\ \A i, j \in 1..Len(s) : i < j => s[i] < s[j]

\* What was taken and what still waits are in the order of the offers,
\* without repetition.
Ordered == Ascending(taken \o queue, offered)
=============================================================================
