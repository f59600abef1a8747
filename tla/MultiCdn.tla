------------------------------- MODULE MultiCdn -------------------------------
(***************************************************************************)
(* Multi-CDN comparison of edges that serve the same live playlist.  Every *)
(* poll of an edge sends the first media sequence of the playlist          *)
(* (PlaylistMeta), then the sequence of each segment it had not seen, and  *)
(* both land in the one field media_sequence the skew is computed from.    *)
(* --summary reports once, when the time is up; the matrix on the screen   *)
(* is recomputed at every frame.                                           *)
(***************************************************************************)
EXTENDS Integers, Sequences, FiniteSets, SequencesExt

CONSTANTS
    Labels,         \* the edges
    Window,         \* segments of the playlist
    MaxCdnSkewMs,   \* --max-cdn-skew-ms
    LastSegment     \* bound: segments the packager publishes

VARIABLES
    newest,     \* media sequence of the newest published segment
    coming,     \* label -> events of its poll not yet received
    polled,     \* label -> newest segment of the last playlist it fetched, -1 at first
    edges,      \* label -> EdgeState
    skew        \* NoSkew, or max_skew_ms of the report

multiVars == <<newest, coming, polled, edges, skew>>

NoSkew == -1
Unset == -1
NewEdge == [media_sequence |-> Unset, pdt_offset_ms |-> Unset]

FirstOf(n) == n - Window + 1

Publish ==
    /\ newest < LastSegment
    /\ newest' = newest + 1
    /\ UNCHANGED <<coming, polled, edges, skew>>

(* The first poll, and one that fell out of the window, start at the      *)
(* newest segment.  With a PDT each segment is followed by its latency,    *)
(* here one second per segment behind the newest.                          *)
NewSegments(label) ==
    LET next == polled[label] + 1
        from == IF polled[label] = Unset \/ next < FirstOf(newest) THEN newest ELSE next
    IN FlattenSeq([i \in 1 .. newest - from + 1 |->
           <<[kind |-> "segment", n |-> from + i - 1],
             [kind |-> "latency", n |-> (newest - (from + i - 1)) * 1000]>>])

FetchPlaylist(label) ==
    /\ coming[label] = <<>>
    /\ coming' = [coming EXCEPT ![label] =
           <<[kind |-> "playlist", n |-> FirstOf(newest)]>> \o NewSegments(label)]
    /\ polled' = [polled EXCEPT ![label] = newest]
    /\ UNCHANGED <<newest, edges, skew>>

ApplyEvent(edge, e) ==
    IF e.kind = "latency" THEN [edge EXCEPT !.pdt_offset_ms = e.n]
    ELSE [edge EXCEPT !.media_sequence = e.n]

RecvEvent(label) ==
    /\ coming[label] # <<>>
    /\ edges' = [edges EXCEPT ![label] = ApplyEvent(@, Head(coming[label]))]
    /\ coming' = [coming EXCEPT ![label] = Tail(@)]
    /\ UNCHANGED <<newest, polled, skew>>

Spread(values) ==
    LET known == values \ {Unset} IN IF known = {} THEN 0 ELSE Max(known) - Min(known)

(* Sequences count for one second each, whatever the segments last. *)
ComputeSkew ==
    Max({Spread({edges[l].media_sequence : l \in Labels}) * 1000,
         Spread({edges[l].pdt_offset_ms : l \in Labels})})

(* Once with --summary; at every frame on the screen. *)
Report(screen) ==
    /\ screen \/ skew = NoSkew
    /\ skew' = ComputeSkew
    /\ UNCHANGED <<newest, coming, polled, edges>>

Exceeds == skew > MaxCdnSkewMs

(* How far apart the edges really are, as each was last seen. *)
LiveEdgeSkewMs == Spread({polled[l] : l \in Labels}) * 1000

MultiInit ==
    /\ newest = Window - 1
    /\ coming = [l \in Labels |-> <<>>]
    /\ polled = [l \in Labels |-> Unset]
    /\ edges = [l \in Labels |-> NewEdge]
    /\ skew = NoSkew

MultiNext(screen) ==
    \/ Publish
    \/ \E l \in Labels : FetchPlaylist(l) \/ RecvEvent(l)
    \/ Report(screen)
=============================================================================
