------------------------------ MODULE MCHlsPoller ------------------------------
(* A small instance of HlsPoller.                                          *)
EXTENDS HlsPoller

MCSegmentFetches == {[verdict |-> "Hit", ttfb |-> "low", drift |-> FALSE],
                     [verdict |-> "Miss", ttfb |-> "high", drift |-> FALSE]}
NoInterval == None
=============================================================================
