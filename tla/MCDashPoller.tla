----------------------------- MODULE MCDashPoller -----------------------------
(* A small instance of DashPoller.                                         *)
EXTENDS DashPoller

MCProbeResults == {[verdict |-> "Hit", ttfb |-> "low", drift |-> FALSE],
                   [verdict |-> "Miss", ttfb |-> "high", drift |-> FALSE]}
Absent == None
=============================================================================
