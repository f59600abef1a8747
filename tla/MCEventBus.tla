------------------------------ MODULE MCEventBus ------------------------------
(* A small instance of EventBus.                                           *)
EXTENDS EventBus
=============================================================================
