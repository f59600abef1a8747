------------------------------- MODULE MCWebhook -------------------------------
(* A small instance of Webhook.                                            *)
EXTENDS Webhook

MCOtherEvents == {[type |-> "Segment", marks |-> {"5xx", "slow"}],
                  [type |-> "Buffer", marks |-> {"risk"}]}
=============================================================================
