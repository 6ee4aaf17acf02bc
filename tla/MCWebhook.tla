---------------------------- MODULE MCWebhook ----------------------------
(***************************************************************************)
(* Instances of Webhook: the deliveries are named for their sample events. *)
(***************************************************************************)
EXTENDS Webhook

Samples == INSTANCE SampleEvents

TheConfig == Samples!TheConfig

Events == [d \in Deliveries |-> Samples!SampleEvents[d]]
=============================================================================
