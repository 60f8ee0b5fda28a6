------------------------- MODULE MCUnknownRecovery -------------------------
(* Instances of UnknownRecovery for TLC. *)
EXTENDS UnknownRecovery

ManagementInProduction == [kind |-> "MANAGEMENT", wakeup |-> "COMPOSITION"]
ManagementWokenByHand == [kind |-> "MANAGEMENT", wakeup |-> "OUTSIDE"]
RecognitionInProduction == [kind |-> "RECOGNITION", wakeup |-> "COMPOSITION"]
RecognitionWokenByHand == [kind |-> "RECOGNITION", wakeup |-> "OUTSIDE"]

Recoverable == {ManagementInProduction, ManagementWokenByHand, RecognitionWokenByHand}
Management == {ManagementInProduction}
Recognition == {RecognitionInProduction}
=============================================================================
