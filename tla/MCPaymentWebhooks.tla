-------------------------- MODULE MCPaymentWebhooks --------------------------
(* Instance of PaymentWebhooks for TLC: its constants are all given by the    *)
(* configuration.                                                            *)
EXTENDS PaymentWebhooks
=============================================================================
