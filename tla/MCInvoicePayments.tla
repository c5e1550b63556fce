-------------------------- MODULE MCInvoicePayments --------------------------
(* Instance of InvoicePayments for TLC: its constants are all given by the    *)
(* configurations.                                                           *)
EXTENDS InvoicePayments
=============================================================================
