--------------------------- MODULE InvoiceLifecycle ---------------------------
(***************************************************************************)
(* What the payment of vendor invoices promises, whatever attempts,        *)
(* events and handlers it takes: a payment settles at most one invoice, an *)
(* invoice is settled by at most one payment that was made for it, and a   *)
(* further one is only flagged.  InvoicePayments implements it, and        *)
(* VerificationSuspension relies on nothing else.                          *)
(***************************************************************************)
EXTENDS SqlNull

CONSTANTS
  Invoices,  \* invoices of a vendor, with an amount to pay
  Payments   \* payments that may be made for them

ASSUME LifecycleNullAssumption == NULL \notin Invoices \cup Payments

VARIABLES
  invoice,    \* [Invoices -> [status, exception]]
  paidFor,    \* the invoice that a payment was made for, in full
  allocation  \* the payment that settles an invoice

lifecycleVars == <<invoice, paidFor, allocation>>

LifecycleInit ==
  /\ invoice = [i \in Invoices |-> [status |-> "NONE", exception |-> FALSE]]
  /\ paidFor = [p \in Payments |-> NULL]
  /\ allocation = [i \in Invoices |-> NULL]

Issue(i) ==
  /\ invoice[i].status = "NONE"
  /\ invoice' = [invoice EXCEPT ![i].status = "UNPAID"]
  /\ UNCHANGED <<paidFor, allocation>>

\* External: the vendor pays.
Receive(p, i) ==
  /\ invoice[i].status # "NONE"
  /\ paidFor[p] = NULL
  /\ paidFor' = [paidFor EXCEPT ![p] = i]
  /\ UNCHANGED <<invoice, allocation>>

Allocate(i, p) ==
  /\ allocation[i] = NULL
  /\ paidFor[p] = i
  /\ allocation' = [allocation EXCEPT ![i] = p]
  /\ UNCHANGED <<invoice, paidFor>>

\* The payment may carry evidence of a wrong split.
Settle(i, exception) ==
  /\ allocation[i] # NULL
  /\ invoice' = [invoice EXCEPT ![i] =
                   [status |-> "PAID", exception |-> @.exception \/ exception]]
  /\ UNCHANGED <<paidFor, allocation>>

\* A second payment of a settled invoice.
FlagExcess(i, p) ==
  /\ paidFor[p] = i
  /\ allocation[i] \notin {p, NULL}
  /\ invoice' = [invoice EXCEPT ![i].exception = TRUE]
  /\ UNCHANGED <<paidFor, allocation>>

LifecycleNext ==
  \E i \in Invoices :
    \/ Issue(i)
    \/ \E exception \in BOOLEAN : Settle(i, exception)
    \/ \E p \in Payments : Receive(p, i) \/ Allocate(i, p) \/ FlagExcess(i, p)

LifecycleSpec == LifecycleInit /\ [][LifecycleNext]_lifecycleVars
=============================================================================
