--------------------------- MODULE InvoicePayments ---------------------------
(***************************************************************************)
(* Payment of vendor invoices: the checkout attempts                       *)
(* (src/src/lib/billing/paymentAttempts.ts), the confirmation of a payment *)
(* (paymentConfirmation.ts) by the webhook, the owner or the sweep         *)
(* (gatewayEvents.ts, reconciliation.ts), and the triggers of the database *)
(* that guard an attempt.                                                  *)
(*                                                                         *)
(* A confirmation is not one transaction: every statement that can race on *)
(* a unique constraint is a step of its own, and confirmations of one or   *)
(* several attempts interleave.  The provider is external; "checkout" is   *)
(* its own view of an attempt.                                             *)
(***************************************************************************)
EXTENDS SqlNull, Naturals, FiniteSetsExt

CONSTANTS
  Invoices,     \* invoices of a vendor, with an amount to pay
  MaxAttempts,  \* attempts that may be started
  Handlers,     \* confirmations that may run at once
  MaxCrashes    \* how often a process stops

ASSUME PaymentAssumption == MaxAttempts \in Nat /\ MaxCrashes \in Nat

Attempts == 1 .. MaxAttempts

AttemptStatuses == {"PREPARING", "READY", "PENDING", "UNKNOWN", "FAILED", "SUCCEEDED"}

\* Faulty variant: an attempt whose link was never used is not looked at.
SweepableUsed == {"PENDING", "UNKNOWN"}

\* What the sweep looks for.
Sweepable == {"READY", "PENDING", "UNKNOWN"}

Unresolved == Sweepable \cup {"PREPARING"}

AttemptRecords ==
  [invoice : Invoices, status : AttemptStatuses, link : BOOLEAN]

ASSUME PaymentNullAssumption == NULL \notin AttemptRecords \cup Attempts \cup Invoices

Phases ==
  {"IDLE", "VERIFYING", "DECLINED", "FAILING", "PAID", "RECEIPTED",
   "SUCCEEDED", "ALLOCATING", "SETTLING", "EXCESS", "DONE", "ERROR"}

\* What asked for the confirmation: a stored event, or the sweep or a person.
Sources == {"EVENT", "CALL"}

VARIABLES
  invoice,     \* [Invoices -> [status, exception]]
  attempt,     \* [Attempts -> record or NULL], numbered in the order of creation
  opening,     \* the request that opens the checkout of an attempt
  checkout,    \* the provider's state of it (external)
  receipt,     \* attempts with a payment row
  allocation,  \* the attempt whose payment settles an invoice
  excess,      \* attempts whose payment is reported as excess
  event,       \* the stored charge.success event of an attempt
  handler,     \* the confirmations under way
  crashes

paymentVars ==
  <<invoice, attempt, opening, checkout, receipt, allocation, excess, event,
    handler, crashes>>

PaymentTypeOK ==
  /\ invoice \in [Invoices -> [status : {"NONE", "UNPAID", "PAID"}, exception : BOOLEAN]]
  /\ attempt \in [Attempts -> AttemptRecords \cup {NULL}]
  /\ opening \in [Attempts -> {"IDLE", "CALLING", "ANSWERED"}]
  /\ checkout \in [Attempts -> {"NONE", "OPEN", "PAID", "MISPAID"}]
  /\ receipt \in SUBSET Attempts
  /\ allocation \in [Invoices -> Attempts \cup {NULL}]
  /\ excess \in SUBSET Attempts
  /\ event \in [Attempts -> {"NONE", "RECEIVED", "PROCESSED", "FAILED"}]
  /\ handler \in [Handlers -> [phase : Phases, attempt : Attempts \cup {NULL},
                               source : Sources, fresh : BOOLEAN]]
  /\ crashes \in 0 .. MaxCrashes

Idle == [phase |-> "IDLE", attempt |-> NULL, source |-> "CALL", fresh |-> FALSE]

PaymentInit ==
  /\ invoice = [i \in Invoices |-> [status |-> "NONE", exception |-> FALSE]]
  /\ attempt = [a \in Attempts |-> NULL]
  /\ opening = [a \in Attempts |-> "IDLE"]
  /\ checkout = [a \in Attempts |-> "NONE"]
  /\ receipt = {}
  /\ allocation = [i \in Invoices |-> NULL]
  /\ excess = {}
  /\ event = [a \in Attempts |-> "NONE"]
  /\ handler = [h \in Handlers |-> Idle]
  /\ crashes = 0

-----------------------------------------------------------------------------

Started(a) == attempt[a] # NULL
InvoiceOf(a) == attempt[a].invoice
AttemptsOf(i) == {a \in Attempts : Started(a) /\ InvoiceOf(a) = i}

\* The statuses that the mutation guard of the table lets follow.
Transitions ==
  [PREPARING |-> {"READY", "FAILED"},
   READY     |-> {"PENDING", "UNKNOWN", "FAILED", "SUCCEEDED"},
   PENDING   |-> {"UNKNOWN", "FAILED", "SUCCEEDED"},
   UNKNOWN   |-> {"PENDING", "FAILED", "SUCCEEDED"},
   FAILED    |-> {},
   SUCCEEDED |-> {}]

\* Faulty variant: the guard does not hold terminal statuses.
CanBecomeAnything(a, status) == TRUE

CanBecome(a, status) ==
  status = attempt[a].status \/ status \in Transitions[attempt[a].status]

SetStatus(a, status) == attempt' = [attempt EXCEPT ![a].status = status]

Goto(h, phase) == handler' = [handler EXCEPT ![h].phase = phase]

\* The confirmation is over: only an event keeps track of how its handling ended.
End(h, outcome) ==
  IF handler[h].source = "EVENT" THEN Goto(h, outcome)
                                 ELSE handler' = [handler EXCEPT ![h] = Idle]

-----------------------------------------------------------------------------
(* An invoice and its attempts. *)

IssueInvoice(i) ==
  /\ invoice[i].status = "NONE"
  /\ invoice' = [invoice EXCEPT ![i].status = "UNPAID"]
  /\ UNCHANGED <<attempt, opening, checkout, receipt, allocation, excess, event,
                 handler, crashes>>

\* Phase A, one transaction: the latest attempt, if it is unresolved but too
\* old, is given up and a new one saved.  An attempt that is not old yet is
\* answered as it is, which changes nothing.  Age is left to chance.
PrepareAttempt(i, a) ==
  LET earlier == AttemptsOf(i)
      latest == IF earlier = {} THEN NULL ELSE Max(earlier)
      retired == IF latest # NULL /\ attempt[latest].status \in Unresolved
                 THEN [attempt EXCEPT ![latest].status = "FAILED"]
                 ELSE attempt
      new == [invoice |-> i, status |-> "PREPARING", link |-> FALSE]
  IN /\ invoice[i].status = "UNPAID"
     /\ ~ Started(a)
     /\ \A b \in 1 .. (a - 1) : Started(b)
     /\ attempt' = [retired EXCEPT ![a] = new]
     /\ opening' = [opening EXCEPT ![a] = "CALLING"]
     /\ UNCHANGED <<invoice, checkout, receipt, allocation, excess, event, handler, crashes>>

\* External: the provider opens the checkout.
OpenCheckout(a) ==
  /\ opening[a] = "CALLING"
  /\ checkout[a] = "NONE"
  /\ checkout' = [checkout EXCEPT ![a] = "OPEN"]
  /\ opening' = [opening EXCEPT ![a] = "ANSWERED"]
  /\ UNCHANGED <<invoice, attempt, receipt, allocation, excess, event, handler, crashes>>

\* Phase B: the answer is saved and the payer gets the link.  The guard refuses
\* it if the attempt was given up meanwhile; the attempt is then failed again.
StoreAnswer(a) ==
  /\ opening[a] = "ANSWERED"
  /\ opening' = [opening EXCEPT ![a] = "IDLE"]
  /\ attempt' = IF CanBecome(a, "READY")
                THEN [attempt EXCEPT ![a].status = "READY", ![a].link = TRUE]
                ELSE attempt
  /\ UNCHANGED <<invoice, checkout, receipt, allocation, excess, event, handler, crashes>>

\* No answer (UNKNOWN, which the guard refuses from PREPARING) or a refusal.
FailOpening(a, status) ==
  /\ opening[a] \in {"CALLING", "ANSWERED"}
  /\ opening' = [opening EXCEPT ![a] = "IDLE"]
  /\ attempt' = IF CanBecome(a, status) THEN [attempt EXCEPT ![a].status = status] ELSE attempt
  /\ UNCHANGED <<invoice, checkout, receipt, allocation, excess, event, handler, crashes>>

\* External: the payer completes the checkout, however late; the amount or the
\* currency may be another one.
Pay(a, outcome) ==
  /\ checkout[a] = "OPEN"
  /\ attempt[a].link
  /\ checkout' = [checkout EXCEPT ![a] = outcome]
  /\ UNCHANGED <<invoice, attempt, opening, receipt, allocation, excess, event, handler, crashes>>

-----------------------------------------------------------------------------
(* Who asks for a confirmation. *)

Begin(h, a, source) ==
  /\ handler[h].phase = "IDLE"
  /\ handler' = [handler EXCEPT ![h] =
       [phase |-> "VERIFYING", attempt |-> a, source |-> source, fresh |-> FALSE]]
  /\ UNCHANGED <<invoice, attempt, opening, checkout, receipt, allocation, excess, crashes>>

\* The first delivery of an event is handled, the others are answered as
\* duplicates.
ReceiveEvent(h, a) ==
  /\ checkout[a] \in {"PAID", "MISPAID"}
  /\ event[a] = "NONE"
  /\ event' = [event EXCEPT ![a] = "RECEIVED"]
  /\ Begin(h, a, "EVENT")

\* The sweep retries the events whose handler failed ...
RetryEvent(h, a) ==
  /\ event[a] = "FAILED"
  /\ Begin(h, a, "EVENT")
  /\ UNCHANGED event

\* ... and verifies the attempts that are still open.
SweepAttempt(h, a) ==
  /\ Started(a)
  /\ attempt[a].status \in Sweepable
  /\ Begin(h, a, "CALL")
  /\ UNCHANGED event

\* The owner, of an unpaid invoice, or an administrator: the latest open attempt.
ReconcileInvoice(h, i) ==
  LET open == {a \in AttemptsOf(i) : attempt[a].status \in Sweepable}
  IN /\ open # {}
     /\ Begin(h, Max(open), "CALL")
     /\ UNCHANGED event

-----------------------------------------------------------------------------
(* confirmInvoicePayment *)

\* The provider's answer: not successful, another amount, or paid.  A mismatch
\* is recorded and changes neither attempt nor invoice.
VerifyTransaction(h) ==
  LET a == handler[h].attempt
  IN /\ handler[h].phase = "VERIFYING"
     /\ \/ checkout[a] = "OPEN" /\ Goto(h, "DECLINED")
        \/ checkout[a] = "MISPAID" /\ End(h, "DONE")
        \/ checkout[a] = "PAID" /\ Goto(h, "PAID")
     /\ UNCHANGED <<invoice, attempt, opening, checkout, receipt, allocation, excess,
                    event, crashes>>

\* The provider does not answer.
VerifyFails(h) ==
  /\ handler[h].phase = "VERIFYING"
  /\ crashes < MaxCrashes
  /\ crashes' = crashes + 1
  /\ End(h, "ERROR")
  /\ UNCHANGED <<invoice, attempt, opening, checkout, receipt, allocation, excess, event>>

\* The attempt is read ...
ReadAttempt(h) ==
  /\ handler[h].phase = "DECLINED"
  /\ IF attempt[handler[h].attempt].status = "SUCCEEDED"
     THEN End(h, "DONE") ELSE Goto(h, "FAILING")
  /\ UNCHANGED <<invoice, attempt, opening, checkout, receipt, allocation, excess,
                 event, crashes>>

\* ... and failed in another statement.
FailAttempt(h) ==
  LET a == handler[h].attempt
  IN /\ handler[h].phase = "FAILING"
     /\ IF CanBecome(a, "FAILED")
        THEN SetStatus(a, "FAILED") /\ End(h, "DONE")
        ELSE End(h, "ERROR") /\ UNCHANGED attempt
     /\ UNCHANGED <<invoice, opening, checkout, receipt, allocation, excess, event, crashes>>

\* The receipt, one for each attempt.
CreateReceipt(h) ==
  LET a == handler[h].attempt
  IN /\ handler[h].phase = "PAID"
     /\ receipt' = receipt \cup {a}
     /\ handler' = [handler EXCEPT ![h].phase = "RECEIPTED", ![h].fresh = a \notin receipt]
     /\ UNCHANGED <<invoice, attempt, opening, checkout, allocation, excess, event, crashes>>

\* A status that the guard refuses ends the confirmation: its caller sees an error.
MarkSucceeded(h) ==
  LET a == handler[h].attempt
  IN /\ handler[h].phase = "RECEIPTED"
     /\ IF CanBecome(a, "SUCCEEDED")
        THEN SetStatus(a, "SUCCEEDED")
             /\ Goto(h, IF handler[h].fresh THEN "ALLOCATING" ELSE "SUCCEEDED")
        ELSE End(h, "ERROR") /\ UNCHANGED attempt
     /\ UNCHANGED <<invoice, opening, checkout, receipt, allocation, excess, event, crashes>>

\* Only for a receipt that was there before: is it, or another one, allocated?
FindAllocation(h) ==
  LET a == handler[h].attempt
      allocated == allocation[InvoiceOf(a)]
  IN /\ handler[h].phase = "SUCCEEDED"
     /\ \/ allocated = a /\ End(h, "DONE")
        \/ allocated = NULL /\ Goto(h, "ALLOCATING")
        \/ allocated \notin {a, NULL} /\ Goto(h, "EXCESS")
     /\ UNCHANGED <<invoice, attempt, opening, checkout, receipt, allocation, excess,
                    event, crashes>>

\* Faulty variant: the unique index on the invoice is missing.
CreateAllocationAnyway(h) ==
  LET a == handler[h].attempt
  IN /\ handler[h].phase = "ALLOCATING"
     /\ allocation' = [allocation EXCEPT ![InvoiceOf(a)] = a]
     /\ Goto(h, "SETTLING")
     /\ UNCHANGED <<invoice, attempt, opening, checkout, receipt, excess, event, crashes>>

\* One allocation for each invoice: the loser of a race finds its own payment,
\* allocated by another handler, or reports an excess.
CreateAllocation(h) ==
  LET a == handler[h].attempt
      i == InvoiceOf(a)
  IN /\ handler[h].phase = "ALLOCATING"
     /\ \/ /\ allocation[i] = NULL
           /\ allocation' = [allocation EXCEPT ![i] = a]
           /\ Goto(h, "SETTLING")
        \/ /\ allocation[i] = a
           /\ IF handler[h].fresh THEN Goto(h, "SETTLING") ELSE End(h, "DONE")
           /\ UNCHANGED allocation
        \/ /\ allocation[i] \notin {a, NULL}
           /\ Goto(h, "EXCESS")
           /\ UNCHANGED allocation
     /\ UNCHANGED <<invoice, attempt, opening, checkout, receipt, excess, event, crashes>>

\* Evidence of a wrong split is flagged with the payment.
SettleInvoice(h, splitMismatch) ==
  LET i == InvoiceOf(handler[h].attempt)
  IN /\ handler[h].phase = "SETTLING"
     /\ invoice' = [invoice EXCEPT ![i] =
                      [status |-> "PAID", exception |-> @.exception \/ splitMismatch]]
     /\ End(h, "DONE")
     /\ UNCHANGED <<attempt, opening, checkout, receipt, allocation, excess, event, crashes>>

RecordExcessPayment(h) ==
  LET a == handler[h].attempt
  IN /\ handler[h].phase = "EXCESS"
     /\ excess' = excess \cup {a}
     /\ invoice' = [invoice EXCEPT ![InvoiceOf(a)].exception = TRUE]
     /\ End(h, "DONE")
     /\ UNCHANGED <<attempt, opening, checkout, receipt, allocation, event, crashes>>

\* markGatewayEventProcessed, recordGatewayEventFailure
StoreOutcome(h) ==
  LET hd == handler[h]
  IN /\ hd.phase \in {"DONE", "ERROR"}
     /\ event' = [event EXCEPT ![hd.attempt] =
                    IF hd.phase = "ERROR" THEN "FAILED" ELSE "PROCESSED"]
     /\ handler' = [handler EXCEPT ![h] = Idle]
     /\ UNCHANGED <<invoice, attempt, opening, checkout, receipt, allocation, excess, crashes>>

\* A process stops: a confirmation, or the request that opens a checkout.
Crash(h) ==
  /\ crashes < MaxCrashes
  /\ crashes' = crashes + 1
  /\ handler[h].phase # "IDLE"
  /\ handler' = [handler EXCEPT ![h] = Idle]
  /\ UNCHANGED <<invoice, attempt, opening, checkout, receipt, allocation, excess, event>>

-----------------------------------------------------------------------------

Confirm(h) ==
  \/ VerifyTransaction(h) \/ ReadAttempt(h) \/ FailAttempt(h) \/ CreateReceipt(h)
  \/ MarkSucceeded(h) \/ FindAllocation(h) \/ CreateAllocation(h)
  \/ \E split \in BOOLEAN : SettleInvoice(h, split)
  \/ RecordExcessPayment(h) \/ StoreOutcome(h)

Trigger(h) ==
  \/ \E a \in Attempts : ReceiveEvent(h, a) \/ RetryEvent(h, a) \/ SweepAttempt(h, a)
  \/ \E i \in Invoices : ReconcileInvoice(h, i)

PaymentNext ==
  \/ \E i \in Invoices : IssueInvoice(i) \/ \E a \in Attempts : PrepareAttempt(i, a)
  \/ \E a \in Attempts :
       \/ OpenCheckout(a) \/ StoreAnswer(a)
       \/ \E status \in {"UNKNOWN", "FAILED"} : FailOpening(a, status)
       \/ \E outcome \in {"PAID", "MISPAID"} : Pay(a, outcome)
  \/ \E h \in Handlers : Trigger(h) \/ Confirm(h) \/ VerifyFails(h) \/ Crash(h)

-----------------------------------------------------------------------------

\* A confirmation under way goes on unless its process stops; the provider
\* repeats an event until it is answered, and the sweep comes back every day to
\* open attempts and failed events.
\* Handlers only bound how many run at once: they are never a reason to wait,
\* hence strong fairness.
Recheck(a) ==
  \E h \in Handlers : ReceiveEvent(h, a) \/ RetryEvent(h, a) \/ SweepAttempt(h, a)

PaymentFairness ==
  /\ \A h \in Handlers : WF_paymentVars(Confirm(h))
  /\ \A a \in Attempts : SF_paymentVars(Recheck(a))

PaymentSpec == PaymentInit /\ [][PaymentNext]_paymentVars /\ PaymentFairness

-----------------------------------------------------------------------------
(* Properties. *)

\* A receipt is a payment made in full, whatever the confirmations read before.
ReceiptsArePaid == \A a \in receipt : Started(a) /\ checkout[a] = "PAID"

\* Success is recorded only with a receipt.
SucceededIsReceipted ==
  \A a \in Attempts : Started(a) /\ attempt[a].status = "SUCCEEDED" => a \in receipt

\* The payment that settles an invoice is a received payment of that invoice.
AllocationsAreReceipts ==
  \A i \in Invoices :
    LET a == allocation[i]
    IN a # NULL => a \in receipt /\ InvoiceOf(a) = i /\ attempt[a].status = "SUCCEEDED"

\* An invoice is paid only by its allocation.
PaidIsAllocated ==
  \A i \in Invoices : invoice[i].status = "PAID" => allocation[i] # NULL

\* An excess is a received payment of an invoice that another one settled.
ExcessIsSecond ==
  \A a \in excess : a \in receipt /\ allocation[InvoiceOf(a)] \notin {a, NULL}

\* However the webhook, the sweep, the owner and an administrator interleave,
\* and whatever attempts were given up: an invoice is settled by one payment
\* that was made in full, a second one is only ever reported as excess, and a
\* late "failed" observation never overwrites a success, although it is
\* compared with a status that was read before.
SettledOnce ==
  /\ PaymentTypeOK
  /\ ReceiptsArePaid
  /\ SucceededIsReceipted
  /\ AllocationsAreReceipts
  /\ PaidIsAllocated
  /\ ExcessIsSecond

\* The attempts, events and handlers together do no more than the lifecycle
\* promises: every step of the code is one of its steps, or none.
Lifecycle == INSTANCE InvoiceLifecycle WITH
  Payments <- Attempts,
  paidFor <- [a \in Attempts |-> IF checkout[a] = "PAID" THEN InvoiceOf(a) ELSE NULL]

ImplementsLifecycle == Lifecycle!LifecycleSpec

\* A payment is recorded in the end, unless its attempt was declared failed,
\* although every process may stop once: what the webhook loses, the sweep finds.
PaidIsReceipted ==
  \A a \in Attempts :
    checkout[a] = "PAID"
      ~> a \in receipt \/ (Started(a) /\ attempt[a].status = "FAILED")
=============================================================================
