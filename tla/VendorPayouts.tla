---------------------------- MODULE VendorPayouts ----------------------------
(***************************************************************************)
(* Vendor payouts (src/src/lib/vendors/payouts.ts) and the transfer events *)
(* of the Paystack webhook (src/src/app/api/webhooks/paystack/route.ts).   *)
(* A run of the sweep reserves a vendor's whole available balance in a     *)
(* batch, commits, asks the provider for a transfer, and applies the       *)
(* answer.  Provider events arrive later, in any order.  Reservation,      *)
(* completion and every other change of a batch are serializable           *)
(* transactions under the same locks: one step each.  Anything may happen  *)
(* between two of them, and a run may stop for good.                       *)
(*                                                                         *)
(* The provider is external; "transfer" is its own view of a batch.        *)
(***************************************************************************)
EXTENDS WalletLedger

CONSTANTS
  Batches,     \* payout_batch rows, numbered in the order of their creation
               \* (bounds their number)
  Threshold,   \* paymentWalletPayoutThresholdMinor
  MaxCrashes   \* how often a run or the handling of an event stops

\* Keys of payouts carry a prefix of their own: Keys \ Batches are the others.
ASSUME PayoutAssumption ==
  /\ Batches \subseteq Keys \cap Nat /\ IsFiniteSet(Batches)
  /\ Threshold \in Nat \ {0}
  /\ MaxCrashes \in Nat

PayoutStatuses ==
  {"PENDING", "PROCESSING", "REQUIRES_RECONCILIATION", "COMPLETED", "FAILED"}

\* What the provider reports of a transfer, as an answer or as an event;
\* MISPAID is a success that names another amount than the batch.
Outcomes == {"PENDING", "PAID", "MISPAID", "FAILED", "REVERSED"}

PayoutRecords ==
  [vendor : Vendors, amount : Amounts, status : PayoutStatuses, tx : TxIds \cup {NULL}]

ASSUME PayoutNullAssumption == NULL \notin PayoutRecords \cup Outcomes

VARIABLES
  payout,    \* payout_batch: [Batches -> record or NULL]
  runner,    \* the run that pays the batch out
  answer,    \* the provider's answer on its way to that run
  transfer,  \* the provider's state of the transfer (external)
  notices,   \* events the provider has to deliver, delivers and redelivers
  failed,    \* recorded events whose handler failed or stopped
  crashes

payoutVars == <<payout, runner, answer, transfer, notices, failed, crashes>>
vars == <<ledgerVars, payoutVars>>

Notices == Batches \X (Outcomes \ {"PENDING"})

PayoutTypeOK ==
  /\ payout \in [Batches -> PayoutRecords \cup {NULL}]
  /\ runner \in [Batches -> {"IDLE", "RESERVED", "WAITING", "GONE"}]
  /\ answer \in [Batches -> Outcomes \cup {NULL}]
  /\ transfer \in [Batches -> Outcomes \cup {"NONE", "SIMULATED"}]
  /\ notices \subseteq Notices
  /\ failed \subseteq Notices
  /\ crashes \in 0 .. MaxCrashes

Init ==
  /\ LedgerInit
  /\ payout = [b \in Batches |-> NULL]
  /\ runner = [b \in Batches |-> "IDLE"]
  /\ answer = [b \in Batches |-> NULL]
  /\ transfer = [b \in Batches |-> "NONE"]
  /\ notices = {}
  /\ failed = {}
  /\ crashes = 0

-----------------------------------------------------------------------------

Exists(b) == payout[b] # NULL

\* The debits posted for a batch: at most one, by its idempotency key.
PostedFor(b) ==
  {i \in TxIds : /\ Completed(i)
                 /\ wtx[i].type = "PAYOUT"
                 /\ wtx[i].key = b
                 /\ wtx[i].debit = payout[b].vendor}

\* Faulty variant: a batch under reconciliation does not hold its funds.
ReservedInFlight == {"PENDING", "PROCESSING"}

ReservedStatuses == {"PENDING", "PROCESSING", "REQUIRES_RECONCILIATION"}

Reserved(v) ==
  MapThenSumSet(LAMBDA b : payout[b].amount,
    {b \in Batches : /\ Exists(b)
                     /\ payout[b].vendor = v
                     /\ payout[b].status \in ReservedStatuses})

\* calculateVendorPayoutAmount.
Available(v) == balance[v] - Reserved(v)

\* transitionPayout: a completed batch is never reopened, and one whose debit
\* was already posted is repaired instead.
Transition(b, status) ==
  IF payout[b].status = "COMPLETED" THEN payout' = payout
  ELSE IF PostedFor(b) = {} THEN payout' = [payout EXCEPT ![b].status = status]
  ELSE \E i \in PostedFor(b) :
         payout' = [payout EXCEPT ![b].status = "COMPLETED", ![b].tx = i]

Debit(b) == PayoutPosting(payout[b].vendor, payout[b].amount, b)

\* Faulty variant: only a batch still in processing is completed.
CompleteProcessingOnly(b, id) ==
  IF payout[b].status # "PROCESSING"
  THEN UNCHANGED <<wtx, balance, negativeSince, payout>>
  ELSE /\ PostOnce(id, Debit(b))
       /\ payout' = [payout EXCEPT ![b].status = "COMPLETED", ![b].tx = id]

\* completePayoutBatchWithTransfer: debit and completion commit together.
Complete(b, id) ==
  IF payout[b].status = "COMPLETED"
  THEN UNCHANGED <<wtx, balance, negativeSince, payout>>
  ELSE /\ PostOnce(id, Debit(b))
       /\ payout' = [payout EXCEPT ![b].status = "COMPLETED", ![b].tx = id]

\* ... unless the provider names another amount: the funds stay reserved.
HoldForReconciliation(b) ==
  payout' = IF payout[b].status = "COMPLETED" THEN payout
            ELSE [payout EXCEPT ![b].status = "REQUIRES_RECONCILIATION"]

StopWaiting(b) ==
  /\ runner' = [runner EXCEPT ![b] = "IDLE"]
  /\ answer' = [answer EXCEPT ![b] = NULL]

-----------------------------------------------------------------------------
(* A run of the sweep, for one vendor. *)

ReservePayout(b, v) ==
  /\ payout[b] = NULL
  /\ \A c \in Batches : c < b => Exists(c)
  /\ profile[v] = "APPROVED"
  /\ Available(v) >= Threshold
  /\ Available(v) \in Amounts  \* bound
  /\ payout' = [payout EXCEPT ![b] =
       [vendor |-> v, amount |-> Available(v), status |-> "PENDING", tx |-> NULL]]
  /\ runner' = [runner EXCEPT ![b] = "RESERVED"]
  /\ UNCHANGED <<ledgerVars, answer, transfer, notices, failed, crashes>>

\* The batch is marked before the request goes out.
MarkProcessing(b) ==
  /\ runner[b] = "RESERVED"
  /\ Transition(b, "PROCESSING")
  /\ runner' = [runner EXCEPT ![b] = "WAITING"]
  /\ UNCHANGED <<ledgerVars, answer, transfer, notices, failed, crashes>>

\* The demo run makes up a successful transfer instead.
SimulateTransfer(b) ==
  /\ runner[b] = "WAITING"
  /\ transfer[b] = "NONE"
  /\ transfer' = [transfer EXCEPT ![b] = "SIMULATED"]
  /\ answer' = [answer EXCEPT ![b] = "PAID"]
  /\ UNCHANGED <<ledgerVars, payout, runner, notices, failed, crashes>>

\* handleTransferOutcome of a successful answer.
HandlePaid(b, id) ==
  /\ runner[b] = "WAITING"
  /\ answer[b] = "PAID"
  /\ Complete(b, id)
  /\ StopWaiting(b)
  /\ UNCHANGED <<settingsVars, now, transfer, notices, failed, crashes>>

HandleMispaid(b) ==
  /\ runner[b] = "WAITING"
  /\ answer[b] = "MISPAID"
  /\ HoldForReconciliation(b)
  /\ StopWaiting(b)
  /\ UNCHANGED <<ledgerVars, transfer, notices, failed, crashes>>

HandleUnpaid(b) ==
  /\ runner[b] = "WAITING"
  /\ answer[b] \in {"PENDING", "FAILED"}
  /\ Transition(b, IF answer[b] = "FAILED" THEN "FAILED" ELSE "PROCESSING")
  /\ StopWaiting(b)
  /\ UNCHANGED <<ledgerVars, transfer, notices, failed, crashes>>

\* The request is refused before the provider accepted it: AMOUNT_TOO_SMALL,
\* AMOUNT_UNSAFE or NOT_CONFIGURED.
HandleRefusal(b) ==
  /\ runner[b] = "WAITING"
  /\ transfer[b] = "NONE"
  /\ Transition(b, "FAILED")
  /\ StopWaiting(b)
  /\ UNCHANGED <<ledgerVars, transfer, notices, failed, crashes>>

\* Faulty variant: an unknown outcome counts as a failure.
FailUnknown(b) ==
  /\ runner[b] \in {"RESERVED", "WAITING"}
  /\ Transition(b, "FAILED")
  /\ runner' = [runner EXCEPT ![b] = IF @ = "WAITING" THEN "GONE" ELSE "IDLE"]
  /\ answer' = [answer EXCEPT ![b] = NULL]
  /\ UNCHANGED <<ledgerVars, transfer, notices, failed, crashes>>

\* Any other error, a timeout or a refused posting among them, leaves the
\* outcome open; the request may still be on its way.
HandleUnknown(b) ==
  /\ runner[b] \in {"RESERVED", "WAITING"}
  /\ Transition(b, "REQUIRES_RECONCILIATION")
  /\ runner' = [runner EXCEPT ![b] = IF @ = "WAITING" THEN "GONE" ELSE "IDLE"]
  /\ answer' = [answer EXCEPT ![b] = NULL]
  /\ UNCHANGED <<ledgerVars, transfer, notices, failed, crashes>>

\* The server stops: nothing is written, and nobody takes the batch up again.
StopRun(b) ==
  /\ crashes < MaxCrashes
  /\ runner[b] \in {"RESERVED", "WAITING"}
  /\ runner' = [runner EXCEPT ![b] = IF @ = "WAITING" THEN "GONE" ELSE "IDLE"]
  /\ answer' = [answer EXCEPT ![b] = NULL]
  /\ crashes' = crashes + 1
  /\ UNCHANGED <<ledgerVars, payout, transfer, notices, failed>>

-----------------------------------------------------------------------------
(* The provider. *)

Report(b, outcome) ==
  /\ transfer' = [transfer EXCEPT ![b] = outcome]
  /\ notices' = IF outcome = "PENDING" THEN notices ELSE notices \cup {<<b, outcome>>}

\* The request arrives, perhaps after the run gave up.
AcceptTransfer(b, outcome) ==
  /\ runner[b] \in {"WAITING", "GONE"}
  /\ transfer[b] = "NONE"
  /\ outcome \in {"PENDING", "PAID", "MISPAID", "FAILED"}
  /\ Report(b, outcome)
  /\ answer' = IF runner[b] = "WAITING" THEN [answer EXCEPT ![b] = outcome] ELSE answer
  /\ UNCHANGED <<ledgerVars, payout, runner, failed, crashes>>

SettleTransfer(b, outcome) ==
  /\ \/ transfer[b] = "PENDING" /\ outcome \in {"PAID", "MISPAID", "FAILED"}
     \/ transfer[b] = "PAID" /\ outcome = "REVERSED"
  /\ Report(b, outcome)
  /\ UNCHANGED <<ledgerVars, payout, runner, answer, failed, crashes>>

-----------------------------------------------------------------------------
(* The webhook.  An event is recorded before it is handled, and whatever     *)
(* comes of it, its redeliveries are answered as duplicates: each event is   *)
(* handled at most once.                                                     *)

Consume(b, outcome) ==
  /\ <<b, outcome>> \in notices
  /\ notices' = notices \ {<<b, outcome>>}

ApplySuccess(b, id) ==
  /\ Consume(b, "PAID")
  /\ Complete(b, id)
  /\ UNCHANGED <<settingsVars, now, runner, answer, transfer, failed, crashes>>

ApplyMismatch(b) ==
  /\ Consume(b, "MISPAID")
  /\ HoldForReconciliation(b)
  /\ UNCHANGED <<ledgerVars, runner, answer, transfer, failed, crashes>>

\* An incomplete success event is verified, and the transfer was reversed since.
ApplyVerifiedReversal(b) ==
  /\ Consume(b, "PAID")
  /\ transfer[b] = "REVERSED"
  /\ Transition(b, "FAILED")
  /\ UNCHANGED <<ledgerVars, runner, answer, transfer, failed, crashes>>

ApplyFailure(b, outcome) ==
  /\ outcome \in {"FAILED", "REVERSED"}
  /\ Consume(b, outcome)
  /\ Transition(b, "FAILED")
  /\ UNCHANGED <<ledgerVars, runner, answer, transfer, failed, crashes>>

\* The posting is refused because the wallet is switched off.
FailSuccess(b) ==
  /\ Consume(b, "PAID")
  /\ payout[b].status # "COMPLETED"
  /\ ~ walletEnabled
  /\ failed' = failed \cup {<<b, "PAID">>}
  /\ UNCHANGED <<ledgerVars, payout, runner, answer, transfer, crashes>>

\* The server stops, or loses the database, after the event was recorded.
StopHandler(b, outcome) ==
  /\ crashes < MaxCrashes
  /\ Consume(b, outcome)
  /\ failed' = failed \cup {<<b, outcome>>}
  /\ crashes' = crashes + 1
  /\ UNCHANGED <<ledgerVars, payout, runner, answer, transfer>>

-----------------------------------------------------------------------------
(* The rest of the system. *)

\* The previous release posted the debit first and stopped before it completed
\* the batch.
OldReleaseStops(b, id) ==
  /\ crashes < MaxCrashes
  /\ Exists(b)
  /\ transfer[b] = "PAID"
  /\ payout[b].status = "PROCESSING"
  /\ Post(id, Debit(b))
  /\ crashes' = crashes + 1
  /\ UNCHANGED <<settingsVars, now, payout, runner, answer, transfer, notices, failed>>

\* Bound: wallets move while a row is left for the debit of every batch.
RowsLeft ==
  Cardinality({i \in TxIds : wtx[i] = NULL})
    > Cardinality({b \in Batches : ~ Exists(b) \/ PostedFor(b) = {}})

\* Sales fill the wallet and refunds empty it, also below what is reserved.
WalletsMove ==
  /\ \/ /\ RowsLeft
        /\ \E id \in TxIds, a \in Amounts, k \in Keys \ Batches :
             \/ \E s \in Students, c \in Branches : SubmitWalletPayment(id, s, c, a, k)
             \/ \E spend \in TxIds : PostRefund(id, spend, a, k)
     \/ SwitchWallet
  /\ UNCHANGED payoutVars

WebhookStep(b) ==
  \/ \E id \in TxIds : ApplySuccess(b, id)
  \/ ApplyMismatch(b)
  \/ ApplyVerifiedReversal(b)
  \/ \E outcome \in Outcomes : ApplyFailure(b, outcome)
  \/ FailSuccess(b)

Next ==
  \/ \E b \in Batches :
       \/ \E v \in Vendors : ReservePayout(b, v)
       \/ MarkProcessing(b)
       \/ SimulateTransfer(b)
       \/ \E id \in TxIds : HandlePaid(b, id) \/ OldReleaseStops(b, id)
       \/ HandleMispaid(b)
       \/ HandleUnpaid(b)
       \/ HandleRefusal(b)
       \/ HandleUnknown(b)
       \/ StopRun(b)
       \/ \E outcome \in Outcomes :
            \/ AcceptTransfer(b, outcome)
            \/ SettleTransfer(b, outcome)
            \/ StopHandler(b, outcome)
       \/ WebhookStep(b)
  \/ WalletsMove

\* The provider redelivers an event until it is acknowledged, so it is handled
\* in the end.  Neither runs nor transfers are assumed to get anywhere.
Spec == Init /\ [][Next]_vars /\ \A b \in Batches : WF_vars(WebhookStep(b))

-----------------------------------------------------------------------------
(* Properties. *)

\* A reservation is only released once it is certain that no money goes out:
\* the request was refused, or the provider reported a failure or a reversal.
ReleasedIsUnpaid(b) ==
  payout[b].status = "FAILED" =>
    \/ transfer[b] \in {"FAILED", "REVERSED"}
    \/ transfer[b] = "NONE" /\ runner[b] = "IDLE"

\* Batches, transfers and the ledger agree: a completed batch names the one
\* debit of its vendor and amount, a failed one moves no money, and no vendor is
\* debited for a transfer the provider did not confirm (the demo run excepted),
\* whatever answers and events cross.
PayoutsMatchLedger ==
  /\ PayoutTypeOK
  /\ \A b \in Batches : Exists(b) =>
       /\ ReleasedIsUnpaid(b)
       /\ IF payout[b].status = "COMPLETED" THEN PostedFor(b) = {payout[b].tx}
          ELSE payout[b].tx = NULL
  /\ \A i \in TxIds : Completed(i) /\ wtx[i].type = "PAYOUT" =>
       \E b \in Batches : /\ Exists(b)
                          /\ wtx[i] = Debit(b)
                          /\ transfer[b] \in {"PAID", "REVERSED", "SIMULATED"}

\* P5, O3: the provider never holds orders for more than the vendor earned:
\* no funds are paid out twice, by overlapping runs, after a lost answer, or
\* when refunds and events come between.
Earned(v) ==
  Opening[v] + MapThenSumSet(LAMBDA i : wtx[i].amount,
                 {i \in TxIds : IsSpend(i) /\ wtx[i].credit = v})

Ordered(v) ==
  MapThenSumSet(LAMBDA b : payout[b].amount,
    {b \in Batches : /\ Exists(b)
                     /\ payout[b].vendor = v
                     /\ transfer[b] \in {"PENDING", "PAID", "MISPAID"}})

TransfersWithinEarnings == \A v \in Vendors : Ordered(v) <= Earned(v)

CompletedBatch(b) == Exists(b) /\ payout[b].status = "COMPLETED"

\* A transfer the provider made is posted in the end, unless it is reversed or
\* the handling of its event failed: in any order of answers and events, and
\* also when the run that asked for it gave up or was lost.
PaidTransferIsPosted ==
  \A b \in Batches :
    transfer[b] = "PAID" ~>
      transfer[b] = "REVERSED" \/ CompletedBatch(b) \/ <<b, "PAID">> \in failed
=============================================================================
