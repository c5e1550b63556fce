------------------------ MODULE VendorPayoutsProofs ------------------------
(***************************************************************************)
(* Theorems about VendorPayouts: batches, transfers and the ledger agree,  *)
(* and the provider never holds orders for more than a vendor earned, for  *)
(* every number of batches, vendors, amounts and crashes.                  *)
(***************************************************************************)
EXTENDS VendorPayouts, WalletLedgerProofs

Confirmed == {"PAID", "REVERSED", "SIMULATED"}

\* Only sales, refunds and payouts are posted here, each completed at once, and
\* only sales credit a vendor.
RowsSound ==
  \A i \in TxIds : wtx[i] # NULL =>
    /\ wtx[i].status = "COMPLETED"
    /\ wtx[i].type = "SPEND" => wtx[i].debit \in Students
    /\ wtx[i].credit \in Vendors => wtx[i].type = "SPEND"

\* What answers and events say of a transfer, the provider did.
ProviderAgrees ==
  /\ \A b \in Batches : payout[b] = NULL => runner[b] = "IDLE" /\ transfer[b] = "NONE"
  /\ \A b \in Batches : answer[b] = "PAID" => transfer[b] \in Confirmed
  /\ \A b \in Batches : answer[b] = "MISPAID" => transfer[b] = "MISPAID"
  /\ \A b \in Batches : answer[b] = "FAILED" => transfer[b] = "FAILED"
  /\ \A b \in Batches, o \in Outcomes : <<b, o>> \in notices =>
       transfer[b] = o \/ (o = "PAID" /\ transfer[b] = "REVERSED")

\* A completed batch names a debit posted for it, and no other batch does.
OutcomePosted(b) ==
  IF payout[b].status = "COMPLETED" THEN payout[b].tx \in PostedFor(b)
  ELSE payout[b].tx = NULL

BatchesSound == \A b \in Batches : Exists(b) => ReleasedIsUnpaid(b) /\ OutcomePosted(b)

DebitsJustified ==
  \A i \in TxIds : wtx[i] # NULL /\ wtx[i].type = "PAYOUT" =>
    \E b \in Batches : Exists(b) /\ wtx[i] = Debit(b) /\ transfer[b] \in Confirmed

\* A batch whose transfer the provider holds, or may still be asked for.
Live(b) ==
  /\ Exists(b)
  /\ \/ transfer[b] \in {"PENDING", "PAID", "MISPAID"}
     \/ transfer[b] = "NONE" /\ runner[b] # "IDLE"

LiveFor(v) == {b \in Batches : Live(b) /\ payout[b].vendor = v}

Sales(v) == {i \in TxIds : IsSpend(i) /\ wtx[i].credit = v}

ClaimsWithinEarnings ==
  \A v \in Vendors : AmountsIn(payout, LiveFor(v)) <= Opening[v] + AmountsIn(wtx, Sales(v))

PayoutInvariant ==
  /\ LedgerTypeOK
  /\ PayoutTypeOK
  /\ InstructionExecutedOnce
  /\ BalancesMatchLedger
  /\ RowsSound
  /\ ProviderAgrees
  /\ BatchesSound
  /\ DebitsJustified
  /\ ClaimsWithinEarnings

-----------------------------------------------------------------------------
(* What the changes of a batch do. *)

\* Terms of a batch.
LEMMA BatchTyped ==
  ASSUME PayoutTypeOK, NEW b \in Batches, Exists(b)
  PROVE  /\ payout[b] \in PayoutRecords
         /\ payout[b].vendor \in Vendors /\ payout[b].amount \in Amounts
         /\ payout[b].status \in PayoutStatuses /\ payout[b].tx \in TxIds \cup {NULL}
<1>1. payout[b] \in PayoutRecords
  BY DEF PayoutTypeOK, Exists
<1>. QED  BY <1>1 DEF PayoutRecords

\* A batch that is rewritten keeps its vendor and amount.
Rewritten(b, status, tx) ==
  /\ payout' \in [Batches -> PayoutRecords \cup {NULL}]
  /\ payout'[b] # NULL
  /\ payout'[b].vendor = payout[b].vendor /\ payout'[b].amount = payout[b].amount
  /\ payout'[b].status = status /\ payout'[b].tx = tx
  /\ \A c \in Batches : c # b => payout'[c] = payout[c]

\* What a new status leaves of the batches.
LEMMA StatusWritten ==
  ASSUME PayoutTypeOK, NEW b \in Batches, Exists(b), NEW status \in PayoutStatuses,
         payout' = [payout EXCEPT ![b].status = status]
  PROVE  Rewritten(b, status, payout[b].tx)
<1>1. PICK r : r = [payout[b] EXCEPT !.status = status]
  OBVIOUS
<1>2. payout[b] \in PayoutRecords
  BY BatchTyped
<1>3. /\ r \in PayoutRecords /\ r.vendor = payout[b].vendor /\ r.amount = payout[b].amount
      /\ r.status = status /\ r.tx = payout[b].tx
  BY <1>1, <1>2 DEF PayoutRecords
<1>4. payout' = [payout EXCEPT ![b] = r]
  BY <1>1
<1>5. r # NULL
  BY <1>3, PayoutNullAssumption
<1>. QED  BY <1>3, <1>4, <1>5 DEF Rewritten, PayoutTypeOK

\* What a completion leaves of the batches.
LEMMA CompletionWritten ==
  ASSUME PayoutTypeOK, NEW b \in Batches, Exists(b), NEW i \in TxIds,
         payout' = [payout EXCEPT ![b].status = "COMPLETED", ![b].tx = i]
  PROVE  Rewritten(b, "COMPLETED", i)
<1>1. PICK r : r = [payout[b] EXCEPT !.status = "COMPLETED", !.tx = i]
  OBVIOUS
<1>2. payout[b] \in PayoutRecords
  BY BatchTyped
<1>3. /\ r \in PayoutRecords /\ r.vendor = payout[b].vendor /\ r.amount = payout[b].amount
      /\ r.status = "COMPLETED" /\ r.tx = i
  BY <1>1, <1>2 DEF PayoutRecords, PayoutStatuses
<1>4. payout' = [payout EXCEPT ![b] = r]
  BY <1>1, <1>2 DEF PayoutTypeOK, PayoutRecords
<1>5. r # NULL
  BY <1>3, PayoutNullAssumption
<1>6. payout' \in [Batches -> PayoutRecords \cup {NULL}]
  BY <1>3, <1>4 DEF PayoutTypeOK
<1>7. payout'[b] = r /\ \A c \in Batches : c # b => payout'[c] = payout[c]
  BY <1>4 DEF PayoutTypeOK
<1>. QED  BY <1>3, <1>5, <1>6, <1>7 DEF Rewritten

\* Batches as they are after a change: with the same terms, and each one that
\* was there still there.
TermsKept ==
  \A c \in Batches : /\ Exists(c)' <=> Exists(c)
                     /\ Exists(c) => /\ payout'[c].vendor = payout[c].vendor
                                     /\ payout'[c].amount = payout[c].amount

\* What a change of batch b leaves: it is open with the given status, or
\* completed with a debit posted for it.
Outcome(b, status) ==
  /\ payout' \in [Batches -> PayoutRecords \cup {NULL}]
  /\ TermsKept
  /\ \A c \in Batches : c # b => payout'[c] = payout[c]
  /\ \/ payout'[b].status = status /\ payout'[b].tx = NULL
     \/ payout'[b].status = "COMPLETED" /\ payout'[b].tx \in PostedFor(b)

\* A transition gives the batch its status, or finds its debit and completes it.
LEMMA TransitionOutcome ==
  ASSUME PayoutTypeOK, NEW b \in Batches, Exists(b), OutcomePosted(b),
         NEW status \in PayoutStatuses, Transition(b, status)
  PROVE  Outcome(b, status)
<1>1. CASE payout[b].status = "COMPLETED"
  <2>1. payout' = payout
    BY <1>1 DEF Transition
  <2>. QED  BY <1>1, <2>1 DEF Outcome, TermsKept, OutcomePosted, PayoutTypeOK, Exists
<1>2. CASE payout[b].status # "COMPLETED" /\ PostedFor(b) = {}
  <2>1. Rewritten(b, status, payout[b].tx)
    BY <1>2, StatusWritten DEF Transition
  <2>. QED  BY <1>2, <2>1 DEF Rewritten, Outcome, TermsKept, OutcomePosted, Exists
<1>3. CASE payout[b].status # "COMPLETED" /\ PostedFor(b) # {}
  <2>1. PICK i \in PostedFor(b) :
          payout' = [payout EXCEPT ![b].status = "COMPLETED", ![b].tx = i]
    BY <1>3 DEF Transition
  <2>2. i \in TxIds
    BY DEF PostedFor
  <2>3. Rewritten(b, "COMPLETED", i)
    BY <2>1, <2>2, CompletionWritten
  <2>. QED  BY <2>3 DEF Rewritten, Outcome, TermsKept, Exists
<1>. QED  BY <1>1, <1>2, <1>3

\* So does a hold for reconciliation.
LEMMA HoldOutcome ==
  ASSUME PayoutTypeOK, NEW b \in Batches, Exists(b), OutcomePosted(b),
         HoldForReconciliation(b)
  PROVE  Outcome(b, "REQUIRES_RECONCILIATION")
<1>1. CASE payout[b].status = "COMPLETED"
  <2>1. payout' = payout
    BY <1>1 DEF HoldForReconciliation
  <2>. QED  BY <1>1, <2>1 DEF Outcome, TermsKept, OutcomePosted, PayoutTypeOK, Exists
<1>2. CASE payout[b].status # "COMPLETED"
  <2>1. "REQUIRES_RECONCILIATION" \in PayoutStatuses
    BY DEF PayoutStatuses
  <2>2. Rewritten(b, "REQUIRES_RECONCILIATION", payout[b].tx)
    BY <1>2, <2>1, StatusWritten DEF HoldForReconciliation
  <2>. QED  BY <1>2, <2>2 DEF Rewritten, Outcome, TermsKept, OutcomePosted, Exists
<1>. QED  BY <1>1, <1>2

-----------------------------------------------------------------------------
(* What the ledger does. *)

\* The debit of a batch is a well-formed posting.
LEMMA DebitTyped ==
  ASSUME LedgerTypeOK, PayoutTypeOK, NEW b \in Batches, Exists(b)
  PROVE  /\ Debit(b) \in WalletTransactions
         /\ Debit(b).status = "COMPLETED" /\ Debit(b).type = "PAYOUT"
         /\ Debit(b).key = b /\ Debit(b).debit = payout[b].vendor
         /\ Debit(b).amount = payout[b].amount /\ Debit(b).credit \notin Vendors
<1>1. payout[b].vendor \in Vendors /\ payout[b].amount \in Amounts /\ b \in Keys
  BY BatchTyped, PayoutAssumption
<1>2. Debit(b) \in WalletTransactions
  BY <1>1, PostingsTyped DEF Debit
<1>3. "PAYOUT_CLEARING" \notin Vendors
  BY AccountsAssumption DEF SystemAccounts
<1>. QED  BY <1>2, <1>3 DEF Debit, PayoutPosting

\* Completing a batch posts its debit, finds it posted, or changes nothing.
LEMMA CompleteSteps ==
  ASSUME LedgerTypeOK, PayoutTypeOK, NEW b \in Batches, Exists(b), NEW id \in TxIds,
         Complete(b, id)
  PROVE  \/ /\ payout[b].status = "COMPLETED"
            /\ UNCHANGED <<wtx, balance, negativeSince, payout>>
         \/ /\ payout[b].status # "COMPLETED"
            /\ Rewritten(b, "COMPLETED", id)
            /\ Post(id, Debit(b))
         \/ /\ payout[b].status # "COMPLETED"
            /\ Rewritten(b, "COMPLETED", id)
            /\ wtx[id] = Debit(b)
            /\ UNCHANGED <<wtx, balance, negativeSince>>
<1>1. CASE payout[b].status = "COMPLETED"
  BY <1>1 DEF Complete
<1>2. CASE payout[b].status # "COMPLETED"
  <2>1. /\ PostOnce(id, Debit(b))
        /\ payout' = [payout EXCEPT ![b].status = "COMPLETED", ![b].tx = id]
    BY <1>2 DEF Complete
  <2>2. Rewritten(b, "COMPLETED", id)
    BY <2>1, CompletionWritten
  <2>3. CASE Existing(Debit(b)) = {}
    BY <1>2, <2>1, <2>2, <2>3 DEF PostOnce
  <2>4. CASE Existing(Debit(b)) # {}
    <3>1. /\ id \in Existing(Debit(b)) /\ PostingResult(Debit(b)) = "REPLAYED"
          /\ UNCHANGED <<wtx, balance, negativeSince>>
      BY <2>1, <2>4 DEF PostOnce
    <3>2. wtx[id] = Debit(b)
      BY <3>1 DEF PostingResult
    <3>. QED  BY <1>2, <2>2, <3>1, <3>2
  <2>. QED  BY <2>3, <2>4
<1>. QED  BY <1>1, <1>2

\* Every step is a step of the ledger or leaves the ledger alone.
LEMMA LedgerImplemented ==
  ASSUME LedgerTypeOK, PayoutTypeOK, ProviderAgrees, [Next]_vars
  PROVE  [LedgerNext]_ledgerVars
<1>1. ASSUME NEW b \in Batches, Exists(b), NEW id \in TxIds, Post(id, Debit(b)),
             UNCHANGED <<settingsVars, now>>
      PROVE  [LedgerNext]_ledgerVars
  <2>1. payout[b].vendor \in Vendors /\ payout[b].amount \in Amounts /\ b \in Keys
    BY <1>1, BatchTyped, PayoutAssumption
  <2>2. PostPayout(id, payout[b].vendor, payout[b].amount, b)
    BY <1>1 DEF PostPayout, Debit
  <2>. QED  BY <2>1, <2>2 DEF LedgerNext
<1>2. ASSUME NEW b \in Batches, Exists(b), NEW id \in TxIds, Complete(b, id),
             UNCHANGED <<settingsVars, now>>
      PROVE  [LedgerNext]_ledgerVars
  <2>1. CASE UNCHANGED <<wtx, balance, negativeSince>>
    BY <1>2, <2>1 DEF ledgerVars, settingsVars
  <2>2. CASE Post(id, Debit(b))
    BY <1>1, <1>2, <2>2
  <2>. QED  BY <1>2, <2>1, <2>2, CompleteSteps
<1>3. ASSUME NEW b \in Batches, NEW id \in TxIds, HandlePaid(b, id)
      PROVE  [LedgerNext]_ledgerVars
  <2>1. Exists(b)
    BY <1>3 DEF HandlePaid, ProviderAgrees, Exists
  <2>. QED  BY <1>2, <1>3, <2>1 DEF HandlePaid
<1>4. ASSUME NEW b \in Batches, NEW id \in TxIds, ApplySuccess(b, id)
      PROVE  [LedgerNext]_ledgerVars
  <2>1. "PAID" \in Outcomes
    BY DEF Outcomes
  <2>2. Exists(b)
    BY <1>4, <2>1 DEF ApplySuccess, Consume, ProviderAgrees, Exists
  <2>. QED  BY <1>2, <1>4, <2>2 DEF ApplySuccess
<1>5. ASSUME NEW b \in Batches, NEW id \in TxIds, OldReleaseStops(b, id)
      PROVE  [LedgerNext]_ledgerVars
  BY <1>1, <1>5 DEF OldReleaseStops
<1>6. CASE WalletsMove
  BY <1>6 DEF WalletsMove, LedgerNext, ChangeSettings
<1>7. ASSUME UNCHANGED ledgerVars
      PROVE  [LedgerNext]_ledgerVars
  BY <1>7
<1>8. CASE UNCHANGED vars
  BY <1>8 DEF vars
<1>. QED
  BY <1>3, <1>4, <1>5, <1>6, <1>7, <1>8
  DEF Next, WebhookStep, ReservePayout, MarkProcessing, SimulateTransfer, HandleMispaid,
      HandleUnpaid, HandleRefusal, HandleUnknown, StopRun, AcceptTransfer, SettleTransfer,
      StopHandler, ApplyMismatch, ApplyVerifiedReversal, ApplyFailure, FailSuccess

\* Rows of the ledger stay as they are.
RowsKept == \A i \in TxIds : wtx[i] # NULL => wtx'[i] = wtx[i]

\* A posting adds one row.
LEMMA RowPosted ==
  ASSUME LedgerTypeOK, RowsSound, NEW id \in TxIds, NEW t \in WalletTransactions,
         t.status = "COMPLETED", t.type = "SPEND" => t.debit \in Students,
         t.credit \in Vendors => t.type = "SPEND", Post(id, t)
  PROVE  /\ RowsKept /\ RowsSound'
         /\ wtx'[id] = t /\ wtx'[id] # NULL
         /\ \A i \in TxIds : wtx[i] = NULL /\ wtx'[i] # NULL => i = id
<1>1. wtx[id] = NULL /\ wtx' = [wtx EXCEPT ![id] = t] /\ t # NULL
  BY PostFacts, TransactionFields
<1>2. \A i \in TxIds : wtx'[i] = IF i = id THEN t ELSE wtx[i]
  BY <1>1 DEF LedgerTypeOK
<1>. QED  BY <1>1, <1>2 DEF RowsKept, RowsSound

\* The unique index allows one debit of a batch.
LEMMA PostedUnique ==
  ASSUME LedgerTypeOK, InstructionExecutedOnce, NEW b, NEW i \in PostedFor(b)
  PROVE  PostedFor(b) = {i}
<1>1. \A j \in PostedFor(b) :
        /\ j \in TxIds /\ wtx[j] # NULL /\ wtx[j].type = "PAYOUT" /\ wtx[j].key = b
        /\ Initiator(wtx[j]) = payout[b].vendor
  BY DEF PostedFor, Completed, Initiator, TopupTypes
<1>. QED  BY <1>1 DEF InstructionExecutedOnce

-----------------------------------------------------------------------------
(* What every step but a reservation keeps. *)

\* Amounts of batches and rows are natural numbers, of finitely many.
LEMMA BatchAmounts ==
  ASSUME PayoutTypeOK
  PROVE  /\ \A S \in SUBSET Batches : IsFiniteSet(S)
         /\ \A b \in Batches : Exists(b) => payout[b].amount \in Nat
<1>1. \A S \in SUBSET Batches : IsFiniteSet(S)
  BY PayoutAssumption, FS_Subset
<1>2. \A b \in Batches : Exists(b) => payout[b].amount \in Amounts
  BY BatchTyped
<1>. QED  BY <1>1, <1>2, ValuesAssumption

\* What a vendor earned never shrinks.
LEMMA EarningsGrow ==
  ASSUME LedgerTypeOK, LedgerTypeOK', RowsKept, NEW v
  PROVE  /\ AmountsIn(wtx, Sales(v)) <= AmountsIn(wtx', Sales(v)')
         /\ AmountsIn(wtx, Sales(v)) \in Int /\ AmountsIn(wtx', Sales(v)') \in Int
<1>1. /\ Sales(v) \in SUBSET TxIds /\ Sales(v)' \in SUBSET TxIds
      /\ \A i \in Sales(v) : wtx[i] # NULL /\ wtx'[i] = wtx[i]
      /\ \A i \in Sales(v)' : wtx'[i] # NULL
  BY DEF Sales, IsSpend, Completed, RowsKept
<1>2. Sales(v) \in SUBSET Sales(v)'
  BY DEF Sales, IsSpend, Completed, RowsKept
<1>3. AmountsIn(wtx', Sales(v)) = AmountsIn(wtx, Sales(v)) /\ AmountsIn(wtx, Sales(v)) \in Int
  BY <1>1, SumKept
<1>4. IsFiniteSet(Sales(v)') /\ \A i \in Sales(v)' : wtx'[i].amount \in Nat
  <2>1. \A i \in Sales(v)' : wtx'[i] \in WalletTransactions
    BY <1>1 DEF LedgerTypeOK
  <2>2. IsFiniteSet(Sales(v)')
    BY <1>1, RowAmounts
  <2>. QED  BY <2>1, <2>2, TransactionFields
<1>5. AmountsIn(wtx', Sales(v)) <= AmountsIn(wtx', Sales(v)')
  BY <1>2, <1>4, AmountsMonotone
<1>6. AmountsIn(wtx', Sales(v)') \in Int
  BY <1>4, AmountsAdded
<1>. QED  BY <1>3, <1>5, <1>6

\* Steps that bring no new batch into play leave the claims within the earnings.
LEMMA ClaimsKept ==
  ASSUME PayoutInvariant, LedgerTypeOK', TermsKept, RowsKept,
         \A b \in Batches : Live(b)' => Live(b)
  PROVE  ClaimsWithinEarnings'
<1>. LedgerTypeOK /\ PayoutTypeOK
  BY DEF PayoutInvariant
<1>1. SUFFICES ASSUME NEW v \in Vendors
               PROVE  AmountsIn(payout', LiveFor(v)') <= Opening[v] + AmountsIn(wtx', Sales(v)')
  BY DEF ClaimsWithinEarnings
<1>2. LiveFor(v) \in SUBSET Batches /\ \A b \in LiveFor(v) : Exists(b)
  BY DEF LiveFor, Live
<1>3. LiveFor(v)' \in SUBSET LiveFor(v)
  BY DEF LiveFor, Live, TermsKept
<1>4. /\ IsFiniteSet(LiveFor(v)) /\ IsFiniteSet(LiveFor(v)')
      /\ \A b \in LiveFor(v) : /\ payout[b].amount \in Nat
                               /\ payout'[b].amount = payout[b].amount
  BY <1>2, <1>3, BatchAmounts DEF TermsKept
<1>5. AmountsIn(payout', LiveFor(v)') <= AmountsIn(payout', LiveFor(v))
  BY <1>3, <1>4, AmountsMonotone
<1>6. /\ AmountsIn(payout', LiveFor(v)) = AmountsIn(payout, LiveFor(v))
      /\ AmountsIn(payout, LiveFor(v)) \in Int
  BY <1>4, AmountsAgree, AmountsAdded
<1>7. AmountsIn(payout', LiveFor(v)') \in Int
  BY <1>3, <1>4, AmountsAdded
<1>8. AmountsIn(payout, LiveFor(v)) <= Opening[v] + AmountsIn(wtx, Sales(v))
  BY DEF PayoutInvariant, ClaimsWithinEarnings
<1>9. Opening[v] \in Int
  BY OpeningAssumption DEF Accounts
<1>10. /\ AmountsIn(wtx, Sales(v)) <= AmountsIn(wtx', Sales(v)')
       /\ AmountsIn(wtx, Sales(v)) \in Int /\ AmountsIn(wtx', Sales(v)') \in Int
  BY EarningsGrow
<1> DEFINE claimed    == AmountsIn(payout', LiveFor(v)')
           kept    == AmountsIn(payout', LiveFor(v))
           held == AmountsIn(payout, LiveFor(v))
           earned == AmountsIn(wtx, Sales(v))
           grown  == AmountsIn(wtx', Sales(v)')
<1>11. /\ claimed <= kept /\ kept = held /\ held <= Opening[v] + earned /\ earned <= grown
       /\ claimed \in Int /\ held \in Int /\ earned \in Int /\ grown \in Int
  BY <1>5, <1>6, <1>7, <1>8, <1>10
<1> HIDE DEF claimed, kept, held, earned, grown
<1>12. claimed <= Opening[v] + grown
  BY <1>9, <1>11
<1>. QED  BY <1>12 DEF claimed, grown

\* A completed batch keeps its debit: it is the only row under its key.
LEMMA OutcomeKept ==
  ASSUME PayoutTypeOK, NEW b \in Batches, Exists(b), RowsKept, payout'[b] = payout[b],
         OutcomePosted(b)
  PROVE  OutcomePosted(b)'
<1>1. \A i \in TxIds : wtx[i] # NULL => wtx'[i] = wtx[i]
  BY DEF RowsKept
<1>. QED  BY <1>1 DEF OutcomePosted, PostedFor, Completed

\* A debit justified before a step stays justified, and so does a new one.
LEMMA DebitsKept ==
  ASSUME PayoutInvariant, TermsKept, RowsKept,
         \A b \in Batches : transfer[b] \in Confirmed => transfer'[b] \in Confirmed,
         \A i \in TxIds : wtx[i] = NULL /\ wtx'[i] # NULL /\ wtx'[i].type = "PAYOUT" =>
           \E b \in Batches : Exists(b) /\ wtx'[i] = Debit(b) /\ transfer[b] \in Confirmed
  PROVE  DebitsJustified'
<1>1. \A b \in Batches : Exists(b) => Exists(b)' /\ Debit(b)' = Debit(b)
  BY DEF TermsKept, Debit, PayoutPosting
<1>2. SUFFICES ASSUME NEW i \in TxIds, wtx'[i] # NULL, wtx'[i].type = "PAYOUT"
               PROVE  \E b \in Batches : Exists(b)' /\ wtx'[i] = Debit(b)'
                                           /\ transfer'[b] \in Confirmed
  BY DEF DebitsJustified
<1>3. PICK b \in Batches : Exists(b) /\ wtx'[i] = Debit(b) /\ transfer[b] \in Confirmed
  <2>1. CASE wtx[i] = NULL
    BY <1>2, <2>1
  <2>2. CASE wtx[i] # NULL
    BY <1>2, <2>2 DEF RowsKept, PayoutInvariant, DebitsJustified
  <2>. QED  BY <2>1, <2>2
<1>. QED  BY <1>1, <1>3

\* Together: what a step has to show to keep the invariant.
LEMMA InvariantAfter ==
  ASSUME PayoutInvariant, [LedgerNext]_ledgerVars,
         PayoutTypeOK', ProviderAgrees', RowsSound', TermsKept, RowsKept,
         \A b \in Batches : Live(b)' => Live(b),
         \A b \in Batches : transfer[b] \in Confirmed => transfer'[b] \in Confirmed,
         \A i \in TxIds : wtx[i] = NULL /\ wtx'[i] # NULL /\ wtx'[i].type = "PAYOUT" =>
           \E b \in Batches : Exists(b) /\ wtx'[i] = Debit(b) /\ transfer[b] \in Confirmed,
         \A b \in Batches : Exists(b) => ReleasedIsUnpaid(b)' /\ OutcomePosted(b)'
  PROVE  PayoutInvariant'
<1>1. LedgerTypeOK' /\ InstructionExecutedOnce' /\ BalancesMatchLedger'
  BY TypingStep, OncePreserved, BalancesPreserved DEF PayoutInvariant
<1>2. BatchesSound'
  BY DEF BatchesSound, TermsKept
<1>. QED  BY <1>1, <1>2, ClaimsKept, DebitsKept DEF PayoutInvariant

-----------------------------------------------------------------------------
(* Answers and events, which leave the ledger alone. *)

\* The ledger stands still.
LEMMA LedgerStill ==
  ASSUME PayoutInvariant, UNCHANGED ledgerVars
  PROVE  /\ [LedgerNext]_ledgerVars /\ RowsSound' /\ RowsKept /\ wtx' = wtx
         /\ \A i \in TxIds : ~ (wtx[i] = NULL /\ wtx'[i] # NULL)
<1>1. wtx' = wtx
  BY DEF ledgerVars
<1>. QED  BY <1>1 DEF PayoutInvariant, RowsSound, RowsKept

\* One batch changes its status, or is repaired.
LEMMA BatchChanged ==
  ASSUME PayoutInvariant, UNCHANGED <<ledgerVars, transfer>>, PayoutTypeOK', ProviderAgrees',
         NEW b \in Batches, Exists(b), NEW status \in PayoutStatuses \ {"COMPLETED"},
         Outcome(b, status),
         \A c \in Batches : c # b => runner'[c] = runner[c],
         transfer[b] = "NONE" /\ runner'[b] # "IDLE" => runner[b] # "IDLE",
         status = "FAILED" => \/ transfer[b] \in {"FAILED", "REVERSED"}
                              \/ transfer[b] = "NONE" /\ runner'[b] = "IDLE"
  PROVE  PayoutInvariant'
<1>. UNCHANGED ledgerVars /\ LedgerTypeOK /\ PayoutTypeOK
  BY DEF PayoutInvariant
<1>1. /\ TermsKept /\ \A c \in Batches : c # b => payout'[c] = payout[c]
      /\ \/ payout'[b].status = status /\ payout'[b].tx = NULL
         \/ payout'[b].status = "COMPLETED" /\ payout'[b].tx \in PostedFor(b)
  BY DEF Outcome
<1>2. \A c \in Batches : Live(c)' => Live(c)
  BY <1>1 DEF Live, TermsKept
<1>3. wtx' = wtx
  BY LedgerStill
<1>4. ASSUME NEW c \in Batches, Exists(c)
      PROVE  ReleasedIsUnpaid(c)' /\ OutcomePosted(c)'
  <2>1. ReleasedIsUnpaid(c) /\ OutcomePosted(c)
    BY <1>4 DEF PayoutInvariant, BatchesSound
  <2>2. CASE c # b
    <3>1. payout'[c] = payout[c] /\ runner'[c] = runner[c] /\ transfer'[c] = transfer[c]
      BY <1>1, <2>2
    <3>2. OutcomePosted(c)'
      BY <1>4, <2>1, <3>1, LedgerStill, OutcomeKept
    <3>. QED  BY <2>1, <3>1, <3>2 DEF ReleasedIsUnpaid
  <2>3. CASE c = b
    <3>1. ReleasedIsUnpaid(b)'
      BY <1>1 DEF ReleasedIsUnpaid
    <3>2. payout'[b].vendor = payout[b].vendor
      BY <1>1 DEF TermsKept
    <3>3. OutcomePosted(b)'
      BY <1>1, <1>3, <3>2 DEF OutcomePosted, PostedFor, Completed
    <3>. QED  BY <2>3, <3>1, <3>3
  <2>. QED  BY <2>2, <2>3
<1>. QED  BY <1>1, <1>2, <1>4, LedgerStill, InvariantAfter

\* Only the transfer, its run or its events change.
LEMMA TransferChanged ==
  ASSUME PayoutInvariant, UNCHANGED <<ledgerVars, payout>>, PayoutTypeOK', ProviderAgrees',
         \A c \in Batches : Live(c)' => Live(c),
         \A c \in Batches : transfer[c] \in Confirmed => transfer'[c] \in Confirmed,
         \A c \in Batches : Exists(c) /\ ReleasedIsUnpaid(c) => ReleasedIsUnpaid(c)'
  PROVE  PayoutInvariant'
<1>. UNCHANGED ledgerVars /\ UNCHANGED payout
  OBVIOUS
<1>1. TermsKept
  BY DEF TermsKept, Exists
<1>2. ASSUME NEW c \in Batches, Exists(c)
      PROVE  ReleasedIsUnpaid(c)' /\ OutcomePosted(c)'
  <2>1. ReleasedIsUnpaid(c) /\ OutcomePosted(c) /\ PayoutTypeOK
    BY <1>2 DEF PayoutInvariant, BatchesSound
  <2>. QED  BY <1>2, <2>1, LedgerStill, OutcomeKept
<1>. QED  BY <1>1, <1>2, LedgerStill, InvariantAfter

\* A batch somebody acts on exists.
LEMMA Acting ==
  ASSUME ProviderAgrees, NEW b \in Batches,
         runner[b] # "IDLE" \/ transfer[b] # "NONE" \/ \E o \in Outcomes : <<b, o>> \in notices
  PROVE  Exists(b)
<1>1. ASSUME NEW o \in Outcomes, <<b, o>> \in notices
      PROVE  transfer[b] # "NONE"
  BY <1>1 DEF ProviderAgrees, Outcomes
<1>. QED  BY <1>1 DEF ProviderAgrees, Exists

\* What the provider did stays what answers and events say.
LEMMA ProviderKept ==
  ASSUME ProviderAgrees, UNCHANGED transfer, notices' \subseteq notices, TermsKept,
         \A c \in Batches : Exists(c) \/ runner'[c] = runner[c],
         \A c \in Batches : answer'[c] \in {answer[c], NULL}
  PROVE  ProviderAgrees'
<1>1. NULL \notin {"PAID", "MISPAID", "FAILED"}
  BY PayoutNullAssumption DEF Outcomes
<1>2. \A b \in Batches : payout'[b] = NULL => runner'[b] = "IDLE" /\ transfer'[b] = "NONE"
  BY DEF ProviderAgrees, TermsKept, Exists
<1>3. \A b \in Batches : answer'[b] \in {"PAID", "MISPAID", "FAILED"} => answer'[b] = answer[b]
  BY <1>1
<1>. QED  BY <1>2, <1>3 DEF ProviderAgrees

\* The run marks the batch processing before it asks the provider.
LEMMA MarkKeeps ==
  ASSUME PayoutInvariant, NEW b \in Batches, MarkProcessing(b)
  PROVE  PayoutInvariant'
<1>. PayoutTypeOK /\ ProviderAgrees /\ UNCHANGED <<ledgerVars, transfer>>
  BY DEF PayoutInvariant, MarkProcessing
<1>1. Exists(b) /\ OutcomePosted(b)
  BY Acting DEF MarkProcessing, PayoutInvariant, BatchesSound
<1>2. "PROCESSING" \in PayoutStatuses \ {"COMPLETED"}
  BY DEF PayoutStatuses
<1>3. Outcome(b, "PROCESSING")
  BY <1>1, <1>2, TransitionOutcome DEF MarkProcessing
<1>4. PayoutTypeOK' /\ \A c \in Batches : c # b => runner'[c] = runner[c]
  BY <1>3 DEF MarkProcessing, PayoutTypeOK, Outcome
<1>5. ProviderAgrees'
  BY <1>1, <1>4, <1>3, ProviderKept DEF MarkProcessing, Outcome
<1>. QED  BY <1>1, <1>2, <1>3, <1>4, <1>5, BatchChanged DEF MarkProcessing

\* A transfer of the wrong amount leaves the batch for a reconciliation by hand.
LEMMA MispaidKeeps ==
  ASSUME PayoutInvariant, NEW b \in Batches, HandleMispaid(b)
  PROVE  PayoutInvariant'
<1>. PayoutTypeOK /\ ProviderAgrees /\ UNCHANGED <<ledgerVars, transfer>>
  BY DEF PayoutInvariant, HandleMispaid
<1>1. Exists(b) /\ OutcomePosted(b)
  BY Acting DEF HandleMispaid, PayoutInvariant, BatchesSound
<1>2. "REQUIRES_RECONCILIATION" \in PayoutStatuses \ {"COMPLETED"}
  BY DEF PayoutStatuses
<1>3. Outcome(b, "REQUIRES_RECONCILIATION")
  BY <1>1, HoldOutcome DEF HandleMispaid
<1>4. PayoutTypeOK' /\ runner'[b] = "IDLE" /\ \A c \in Batches : c # b => runner'[c] = runner[c]
  BY <1>3 DEF HandleMispaid, StopWaiting, PayoutTypeOK, Outcome
<1>5. ProviderAgrees'
  <2>1. \A c \in Batches : answer'[c] \in {answer[c], NULL}
    BY DEF HandleMispaid, StopWaiting, PayoutTypeOK
  <2>. QED  BY <1>1, <1>3, <1>4, <2>1, ProviderKept DEF HandleMispaid, Outcome
<1>. QED  BY <1>1, <1>2, <1>3, <1>4, <1>5, BatchChanged
\* An answer that is not a success: open or failed, as the provider reports it.
LEMMA UnpaidKeeps ==
  ASSUME PayoutInvariant, NEW b \in Batches, HandleUnpaid(b)
  PROVE  PayoutInvariant'
<1>. PayoutTypeOK /\ ProviderAgrees /\ UNCHANGED <<ledgerVars, transfer>>
  BY DEF PayoutInvariant, HandleUnpaid
<1> DEFINE status == IF answer[b] = "FAILED" THEN "FAILED" ELSE "PROCESSING"
<1>1. Exists(b) /\ OutcomePosted(b)
  BY Acting DEF HandleUnpaid, PayoutInvariant, BatchesSound
<1>2. status \in PayoutStatuses \ {"COMPLETED"}
  BY DEF PayoutStatuses
<1>3. Transition(b, status)
  BY DEF HandleUnpaid
<1>4. status = "FAILED" => transfer[b] = "FAILED"
  BY DEF ProviderAgrees
<1> HIDE DEF status
<1>5. Outcome(b, status)
  BY <1>1, <1>2, <1>3, TransitionOutcome
<1>6. PayoutTypeOK' /\ runner'[b] = "IDLE" /\ \A c \in Batches : c # b => runner'[c] = runner[c]
  BY <1>5 DEF HandleUnpaid, StopWaiting, PayoutTypeOK, Outcome
<1>7. ProviderAgrees'
  <2>1. \A c \in Batches : answer'[c] \in {answer[c], NULL}
    BY DEF HandleUnpaid, StopWaiting, PayoutTypeOK
  <2>. QED  BY <1>1, <1>5, <1>6, <2>1, ProviderKept DEF HandleUnpaid, Outcome
<1>. QED  BY <1>1, <1>2, <1>4, <1>5, <1>6, <1>7, BatchChanged

\* A refused request: no transfer was made, and none will be.
LEMMA RefusalKeeps ==
  ASSUME PayoutInvariant, NEW b \in Batches, HandleRefusal(b)
  PROVE  PayoutInvariant'
<1>. PayoutTypeOK /\ ProviderAgrees /\ UNCHANGED <<ledgerVars, transfer>>
  BY DEF PayoutInvariant, HandleRefusal
<1>1. Exists(b) /\ OutcomePosted(b)
  BY Acting DEF HandleRefusal, PayoutInvariant, BatchesSound
<1>2. "FAILED" \in PayoutStatuses \ {"COMPLETED"}
  BY DEF PayoutStatuses
<1>3. Outcome(b, "FAILED") /\ transfer[b] = "NONE"
  BY <1>1, <1>2, TransitionOutcome DEF HandleRefusal
<1>4. PayoutTypeOK' /\ runner'[b] = "IDLE" /\ \A c \in Batches : c # b => runner'[c] = runner[c]
  BY <1>3 DEF HandleRefusal, StopWaiting, PayoutTypeOK, Outcome
<1>5. ProviderAgrees'
  <2>1. \A c \in Batches : answer'[c] \in {answer[c], NULL}
    BY DEF HandleRefusal, StopWaiting, PayoutTypeOK
  <2>. QED  BY <1>1, <1>3, <1>4, <2>1, ProviderKept DEF HandleRefusal, Outcome
<1>. QED  BY <1>1, <1>2, <1>3, <1>4, <1>5, BatchChanged

\* An unknown outcome keeps the funds reserved.
LEMMA UnknownKeeps ==
  ASSUME PayoutInvariant, NEW b \in Batches, HandleUnknown(b)
  PROVE  PayoutInvariant'
<1>. PayoutTypeOK /\ ProviderAgrees /\ UNCHANGED <<ledgerVars, transfer>>
  BY DEF PayoutInvariant, HandleUnknown
<1>1. Exists(b) /\ OutcomePosted(b) /\ runner[b] # "IDLE"
  BY Acting DEF HandleUnknown, PayoutInvariant, BatchesSound
<1>2. "REQUIRES_RECONCILIATION" \in PayoutStatuses \ {"COMPLETED"}
  BY DEF PayoutStatuses
<1>3. Outcome(b, "REQUIRES_RECONCILIATION")
  BY <1>1, <1>2, TransitionOutcome DEF HandleUnknown
<1>4. PayoutTypeOK' /\ \A c \in Batches : c # b => runner'[c] = runner[c]
  BY <1>3 DEF HandleUnknown, PayoutTypeOK, Outcome
<1>5. ProviderAgrees'
  <2>1. \A c \in Batches : answer'[c] \in {answer[c], NULL}
    BY DEF HandleUnknown, PayoutTypeOK
  <2>. QED  BY <1>1, <1>3, <1>4, <2>1, ProviderKept DEF HandleUnknown, Outcome
<1>. QED  BY <1>1, <1>2, <1>3, <1>4, <1>5, BatchChanged

\* What consuming an event leaves alone.
LEMMA EventConsumed ==
  ASSUME PayoutInvariant, NEW b \in Batches, NEW o \in Outcomes, Consume(b, o)
  PROVE  /\ Exists(b) /\ OutcomePosted(b)
         /\ notices' \subseteq notices
         /\ transfer[b] = o \/ (o = "PAID" /\ transfer[b] = "REVERSED")
<1>1. ProviderAgrees /\ <<b, o>> \in notices /\ notices' \subseteq notices
  BY DEF Consume, PayoutInvariant
<1>. QED  BY <1>1, Acting DEF ProviderAgrees, PayoutInvariant, BatchesSound

\* A success that names another amount keeps the funds reserved.
LEMMA MismatchKeeps ==
  ASSUME PayoutInvariant, NEW b \in Batches, ApplyMismatch(b)
  PROVE  PayoutInvariant'
<1>. PayoutTypeOK /\ ProviderAgrees /\ UNCHANGED <<ledgerVars, transfer>>
  BY DEF PayoutInvariant, ApplyMismatch
<1>1. Exists(b) /\ OutcomePosted(b) /\ notices' \subseteq notices
  BY EventConsumed DEF ApplyMismatch, Outcomes
<1>2. "REQUIRES_RECONCILIATION" \in PayoutStatuses \ {"COMPLETED"}
  BY DEF PayoutStatuses
<1>3. Outcome(b, "REQUIRES_RECONCILIATION")
  BY <1>1, HoldOutcome DEF ApplyMismatch
<1>4. PayoutTypeOK' /\ runner' = runner
  BY <1>1, <1>3 DEF ApplyMismatch, PayoutTypeOK, Outcome
<1>5. ProviderAgrees'
  BY <1>1, <1>3, <1>4, ProviderKept DEF ApplyMismatch, Outcome
<1>. QED  BY <1>1, <1>2, <1>3, <1>4, <1>5, BatchChanged

\* An event of a failed or reversed transfer releases the reservation.
LEMMA ReleaseKeeps ==
  ASSUME PayoutInvariant, NEW b \in Batches, NEW o \in Outcomes, Consume(b, o),
         transfer[b] \in {"FAILED", "REVERSED"}, Transition(b, "FAILED"),
         UNCHANGED <<ledgerVars, runner, answer, transfer, failed, crashes>>
  PROVE  PayoutInvariant'
<1>. PayoutTypeOK /\ ProviderAgrees /\ UNCHANGED <<ledgerVars, transfer>>
  BY DEF PayoutInvariant
<1>1. Exists(b) /\ OutcomePosted(b) /\ notices' \subseteq notices
  BY EventConsumed
<1>2. "FAILED" \in PayoutStatuses \ {"COMPLETED"}
  BY DEF PayoutStatuses
<1>3. Outcome(b, "FAILED")
  BY <1>1, <1>2, TransitionOutcome
<1>4. PayoutTypeOK' /\ runner' = runner
  BY <1>1, <1>3 DEF PayoutTypeOK, Outcome
<1>5. ProviderAgrees'
  BY <1>1, <1>3, <1>4, ProviderKept DEF Outcome
<1>. QED  BY <1>1, <1>2, <1>3, <1>4, <1>5, BatchChanged

\* A success event whose transfer was reversed since.
LEMMA VerifiedReversalKeeps ==
  ASSUME PayoutInvariant, NEW b \in Batches, ApplyVerifiedReversal(b)
  PROVE  PayoutInvariant'
BY ReleaseKeeps DEF ApplyVerifiedReversal, Outcomes

\* A failure or reversal event.
LEMMA FailureKeeps ==
  ASSUME PayoutInvariant, NEW b \in Batches, NEW o \in Outcomes, ApplyFailure(b, o)
  PROVE  PayoutInvariant'
<1>1. o # "PAID" /\ Consume(b, o)
  BY DEF ApplyFailure
<1>2. transfer[b] \in {"FAILED", "REVERSED"}
  BY <1>1, EventConsumed DEF ApplyFailure
<1>. QED  BY <1>1, <1>2, ReleaseKeeps DEF ApplyFailure
-----------------------------------------------------------------------------
(* The run and the provider, which leave the batches alone. *)

\* The demo run makes up a transfer: the provider never holds it.
LEMMA SimulationKeeps ==
  ASSUME PayoutInvariant, NEW b \in Batches, SimulateTransfer(b)
  PROVE  PayoutInvariant'
<1>. PayoutTypeOK /\ ProviderAgrees /\ UNCHANGED <<ledgerVars, payout>>
  BY DEF PayoutInvariant, SimulateTransfer
<1>1. Exists(b) /\ transfer[b] = "NONE" /\ runner[b] = "WAITING"
  BY Acting DEF SimulateTransfer
<1>2. /\ \A c \in Batches : transfer'[c] = IF c = b THEN "SIMULATED" ELSE transfer[c]
      /\ \A c \in Batches : answer'[c] = IF c = b THEN "PAID" ELSE answer[c]
      /\ UNCHANGED <<payout, runner, notices>>
  BY DEF SimulateTransfer, PayoutTypeOK
<1>3. PayoutTypeOK'
  BY DEF SimulateTransfer, PayoutTypeOK, Outcomes
<1>4. ProviderAgrees'
  BY <1>1, <1>2 DEF ProviderAgrees, Confirmed, Outcomes, Exists
<1>5. \A c \in Batches : Live(c)' => Live(c)
  BY <1>2 DEF Live, Exists
<1>6. \A c \in Batches : transfer[c] \in Confirmed => transfer'[c] \in Confirmed
  BY <1>2 DEF Confirmed
<1>7. \A c \in Batches : Exists(c) /\ ReleasedIsUnpaid(c) => ReleasedIsUnpaid(c)'
  BY <1>1, <1>2 DEF ReleasedIsUnpaid
<1>. QED  BY <1>3, <1>4, <1>5, <1>6, <1>7, TransferChanged

\* A run that stops: a request may still be on its way.
LEMMA StopKeeps ==
  ASSUME PayoutInvariant, NEW b \in Batches, StopRun(b)
  PROVE  PayoutInvariant'
<1>. PayoutTypeOK /\ ProviderAgrees /\ UNCHANGED <<ledgerVars, payout>>
  BY DEF PayoutInvariant, StopRun
<1>1. Exists(b) /\ runner[b] # "IDLE"
  BY Acting DEF StopRun
<1>2. /\ \A c \in Batches : c # b => runner'[c] = runner[c]
      /\ runner[b] = "WAITING" => runner'[b] = "GONE"
      /\ runner[b] = "RESERVED" => runner'[b] = "IDLE"
      /\ \A c \in Batches : answer'[c] \in {answer[c], NULL}
      /\ UNCHANGED <<payout, transfer, notices>>
  BY DEF StopRun, PayoutTypeOK
<1>3. PayoutTypeOK'
  BY PayoutAssumption DEF StopRun, PayoutTypeOK
<1>4. TermsKept
  BY DEF TermsKept, Exists
<1>5. ProviderAgrees'
  BY <1>1, <1>2, <1>4, ProviderKept
<1>6. \A c \in Batches : Live(c)' => Live(c)
  BY <1>1, <1>2 DEF Live, Exists
<1>7. \A c \in Batches : Exists(c) /\ ReleasedIsUnpaid(c) => ReleasedIsUnpaid(c)'
  BY <1>1, <1>2 DEF ReleasedIsUnpaid
<1>. QED  BY <1>2, <1>3, <1>5, <1>6, <1>7, TransferChanged

\* The provider's view of a transfer moves on.
LEMMA ReportKeeps ==
  ASSUME PayoutInvariant, NEW b \in Batches, NEW o \in Outcomes, Report(b, o), Live(b),
         \/ transfer[b] \in {"NONE", "PENDING"} /\ o # "REVERSED"
         \/ transfer[b] = "PAID" /\ o = "REVERSED",
         PayoutTypeOK', UNCHANGED <<ledgerVars, payout, runner>>,
         \A c \in Batches : answer'[c] = answer[c] \/ (c = b /\ answer'[c] = o /\ o # "REVERSED")
  PROVE  PayoutInvariant'
<1>. PayoutTypeOK /\ ProviderAgrees
  BY DEF PayoutInvariant
<1>1. Exists(b) /\ ReleasedIsUnpaid(b)
  BY DEF Live, PayoutInvariant, BatchesSound
<1>2. /\ \A c \in Batches : transfer'[c] = IF c = b THEN o ELSE transfer[c]
      /\ \A c \in Batches, u \in Outcomes : <<c, u>> \in notices' =>
           <<c, u>> \in notices \/ (c = b /\ u = o)
      /\ \A c \in Batches, u \in Outcomes : <<c, u>> \in notices => u # "PENDING"
  BY DEF Report, PayoutTypeOK, Notices
<1>3. ProviderAgrees'
  <2>1. \A c \in Batches : payout'[c] = NULL => runner'[c] = "IDLE" /\ transfer'[c] = "NONE"
    BY <1>1, <1>2 DEF ProviderAgrees, Exists
  <2>2. ASSUME NEW c \in Batches
        PROVE  /\ answer'[c] = "PAID" => transfer'[c] \in Confirmed
               /\ answer'[c] = "MISPAID" => transfer'[c] = "MISPAID"
               /\ answer'[c] = "FAILED" => transfer'[c] = "FAILED"
    BY <1>2 DEF ProviderAgrees, Confirmed
  <2>3. ASSUME NEW c \in Batches, NEW u \in Outcomes, <<c, u>> \in notices'
        PROVE  transfer'[c] = u \/ (u = "PAID" /\ transfer'[c] = "REVERSED")
    <3>1. CASE <<c, u>> \in notices
      <4>1. (transfer[c] = u \/ (u = "PAID" /\ transfer[c] = "REVERSED")) /\ u # "PENDING"
        BY <1>2, <3>1 DEF ProviderAgrees
      <4>. QED  BY <1>2, <4>1 DEF Outcomes
    <3>2. CASE c = b /\ u = o
      BY <1>2, <3>2
    <3>. QED  BY <1>2, <2>3, <3>1, <3>2
  <2>. QED  BY <2>1, <2>2, <2>3 DEF ProviderAgrees
<1>4. \A c \in Batches : Live(c)' => Live(c)
  BY <1>2 DEF Live, Exists
<1>5. \A c \in Batches : transfer[c] \in Confirmed => transfer'[c] \in Confirmed
  BY <1>2 DEF Confirmed
<1>6. \A c \in Batches : Exists(c) /\ ReleasedIsUnpaid(c) => ReleasedIsUnpaid(c)'
  BY <1>1, <1>2 DEF ReleasedIsUnpaid, Live
<1>. QED  BY <1>3, <1>4, <1>5, <1>6, TransferChanged

\* A request arrives.
LEMMA AcceptKeeps ==
  ASSUME PayoutInvariant, NEW b \in Batches, NEW o \in Outcomes, AcceptTransfer(b, o)
  PROVE  PayoutInvariant'
<1>. PayoutTypeOK /\ ProviderAgrees /\ UNCHANGED <<ledgerVars, payout, runner>>
  BY DEF PayoutInvariant, AcceptTransfer
<1>1. Live(b) /\ transfer[b] = "NONE" /\ o # "REVERSED"
  BY Acting DEF AcceptTransfer, Live
<1>2. Report(b, o)
  BY DEF AcceptTransfer
<1>3. PayoutTypeOK'
  BY DEF AcceptTransfer, Report, PayoutTypeOK, Notices
<1>4. \A c \in Batches : answer'[c] = answer[c] \/ (c = b /\ answer'[c] = o)
  BY DEF AcceptTransfer, PayoutTypeOK
<1>. QED  BY <1>1, <1>2, <1>3, <1>4, ReportKeeps

\* A transfer succeeds, fails or is reversed.
LEMMA SettleKeeps ==
  ASSUME PayoutInvariant, NEW b \in Batches, NEW o \in Outcomes, SettleTransfer(b, o)
  PROVE  PayoutInvariant'
<1>. PayoutTypeOK /\ ProviderAgrees /\ UNCHANGED <<ledgerVars, payout, runner>>
  BY DEF PayoutInvariant, SettleTransfer
<1>1. /\ Live(b)
      /\ \/ transfer[b] = "PENDING" /\ o # "REVERSED"
         \/ transfer[b] = "PAID" /\ o = "REVERSED"
  BY Acting DEF SettleTransfer, Live
<1>2. Report(b, o)
  BY DEF SettleTransfer
<1>3. PayoutTypeOK'
  BY DEF SettleTransfer, Report, PayoutTypeOK, Notices, Outcomes
<1>4. \A c \in Batches : answer'[c] = answer[c]
  BY DEF SettleTransfer
<1>. QED  BY <1>1, <1>2, <1>3, <1>4, ReportKeeps

\* An event whose handling fails or stops is lost.
LEMMA LostEventKeeps ==
  ASSUME PayoutInvariant, NEW b \in Batches, NEW o \in Outcomes, Consume(b, o),
         UNCHANGED <<ledgerVars, payout, runner, answer, transfer>>, PayoutTypeOK'
  PROVE  PayoutInvariant'
<1>. PayoutTypeOK /\ ProviderAgrees
  BY DEF PayoutInvariant
<1>1. notices' \subseteq notices
  BY DEF Consume
<1>2. TermsKept
  BY DEF TermsKept, Exists
<1>3. ProviderAgrees'
  BY <1>1, <1>2, ProviderKept
<1>4. \A c \in Batches : (Live(c)' => Live(c)) /\ (ReleasedIsUnpaid(c) => ReleasedIsUnpaid(c)')
  BY DEF Live, Exists, ReleasedIsUnpaid
<1>. QED  BY <1>3, <1>4, TransferChanged

\* The posting of a success is refused.
LEMMA FailSuccessKeeps ==
  ASSUME PayoutInvariant, NEW b \in Batches, FailSuccess(b)
  PROVE  PayoutInvariant'
<1>1. PayoutTypeOK'
  BY DEF PayoutInvariant, FailSuccess, Consume, PayoutTypeOK, Notices
<1>2. "PAID" \in Outcomes
  BY DEF Outcomes
<1>. QED  BY <1>1, <1>2, LostEventKeeps DEF FailSuccess

\* The server stops after it recorded an event.
LEMMA StopHandlerKeeps ==
  ASSUME PayoutInvariant, NEW b \in Batches, NEW o \in Outcomes, StopHandler(b, o)
  PROVE  PayoutInvariant'
<1>1. PayoutTypeOK'
  BY PayoutAssumption DEF PayoutInvariant, StopHandler, Consume, PayoutTypeOK, Notices
<1>. QED  BY <1>1, LostEventKeeps DEF StopHandler
-----------------------------------------------------------------------------
(* Postings. *)

\* Completing a batch whose transfer is confirmed.
LEMMA CompletionKeeps ==
  ASSUME PayoutInvariant, [LedgerNext]_ledgerVars, NEW b \in Batches, NEW id \in TxIds,
         Exists(b), Complete(b, id), transfer[b] \in Confirmed, UNCHANGED transfer,
         ProviderAgrees', PayoutTypeOK', UNCHANGED <<settingsVars, now>>,
         \A c \in Batches : runner'[c] = runner[c] \/ (c = b /\ runner'[c] = "IDLE")
  PROVE  PayoutInvariant'
<1>. LedgerTypeOK /\ PayoutTypeOK /\ RowsSound
  BY DEF PayoutInvariant
<1>1. CASE UNCHANGED <<wtx, balance, negativeSince, payout>>
  <2>1. UNCHANGED <<ledgerVars, payout>>
    BY <1>1 DEF ledgerVars, settingsVars
  <2>2. \A c \in Batches : Live(c)' => Live(c)
    BY <2>1 DEF Live, Exists
  <2>3. \A c \in Batches : Exists(c) /\ ReleasedIsUnpaid(c) => ReleasedIsUnpaid(c)'
    BY <2>1 DEF ReleasedIsUnpaid
  <2>. QED  BY <2>1, <2>2, <2>3, TransferChanged
<1>2. ASSUME Rewritten(b, "COMPLETED", id), RowsKept, RowsSound', wtx'[id] = Debit(b),
             \A i \in TxIds : wtx[i] = NULL /\ wtx'[i] # NULL => i = id
      PROVE  PayoutInvariant'
  <2>1. /\ TermsKept /\ \A c \in Batches : c # b => payout'[c] = payout[c]
        /\ payout'[b].status = "COMPLETED" /\ payout'[b].tx = id
        /\ payout'[b].vendor = payout[b].vendor
    BY <1>2 DEF Rewritten, TermsKept, Exists
  <2>2. \A c \in Batches : Live(c)' => Live(c)
    BY <2>1 DEF Live, TermsKept
  <2>3. ASSUME NEW c \in Batches, Exists(c)
        PROVE  ReleasedIsUnpaid(c)' /\ OutcomePosted(c)'
    <3>1. ReleasedIsUnpaid(c) /\ OutcomePosted(c)
      BY <2>3 DEF PayoutInvariant, BatchesSound
    <3>2. CASE c # b
      <4>1. payout'[c] = payout[c] /\ runner'[c] = runner[c] /\ transfer'[c] = transfer[c]
        BY <2>1, <3>2
      <4>2. OutcomePosted(c)'
        BY <1>2, <2>3, <3>1, <4>1, OutcomeKept
      <4>. QED  BY <3>1, <4>1, <4>2 DEF ReleasedIsUnpaid
    <3>3. CASE c = b
      <4>1. /\ Debit(b) # NULL /\ Debit(b).status = "COMPLETED" /\ Debit(b).type = "PAYOUT"
            /\ Debit(b).key = b /\ Debit(b).debit = payout[b].vendor
        BY DebitTyped, TransactionFields
      <4>2. id \in PostedFor(b)'
        BY <1>2, <2>1, <4>1 DEF PostedFor, Completed
      <4>. QED  BY <2>1, <3>3, <4>2 DEF OutcomePosted, ReleasedIsUnpaid
    <3>. QED  BY <3>2, <3>3
  <2>4. \A i \in TxIds : wtx[i] = NULL /\ wtx'[i] # NULL /\ wtx'[i].type = "PAYOUT" =>
          \E d \in Batches : Exists(d) /\ wtx'[i] = Debit(d) /\ transfer[d] \in Confirmed
    BY <1>2
  <2>. QED  BY <1>2, <2>1, <2>2, <2>3, <2>4, InvariantAfter
<1>3. CASE Rewritten(b, "COMPLETED", id) /\ Post(id, Debit(b))
  <2>1. /\ RowsKept /\ RowsSound' /\ wtx'[id] = Debit(b)
        /\ \A i \in TxIds : wtx[i] = NULL /\ wtx'[i] # NULL => i = id
    <3>1. /\ Debit(b) \in WalletTransactions /\ Debit(b).status = "COMPLETED"
          /\ Debit(b).type = "PAYOUT" /\ Debit(b).credit \notin Vendors
      BY DebitTyped
    <3>. QED  BY <1>3, <3>1, RowPosted
  <2>. QED  BY <1>2, <1>3, <2>1
<1>4. CASE /\ Rewritten(b, "COMPLETED", id) /\ wtx[id] = Debit(b)
           /\ UNCHANGED <<wtx, balance, negativeSince>>
  <2>1. UNCHANGED ledgerVars
    BY <1>4 DEF ledgerVars, settingsVars
  <2>. QED  BY <1>2, <1>4, <2>1, LedgerStill
<1>. QED  BY <1>1, <1>3, <1>4, CompleteSteps

\* The batches are well-typed after a completion, and keep their terms.
LEMMA CompletionTyped ==
  ASSUME PayoutInvariant, NEW b \in Batches, NEW id \in TxIds, Exists(b), Complete(b, id)
  PROVE  payout' \in [Batches -> PayoutRecords \cup {NULL}] /\ TermsKept
<1>. LedgerTypeOK /\ PayoutTypeOK
  BY DEF PayoutInvariant
<1>1. CASE payout' = payout
  BY <1>1 DEF PayoutTypeOK, TermsKept, Exists
<1>2. CASE Rewritten(b, "COMPLETED", id)
  BY <1>2 DEF Rewritten, TermsKept, Exists
<1>. QED  BY <1>1, <1>2, CompleteSteps

\* A successful answer.
LEMMA PaidKeeps ==
  ASSUME PayoutInvariant, [LedgerNext]_ledgerVars, NEW b \in Batches, NEW id \in TxIds,
         HandlePaid(b, id)
  PROVE  PayoutInvariant'
<1>. PayoutTypeOK /\ ProviderAgrees
  BY DEF PayoutInvariant
<1>1. Exists(b) /\ transfer[b] \in Confirmed /\ Complete(b, id)
  BY Acting DEF HandlePaid, ProviderAgrees
<1>2. payout' \in [Batches -> PayoutRecords \cup {NULL}] /\ TermsKept
  BY <1>1, CompletionTyped
<1>3. PayoutTypeOK'
  BY <1>2 DEF HandlePaid, StopWaiting, PayoutTypeOK
<1>4. /\ \A c \in Batches : runner'[c] = runner[c] \/ (c = b /\ runner'[c] = "IDLE")
      /\ \A c \in Batches : answer'[c] \in {answer[c], NULL}
      /\ UNCHANGED <<transfer, notices>> /\ UNCHANGED <<settingsVars, now>>
  BY DEF HandlePaid, StopWaiting, PayoutTypeOK
<1>5. ProviderAgrees'
  BY <1>1, <1>2, <1>4, ProviderKept
<1>. QED  BY <1>1, <1>3, <1>4, <1>5, CompletionKeeps

\* A success event.
LEMMA SuccessKeeps ==
  ASSUME PayoutInvariant, [LedgerNext]_ledgerVars, NEW b \in Batches, NEW id \in TxIds,
         ApplySuccess(b, id)
  PROVE  PayoutInvariant'
<1>. PayoutTypeOK /\ ProviderAgrees
  BY DEF PayoutInvariant
<1>1. "PAID" \in Outcomes /\ Consume(b, "PAID") /\ Complete(b, id)
  BY DEF ApplySuccess, Outcomes
<1>2. Exists(b) /\ transfer[b] \in Confirmed /\ notices' \subseteq notices
  BY <1>1, EventConsumed DEF Confirmed
<1>3. payout' \in [Batches -> PayoutRecords \cup {NULL}] /\ TermsKept
  BY <1>1, <1>2, CompletionTyped
<1>4. PayoutTypeOK'
  BY <1>2, <1>3 DEF ApplySuccess, PayoutTypeOK
<1>5. UNCHANGED <<transfer, runner, answer>> /\ UNCHANGED <<settingsVars, now>>
  BY DEF ApplySuccess
<1>6. ProviderAgrees'
  BY <1>2, <1>3, <1>5, ProviderKept
<1>. QED  BY <1>1, <1>2, <1>4, <1>5, <1>6, CompletionKeeps

\* A posting that leaves the batches alone: a debit the old release posted, or
\* a sale or a refund.
LEMMA PostingKeeps ==
  ASSUME PayoutInvariant, [LedgerNext]_ledgerVars, NEW id \in TxIds,
         NEW t \in WalletTransactions, Post(id, t), t.status = "COMPLETED",
         t.type = "SPEND" => t.debit \in Students, t.credit \in Vendors => t.type = "SPEND",
         t.type = "PAYOUT" =>
           \E b \in Batches : Exists(b) /\ t = Debit(b) /\ transfer[b] \in Confirmed,
         UNCHANGED <<payout, runner, answer, transfer, notices>>, PayoutTypeOK'
  PROVE  PayoutInvariant'
<1>. LedgerTypeOK /\ PayoutTypeOK /\ RowsSound
  BY DEF PayoutInvariant
<1>1. /\ RowsKept /\ RowsSound' /\ wtx'[id] = t
      /\ \A i \in TxIds : wtx[i] = NULL /\ wtx'[i] # NULL => i = id
  BY RowPosted
<1>2. TermsKept /\ ProviderAgrees' /\ \A c \in Batches : Live(c)' => Live(c)
  BY DEF TermsKept, Exists, PayoutInvariant, ProviderAgrees, Live
<1>3. ASSUME NEW c \in Batches, Exists(c)
      PROVE  ReleasedIsUnpaid(c)' /\ OutcomePosted(c)'
  <2>1. ReleasedIsUnpaid(c) /\ OutcomePosted(c)
    BY <1>3 DEF PayoutInvariant, BatchesSound
  <2>2. OutcomePosted(c)'
    BY <1>1, <1>3, <2>1, OutcomeKept
  <2>. QED  BY <2>1, <2>2 DEF ReleasedIsUnpaid
<1>4. \A i \in TxIds : wtx[i] = NULL /\ wtx'[i] # NULL /\ wtx'[i].type = "PAYOUT" =>
        \E b \in Batches : Exists(b) /\ wtx'[i] = Debit(b) /\ transfer[b] \in Confirmed
  BY <1>1
<1>. QED  BY <1>1, <1>2, <1>3, <1>4, InvariantAfter

\* The previous release posted the debit of a transfer the provider made.
LEMMA OldReleaseKeeps ==
  ASSUME PayoutInvariant, [LedgerNext]_ledgerVars, NEW b \in Batches, NEW id \in TxIds,
         OldReleaseStops(b, id)
  PROVE  PayoutInvariant'
<1>1. LedgerTypeOK /\ PayoutTypeOK /\ Exists(b) /\ transfer[b] \in Confirmed
  BY DEF PayoutInvariant, OldReleaseStops, Confirmed
<1>2. /\ Debit(b) \in WalletTransactions /\ Debit(b).status = "COMPLETED"
      /\ Debit(b).type = "PAYOUT" /\ Debit(b).credit \notin Vendors
  BY <1>1, DebitTyped
<1>3. PayoutTypeOK'
  BY <1>1, PayoutAssumption DEF OldReleaseStops, PayoutTypeOK
<1>. QED  BY <1>1, <1>2, <1>3, PostingKeeps DEF OldReleaseStops

\* A sale debits a student and credits the vendor of the branch.
LEMMA SaleKeeps ==
  ASSUME PayoutInvariant, [LedgerNext]_ledgerVars, NEW id \in TxIds, NEW s \in Students,
         NEW c \in Branches, NEW a \in Amounts, NEW k \in Keys,
         SubmitWalletPayment(id, s, c, a, k), UNCHANGED payoutVars
  PROVE  PayoutInvariant'
<1>. LedgerTypeOK /\ PayoutTypeOK
  BY DEF PayoutInvariant
<1>1. PICK t : t = SpendPosting(s, c, a, k, NULL)
  OBVIOUS
<1>2. t \in WalletTransactions
  BY <1>1, PostingsTyped
<1>3. t.status = "COMPLETED" /\ t.type = "SPEND" /\ t.debit \in Students
  BY <1>1 DEF SpendPosting
<1>4. Post(id, t)
  BY <1>1 DEF SubmitWalletPayment
<1>5. PayoutTypeOK' /\ UNCHANGED <<payout, runner, answer, transfer, notices>>
  BY DEF payoutVars, PayoutTypeOK
<1>. QED  BY <1>2, <1>3, <1>4, <1>5, PostingKeeps

\* A refund credits the student of the sale.
LEMMA RefundKeeps ==
  ASSUME PayoutInvariant, [LedgerNext]_ledgerVars, NEW id \in TxIds, NEW spend \in TxIds,
         NEW a \in Amounts, NEW k \in Keys, PostRefund(id, spend, a, k), UNCHANGED payoutVars
  PROVE  PayoutInvariant'
<1>. LedgerTypeOK /\ PayoutTypeOK /\ RowsSound
  BY DEF PayoutInvariant
<1>1. PICK t : t = RefundPosting(spend, a, k)
  OBVIOUS
<1>2. IsSpend(spend) /\ Post(id, t)
  BY <1>1 DEF PostRefund
<1>3. t \in WalletTransactions
  BY <1>1, <1>2, PostingsTyped
<1>4. t.status = "COMPLETED" /\ t.type = "REFUND" /\ t.credit = wtx[spend].debit
  BY <1>1 DEF RefundPosting
<1>5. t.credit \notin Vendors
  BY <1>2, <1>4, AccountsAssumption DEF RowsSound, IsSpend, Completed
<1>6. PayoutTypeOK' /\ UNCHANGED <<payout, runner, answer, transfer, notices>>
  BY DEF payoutVars, PayoutTypeOK
<1>. QED  BY <1>2, <1>3, <1>4, <1>5, <1>6, PostingKeeps
\* The university switches the wallet on or off.
LEMMA SwitchKeeps ==
  ASSUME PayoutInvariant, [LedgerNext]_ledgerVars, SwitchWallet, UNCHANGED payoutVars
  PROVE  PayoutInvariant'
<1>. PayoutTypeOK
  BY DEF PayoutInvariant
<1>1. wtx' = wtx /\ RowsKept /\ RowsSound'
  BY DEF SwitchWallet, RowsKept, RowsSound, PayoutInvariant
<1>2. /\ PayoutTypeOK' /\ TermsKept /\ ProviderAgrees' /\ UNCHANGED <<payout, transfer>>
      /\ \A c \in Batches : Live(c)' => Live(c)
  BY DEF payoutVars, PayoutTypeOK, TermsKept, Exists, PayoutInvariant, ProviderAgrees, Live
<1>3. ASSUME NEW c \in Batches, Exists(c)
      PROVE  ReleasedIsUnpaid(c)' /\ OutcomePosted(c)'
  <2>1. ReleasedIsUnpaid(c) /\ OutcomePosted(c)
    BY <1>3 DEF PayoutInvariant, BatchesSound
  <2>2. OutcomePosted(c)'
    BY <1>1, <1>2, <1>3, <2>1, OutcomeKept
  <2>. QED  BY <2>1, <2>2 DEF ReleasedIsUnpaid, payoutVars
<1>. QED  BY <1>1, <1>2, <1>3, InvariantAfter

-----------------------------------------------------------------------------
(* The reservation: what is available was earned and is claimed by no other  *)
(* batch.                                                                    *)

HeldFor(v) ==
  {b \in Batches : Exists(b) /\ payout[b].vendor = v /\ payout[b].status \in ReservedStatuses}

PaidFor(v) ==
  {b \in Batches : Exists(b) /\ payout[b].vendor = v /\ payout[b].status = "COMPLETED"}

\* Completed batches of a vendor are debited: one row each.
LEMMA PaidIsDebited ==
  ASSUME PayoutInvariant, NEW v \in Vendors
  PROVE  AmountsIn(payout, PaidFor(v)) <= AmountsIn(wtx, Debits(v))
<1>. LedgerTypeOK /\ PayoutTypeOK
  BY DEF PayoutInvariant
<1> DEFINE f == [b \in PaidFor(v) |-> payout[b].tx]
<1>1. ASSUME NEW b \in PaidFor(v)
      PROVE  /\ f[b] \in Debits(v) /\ wtx[f[b]].key = b
             /\ wtx[f[b]].amount = payout[b].amount
  <2>1. b \in Batches /\ Exists(b) /\ payout[b].vendor = v /\ f[b] \in PostedFor(b)
    BY DEF PaidFor, PayoutInvariant, BatchesSound, OutcomePosted
  <2>2. /\ f[b] \in TxIds /\ Completed(f[b]) /\ wtx[f[b]] # NULL /\ wtx[f[b]].type = "PAYOUT"
        /\ wtx[f[b]].key = b /\ wtx[f[b]].debit = v
    BY <2>1 DEF PostedFor, Completed
  <2>3. PICK d \in Batches : Exists(d) /\ wtx[f[b]] = Debit(d)
    BY <2>2 DEF PayoutInvariant, DebitsJustified
  <2>4. Debit(d).key = d /\ Debit(d).amount = payout[d].amount
    BY DEF Debit, PayoutPosting
  <2>. QED  BY <2>2, <2>3, <2>4 DEF Debits
<1>2. /\ IsFiniteSet(PaidFor(v)) /\ IsFiniteSet(Debits(v))
      /\ \A i \in Debits(v) : wtx[i].amount \in Nat
      /\ \A b \in PaidFor(v) : payout[b].amount \in Int
  <2>1. PaidFor(v) \in SUBSET Batches /\ \A b \in PaidFor(v) : Exists(b)
    BY DEF PaidFor
  <2>2. Debits(v) \in SUBSET TxIds /\ \A i \in Debits(v) : wtx[i] # NULL
    BY DEF Debits, Completed
  <2>. QED  BY <2>1, <2>2, BatchAmounts, RowAmounts
<1>3. f \in [PaidFor(v) -> Debits(v)] /\ \A a, b \in PaidFor(v) : f[a] = f[b] => a = b
  BY <1>1
<1>4. \A b \in PaidFor(v) : payout[b].amount \in Int /\ wtx[f[b]].amount = payout[b].amount
  BY <1>1, <1>2
<1>5. {f[b] : b \in PaidFor(v)} \in SUBSET Debits(v)
  BY <1>1
<1> HIDE DEF f
<1>6. AmountsIn(wtx, {f[b] : b \in PaidFor(v)}) = AmountsIn(payout, PaidFor(v))
  BY <1>2, <1>3, <1>4, AmountsMapped
<1>7. AmountsIn(wtx, {f[b] : b \in PaidFor(v)}) <= AmountsIn(wtx, Debits(v))
  BY <1>2, <1>5, AmountsMonotone
<1>. QED  BY <1>6, <1>7

\* A claim is either reserved or paid.
LEMMA ClaimsAreHeldOrPaid ==
  ASSUME PayoutInvariant, NEW v \in Vendors
  PROVE  /\ AmountsIn(payout, LiveFor(v))
              <= AmountsIn(payout, HeldFor(v)) + AmountsIn(payout, PaidFor(v))
         /\ AmountsIn(payout, LiveFor(v)) \in Int /\ AmountsIn(payout, HeldFor(v)) \in Int
         /\ AmountsIn(payout, PaidFor(v)) \in Int
<1>. PayoutTypeOK
  BY DEF PayoutInvariant
<1>1. /\ HeldFor(v) \in SUBSET Batches /\ PaidFor(v) \in SUBSET Batches
      /\ HeldFor(v) \cap PaidFor(v) = {} /\ \A b \in HeldFor(v) \cup PaidFor(v) : Exists(b)
  BY DEF HeldFor, PaidFor, ReservedStatuses
<1>2. LiveFor(v) \in SUBSET (HeldFor(v) \cup PaidFor(v))
  <2>1. SUFFICES ASSUME NEW b \in Batches, Live(b), payout[b].vendor = v
                 PROVE  payout[b].status \in ReservedStatuses \cup {"COMPLETED"}
    BY DEF LiveFor, HeldFor, PaidFor, Live
  <2>2. Exists(b) /\ payout[b].status \in PayoutStatuses
    BY <2>1, BatchTyped DEF Live
  <2>3. payout[b].status # "FAILED"
    BY <2>1, <2>2 DEF PayoutInvariant, BatchesSound, ReleasedIsUnpaid, Live
  <2>. QED  BY <2>2, <2>3 DEF PayoutStatuses, ReservedStatuses
<1>3. /\ IsFiniteSet(HeldFor(v)) /\ IsFiniteSet(PaidFor(v)) /\ IsFiniteSet(LiveFor(v))
      /\ IsFiniteSet(HeldFor(v) \cup PaidFor(v))
      /\ \A b \in HeldFor(v) \cup PaidFor(v) : payout[b].amount \in Nat
  <2>1. HeldFor(v) \cup PaidFor(v) \in SUBSET Batches /\ LiveFor(v) \in SUBSET Batches
    BY <1>1 DEF LiveFor
  <2>. QED  BY <1>1, <2>1, BatchAmounts
<1>4. AmountsIn(payout, LiveFor(v)) <= AmountsIn(payout, HeldFor(v) \cup PaidFor(v))
  BY <1>2, <1>3, AmountsMonotone
<1>5. AmountsIn(payout, HeldFor(v) \cup PaidFor(v))
        = AmountsIn(payout, HeldFor(v)) + AmountsIn(payout, PaidFor(v))
  <2>1. \A b \in HeldFor(v) \cup PaidFor(v) : payout[b].amount \in Int
    BY <1>3
  <2>. QED  BY <1>1, <1>3, <2>1, AmountsUnion
<1>6. /\ AmountsIn(payout, LiveFor(v)) \in Int /\ AmountsIn(payout, HeldFor(v)) \in Int
      /\ AmountsIn(payout, PaidFor(v)) \in Int
  <2>1. /\ \A b \in LiveFor(v) : payout[b].amount \in Int
        /\ \A b \in HeldFor(v) : payout[b].amount \in Int
        /\ \A b \in PaidFor(v) : payout[b].amount \in Int
    BY <1>2, <1>3
  <2>. QED  BY <1>3, <2>1, AmountsAdded
<1>. QED  BY <1>4, <1>5, <1>6

\* What a vendor may claim on top of the claims there are.
LEMMA AvailableIsEarned ==
  ASSUME PayoutInvariant, NEW v \in Vendors
  PROVE  AmountsIn(payout, LiveFor(v)) + Available(v) <= Opening[v] + AmountsIn(wtx, Sales(v))
<1>. LedgerTypeOK /\ PayoutTypeOK
  BY DEF PayoutInvariant
<1>1. Available(v) = balance[v] - AmountsIn(payout, HeldFor(v))
  BY DEF Available, Reserved, HeldFor, AmountsIn, MapThenSumSet, MapThenFoldSet
<1>2. v \in Accounts /\ Opening[v] \in Int
  BY OpeningAssumption DEF Accounts
<1>3. balance[v] = Opening[v] + (AmountsIn(wtx, Credits(v)) - AmountsIn(wtx, Debits(v)))
  BY <1>2, LedgerSums DEF PayoutInvariant, BalancesMatchLedger
<1>4. /\ AmountsIn(wtx, Credits(v)) \in Int /\ AmountsIn(wtx, Debits(v)) \in Int
      /\ AmountsIn(wtx, Sales(v)) \in Int
      /\ AmountsIn(wtx, Credits(v)) <= AmountsIn(wtx, Sales(v))
  <2>1. /\ Credits(v) \in SUBSET TxIds /\ Debits(v) \in SUBSET TxIds /\ Sales(v) \in SUBSET TxIds
        /\ \A i \in Credits(v) : wtx[i] # NULL
        /\ \A i \in Debits(v) : wtx[i] # NULL
        /\ \A i \in Sales(v) : wtx[i] # NULL
    BY DEF Credits, Debits, Sales, IsSpend, Completed
  <2>2. Credits(v) \in SUBSET Sales(v)
    BY DEF Credits, Sales, IsSpend, Completed, PayoutInvariant, RowsSound
  <2>3. /\ IsFiniteSet(Credits(v)) /\ IsFiniteSet(Debits(v)) /\ IsFiniteSet(Sales(v))
        /\ \A i \in Credits(v) : wtx[i].amount \in Int
        /\ \A i \in Debits(v) : wtx[i].amount \in Int
        /\ \A i \in Sales(v) : wtx[i].amount \in Nat /\ wtx[i].amount \in Int
    BY <2>1, RowAmounts
  <2>. QED  BY <2>2, <2>3, AmountsAdded, AmountsMonotone
<1>5. AmountsIn(payout, PaidFor(v)) <= AmountsIn(wtx, Debits(v))
  BY PaidIsDebited
<1> DEFINE live == AmountsIn(payout, LiveFor(v))
           reserved == AmountsIn(payout, HeldFor(v))
           paid == AmountsIn(payout, PaidFor(v))
           credits == AmountsIn(wtx, Credits(v))
           debits == AmountsIn(wtx, Debits(v))
           sales == AmountsIn(wtx, Sales(v))
           available == Available(v)
<1>6. /\ live <= reserved + paid /\ paid <= debits /\ credits <= sales
      /\ available = (Opening[v] + (credits - debits)) - reserved
      /\ live \in Int /\ reserved \in Int /\ paid \in Int
      /\ credits \in Int /\ debits \in Int /\ sales \in Int
  BY <1>1, <1>3, <1>4, <1>5, ClaimsAreHeldOrPaid
<1> HIDE DEF live, reserved, paid, credits, debits, sales, available
<1>7. live + available <= Opening[v] + sales
  BY <1>2, <1>6
<1>. QED  BY <1>7 DEF live, available, sales
\* A run reserves what is available.
LEMMA ReserveKeeps ==
  ASSUME PayoutInvariant, NEW b \in Batches, NEW v \in Vendors, ReservePayout(b, v)
  PROVE  PayoutInvariant'
<1>. /\ LedgerTypeOK /\ PayoutTypeOK /\ ProviderAgrees
     /\ UNCHANGED ledgerVars /\ wtx' = wtx
  BY LedgerStill DEF PayoutInvariant, ReservePayout
<1>1. /\ LedgerTypeOK' /\ InstructionExecutedOnce' /\ BalancesMatchLedger'
      /\ RowsSound' /\ RowsKept
  BY LedgerStill, TypingStep, OncePreserved, BalancesPreserved DEF PayoutInvariant
<1>2. PICK r : r = [vendor |-> v, amount |-> Available(v), status |-> "PENDING", tx |-> NULL]
  OBVIOUS
<1>3. /\ payout[b] = NULL /\ Available(v) \in Amounts /\ payout' = [payout EXCEPT ![b] = r]
      /\ runner' = [runner EXCEPT ![b] = "RESERVED"]
      /\ UNCHANGED <<answer, transfer, notices, failed, crashes>>
  BY <1>2 DEF ReservePayout
<1>4. r \in PayoutRecords /\ r # NULL
  BY <1>2, <1>3, PayoutNullAssumption DEF PayoutRecords, PayoutStatuses
<1>5. PayoutTypeOK'
  BY <1>3, <1>4 DEF PayoutTypeOK
<1>6. /\ payout'[b] = r /\ \A c \in Batches : c # b => payout'[c] = payout[c]
      /\ runner'[b] = "RESERVED" /\ \A c \in Batches : c # b => runner'[c] = runner[c]
  BY <1>3 DEF PayoutTypeOK
<1>7. ProviderAgrees'
  BY <1>3, <1>4, <1>6 DEF ProviderAgrees
<1>8. \A c \in Batches : Exists(c) => c # b /\ Exists(c)' /\ payout'[c] = payout[c]
  BY <1>3, <1>6 DEF Exists
<1>9. BatchesSound'
  <2>1. SUFFICES ASSUME NEW c \in Batches, Exists(c)'
                 PROVE  ReleasedIsUnpaid(c)' /\ OutcomePosted(c)'
    BY DEF BatchesSound
  <2>2. CASE c = b
    BY <1>2, <1>6, <2>2 DEF ReleasedIsUnpaid, OutcomePosted
  <2>3. CASE c # b
    <3>1. Exists(c) /\ payout'[c] = payout[c] /\ runner'[c] = runner[c] /\ transfer'[c] = transfer[c]
      BY <1>3, <1>6, <2>1, <2>3 DEF Exists
    <3>2. ReleasedIsUnpaid(c) /\ OutcomePosted(c)
      BY <3>1 DEF PayoutInvariant, BatchesSound
    <3>3. OutcomePosted(c)'
      BY <1>1, <3>1, <3>2, OutcomeKept
    <3>. QED  BY <3>1, <3>2, <3>3 DEF ReleasedIsUnpaid
  <2>. QED  BY <2>2, <2>3
<1>10. DebitsJustified'
  <2>1. SUFFICES ASSUME NEW i \in TxIds, wtx[i] # NULL, wtx[i].type = "PAYOUT"
                 PROVE  \E c \in Batches : Exists(c)' /\ wtx[i] = Debit(c)'
                                             /\ transfer'[c] \in Confirmed
    BY DEF DebitsJustified
  <2>2. PICK c \in Batches : Exists(c) /\ wtx[i] = Debit(c) /\ transfer[c] \in Confirmed
    BY <2>1 DEF PayoutInvariant, DebitsJustified
  <2>3. Debit(c)' = Debit(c)
    BY <1>8, <2>2 DEF Debit, PayoutPosting
  <2>. QED  BY <1>3, <1>8, <2>2, <2>3
<1>11. ASSUME NEW w \in Vendors
       PROVE  AmountsIn(payout', LiveFor(w)') <= Opening[w] + AmountsIn(wtx, Sales(w))
  <2>1. /\ LiveFor(w) \in SUBSET Batches /\ b \notin LiveFor(w)
        /\ \A c \in LiveFor(w) : Exists(c) /\ payout'[c].amount = payout[c].amount
    BY <1>3, <1>8 DEF LiveFor, Live, Exists
  <2>2. transfer[b] = "NONE"
    BY <1>3 DEF ProviderAgrees
  <2>3. LiveFor(w)' = IF w = v THEN LiveFor(w) \cup {b} ELSE LiveFor(w)
    <3>1. \A c \in Batches : c # b => (Live(c)' <=> Live(c))
      BY <1>3, <1>6 DEF Live, Exists
    <3>2. Live(b)' /\ payout'[b].vendor = v
      BY <1>2, <1>3, <1>4, <1>6, <2>2 DEF Live, Exists
    <3>3. ~ Live(b)
      BY <1>3 DEF Live, Exists
    <3>. QED  BY <1>6, <3>1, <3>2, <3>3 DEF LiveFor
  <2>4. /\ IsFiniteSet(LiveFor(w))
        /\ \A c \in LiveFor(w) : payout[c].amount \in Int /\ payout'[c].amount = payout[c].amount
    BY <2>1, BatchAmounts
  <2>5. AmountsIn(payout', LiveFor(w)) = AmountsIn(payout, LiveFor(w))
    BY <2>4, AmountsAgree
  <2>6. CASE w # v
    <3>1. AmountsIn(payout, LiveFor(w)) <= Opening[w] + AmountsIn(wtx, Sales(w))
      BY DEF PayoutInvariant, ClaimsWithinEarnings
    <3>. QED  BY <2>3, <2>5, <2>6, <3>1
  <2>7. CASE w = v
    <3>1. payout'[b].amount = Available(v) /\ Available(v) \in Int
      <4>1. r.amount = Available(v)
        BY <1>2
      <4>2. \A x \in Amounts : x \in Int
        BY ValuesAssumption
      <4>. QED  BY <1>3, <1>6, <4>1, <4>2
    <3>2. /\ IsFiniteSet(LiveFor(v) \cup {b}) /\ (LiveFor(v) \cup {b}) \ {b} = LiveFor(v)
          /\ \A c \in LiveFor(v) \cup {b} : payout'[c].amount \in Int
      <4>1. LiveFor(v) \cup {b} \in SUBSET Batches
        BY <2>1, <2>7
      <4>. QED  BY <2>1, <2>4, <2>7, <3>1, <4>1, BatchAmounts
    <3>3. AmountsIn(payout', LiveFor(v) \cup {b})
            = payout'[b].amount + AmountsIn(payout', LiveFor(v))
      BY <3>2, AmountsAdded
    <3>4. AmountsIn(payout, LiveFor(v)) \in Int
      BY <2>4, <2>7, AmountsAdded
    <3> DEFINE live == AmountsIn(payout, LiveFor(v))
               after == AmountsIn(payout', LiveFor(v) \cup {b})
               bound == Opening[v] + AmountsIn(wtx, Sales(v))
               available == Available(v)
    <3>5. after = available + live /\ live + available <= bound /\ live \in Int /\ available \in Int
      BY <2>5, <2>7, <3>1, <3>3, <3>4, AvailableIsEarned
    <3>. HIDE DEF live, after, bound, available
    <3>6. after <= bound
      BY <3>5
    <3>. QED  BY <2>3, <2>7, <3>6 DEF after, bound
  <2>. QED  BY <2>6, <2>7
<1>12. ClaimsWithinEarnings'
  BY <1>11 DEF ClaimsWithinEarnings, Sales, IsSpend, Completed
<1>. QED  BY <1>1, <1>5, <1>7, <1>9, <1>10, <1>12 DEF PayoutInvariant
-----------------------------------------------------------------------------
(* The theorems. *)

\* When the period starts there is no batch, transfer or row.
LEMMA PayoutsInit ==
  ASSUME Init
  PROVE  PayoutInvariant
<1>1. LedgerTypeOK /\ BalancesMatchLedger
  BY TypingInit, BalancesInit DEF Init
<1>2. \A i \in TxIds : wtx[i] = NULL
  BY DEF Init, LedgerInit
<1>3. InstructionExecutedOnce /\ RowsSound /\ DebitsJustified
  BY <1>2 DEF InstructionExecutedOnce, RowsSound, DebitsJustified
<1>4. PayoutTypeOK
  BY PayoutAssumption DEF Init, PayoutTypeOK
<1>5. /\ \A b \in Batches : ~ Exists(b) /\ runner[b] = "IDLE" /\ transfer[b] = "NONE"
      /\ \A b \in Batches : answer[b] = NULL
      /\ notices = {}
  BY DEF Init, Exists
<1>6. NULL \notin {"PAID", "MISPAID", "FAILED"}
  BY PayoutNullAssumption DEF Outcomes
<1>7. ProviderAgrees /\ BatchesSound
  BY <1>5, <1>6 DEF ProviderAgrees, BatchesSound
<1>8. ClaimsWithinEarnings
  <2>1. SUFFICES ASSUME NEW v \in Vendors
                 PROVE  AmountsIn(payout, LiveFor(v)) <= Opening[v] + AmountsIn(wtx, Sales(v))
    BY DEF ClaimsWithinEarnings
  <2>2. LiveFor(v) = {} /\ Sales(v) = {}
    BY <1>2, <1>5 DEF LiveFor, Live, Sales, IsSpend, Completed
  <2>3. AmountsIn(payout, LiveFor(v)) = 0 /\ AmountsIn(wtx, Sales(v)) = 0
    BY <2>2, AmountsNone
  <2>4. Opening[v] \in Int /\ Opening[v] >= 0
    BY OpeningAssumption DEF Accounts
  <2>. QED  BY <2>3, <2>4
<1>. QED  BY <1>1, <1>3, <1>4, <1>7, <1>8 DEF PayoutInvariant

\* Every step keeps the invariant.
LEMMA PayoutsPreserved ==
  ASSUME PayoutInvariant, [Next]_vars
  PROVE  PayoutInvariant'
<1>. LedgerTypeOK /\ PayoutTypeOK /\ ProviderAgrees
  BY DEF PayoutInvariant
<1>1. [LedgerNext]_ledgerVars
  BY LedgerImplemented
<1>2. ASSUME NEW b \in Batches, NEW v \in Vendors, ReservePayout(b, v)
      PROVE  PayoutInvariant'
  BY <1>2, ReserveKeeps
<1>3. ASSUME NEW b \in Batches, NEW id \in TxIds,
             HandlePaid(b, id) \/ OldReleaseStops(b, id) \/ ApplySuccess(b, id)
      PROVE  PayoutInvariant'
  BY <1>1, <1>3, PaidKeeps, OldReleaseKeeps, SuccessKeeps
<1>4. ASSUME NEW b \in Batches,
             MarkProcessing(b) \/ SimulateTransfer(b) \/ HandleMispaid(b) \/ HandleUnpaid(b)
      PROVE  PayoutInvariant'
  BY <1>4, MarkKeeps, SimulationKeeps, MispaidKeeps, UnpaidKeeps
<1>5. ASSUME NEW b \in Batches, HandleRefusal(b) \/ HandleUnknown(b) \/ StopRun(b)
      PROVE  PayoutInvariant'
  BY <1>5, RefusalKeeps, UnknownKeeps, StopKeeps
<1>6. ASSUME NEW b \in Batches, NEW o \in Outcomes,
             AcceptTransfer(b, o) \/ SettleTransfer(b, o) \/ StopHandler(b, o) \/ ApplyFailure(b, o)
      PROVE  PayoutInvariant'
  BY <1>6, AcceptKeeps, SettleKeeps, StopHandlerKeeps, FailureKeeps
<1>7. ASSUME NEW b \in Batches, ApplyMismatch(b) \/ ApplyVerifiedReversal(b) \/ FailSuccess(b)
      PROVE  PayoutInvariant'
  BY <1>7, MismatchKeeps, VerifiedReversalKeeps, FailSuccessKeeps
<1>8. CASE WalletsMove
  BY <1>1, <1>8, SaleKeeps, RefundKeeps, SwitchKeeps DEF WalletsMove
<1>9. CASE UNCHANGED vars
  <2>1. UNCHANGED <<ledgerVars, payout>> /\ UNCHANGED <<runner, transfer>> /\ PayoutTypeOK' /\ ProviderAgrees'
    BY <1>9 DEF vars, payoutVars, PayoutTypeOK, ProviderAgrees
  <2>2. \A c \in Batches : (Live(c)' => Live(c)) /\ (ReleasedIsUnpaid(c) => ReleasedIsUnpaid(c)')
    BY <2>1 DEF Live, Exists, ReleasedIsUnpaid
  <2>. QED  BY <2>1, <2>2, TransferChanged
<1>. QED
  BY <1>2, <1>3, <1>4, <1>5, <1>6, <1>7, <1>8, <1>9 DEF Next, WebhookStep

\* The inductive invariant of the payouts.
THEOREM PayoutInvariantHolds == Spec => []PayoutInvariant
<1>1. Init => PayoutInvariant
  BY PayoutsInit
<1>2. PayoutInvariant /\ [Next]_vars => PayoutInvariant'
  BY PayoutsPreserved
<1>. QED  BY <1>1, <1>2, PTL DEF Spec

\* Batches, transfers and the ledger agree, in any order of answers and events,
\* after lost runs, lost events and the previous release.
THEOREM PayoutsAgree == Spec => []PayoutsMatchLedger
<1>1. ASSUME PayoutInvariant
      PROVE  PayoutsMatchLedger
  <2>. LedgerTypeOK /\ InstructionExecutedOnce /\ PayoutTypeOK
    BY <1>1 DEF PayoutInvariant
  <2>1. ASSUME NEW b \in Batches, Exists(b)
        PROVE  /\ ReleasedIsUnpaid(b)
               /\ IF payout[b].status = "COMPLETED" THEN PostedFor(b) = {payout[b].tx}
                  ELSE payout[b].tx = NULL
    <3>1. ReleasedIsUnpaid(b) /\ OutcomePosted(b)
      BY <1>1, <2>1 DEF PayoutInvariant, BatchesSound
    <3>. QED  BY <3>1, PostedUnique DEF OutcomePosted
  <2>2. \A i \in TxIds : Completed(i) /\ wtx[i].type = "PAYOUT" =>
          \E b \in Batches : Exists(b) /\ wtx[i] = Debit(b) /\ transfer[b] \in Confirmed
    BY <1>1 DEF PayoutInvariant, DebitsJustified, Completed
  <2>. QED  BY <2>1, <2>2 DEF PayoutsMatchLedger, Confirmed
<1>2. PayoutInvariant => PayoutsMatchLedger
  BY <1>1
<1>. QED  BY <1>2, PayoutInvariantHolds, PTL

\* P5, O3: the provider never holds orders for more than the vendor earned.
THEOREM OrdersCovered == Spec => []TransfersWithinEarnings
<1>1. ASSUME PayoutInvariant, NEW v \in Vendors
      PROVE  Ordered(v) <= Earned(v)
  <2>. LedgerTypeOK /\ PayoutTypeOK
    BY <1>1 DEF PayoutInvariant
  <2> DEFINE O == {b \in Batches : /\ Exists(b)
                                   /\ payout[b].vendor = v
                                   /\ transfer[b] \in {"PENDING", "PAID", "MISPAID"}}
  <2>1. Ordered(v) = AmountsIn(payout, O)
    BY DEF Ordered, AmountsIn, MapThenSumSet, MapThenFoldSet
  <2>2. Earned(v) = Opening[v] + AmountsIn(wtx, Sales(v))
    BY DEF Earned, Sales, AmountsIn, MapThenSumSet, MapThenFoldSet
  <2>3. O \in SUBSET LiveFor(v)
    BY DEF LiveFor, Live
  <2>4. IsFiniteSet(LiveFor(v)) /\ \A b \in LiveFor(v) : payout[b].amount \in Nat
    BY BatchAmounts DEF LiveFor, Live
  <2>5. AmountsIn(payout, LiveFor(v)) <= Opening[v] + AmountsIn(wtx, Sales(v))
    BY <1>1 DEF PayoutInvariant, ClaimsWithinEarnings
  <2>6. AmountsIn(payout, O) <= AmountsIn(payout, LiveFor(v))
    BY <2>3, <2>4, AmountsMonotone
  <2>7. /\ AmountsIn(payout, O) \in Int /\ AmountsIn(payout, LiveFor(v)) \in Int
        /\ AmountsIn(wtx, Sales(v)) \in Int /\ Opening[v] \in Int
    <3>1. IsFiniteSet(O) /\ \A b \in O : payout[b].amount \in Int
      BY <2>3, <2>4, FS_Subset
    <3>2. \A b \in LiveFor(v) : payout[b].amount \in Int
      BY <2>4
    <3>3. Sales(v) \in SUBSET TxIds /\ \A i \in Sales(v) : wtx[i] # NULL
      BY DEF Sales, IsSpend, Completed
    <3>4. IsFiniteSet(Sales(v)) /\ \A i \in Sales(v) : wtx[i].amount \in Int
      BY <3>3, RowAmounts
    <3>5. Opening[v] \in Int
      BY OpeningAssumption DEF Accounts
    <3>. HIDE DEF O
    <3>. QED  BY <2>4, <3>1, <3>2, <3>4, <3>5, AmountsAdded
  <2> DEFINE ordered == AmountsIn(payout, O)
             live == AmountsIn(payout, LiveFor(v))
             sales == AmountsIn(wtx, Sales(v))
  <2>8. /\ ordered <= live /\ live <= Opening[v] + sales
        /\ ordered \in Int /\ live \in Int /\ sales \in Int /\ Opening[v] \in Int
    BY <2>5, <2>6, <2>7
  <2>. HIDE DEF ordered, live, sales
  <2>9. ordered <= Opening[v] + sales
    BY <2>8
  <2>. QED  BY <2>1, <2>2, <2>9 DEF ordered, sales
<1>2. PayoutInvariant => TransfersWithinEarnings
  BY <1>1 DEF TransfersWithinEarnings
<1>. QED  BY <1>2, PayoutInvariantHolds, PTL

\* Payouts drive the ledger only through its own operations.
THEOREM PayoutsUseLedger == Spec => LedgerSpec
<1>1. Init => LedgerInit
  BY DEF Init
<1>2. PayoutInvariant /\ [Next]_vars => [LedgerNext]_ledgerVars
  BY LedgerImplemented DEF PayoutInvariant
<1>. QED  BY <1>1, <1>2, PayoutInvariantHolds, PTL DEF Spec, LedgerSpec

=============================================================================
