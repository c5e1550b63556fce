---------------------------- MODULE WalletLedger ----------------------------
(***************************************************************************)
(* The wallet ledger: the only writer of wallet balances                   *)
(* (src/src/lib/payments/posting.ts), together with the database triggers  *)
(* that project ledger entries onto balances (src/prisma/migrations).      *)
(*                                                                         *)
(* Every posting runs in a SERIALIZABLE database transaction, retried on   *)
(* conflict, so one posting is one atomic step.  A posting that fails      *)
(* writes nothing: it is a stuttering step.  PostingResult says which      *)
(* error, because callers branch on it.                                    *)
(*                                                                         *)
(* The modules that model the callers EXTEND this one and use its          *)
(* operators; each of their steps is a step of LedgerNext or leaves the    *)
(* ledger alone.                                                           *)
(***************************************************************************)
EXTENDS SqlNull, Integers, FiniteSets, FiniteSetsExt

CONSTANTS
  Students,     \* student wallet accounts
  Vendors,      \* vendor wallet accounts
  Branches,     \* vendor branches
  VendorOf,     \* the vendor that owns each branch
  TxIds,        \* wallet_transaction rows, numbered in the order of their
                \* creation (bounds their number)
  Keys,         \* idempotency keys
  References,   \* sale references a spend may carry; NULL is a static-QR spend
  Amounts,      \* amounts in minor units
  Opening,      \* balances when the modelled period starts
  MaxTime       \* the clock stops here

SystemAccounts == {"GATEWAY_CLEARING", "PAYOUT_CLEARING"}
Accounts == Students \cup Vendors \cup SystemAccounts

ASSUME AccountsAssumption ==
  /\ Students \cap Vendors = {}
  /\ (Students \cup Vendors) \cap SystemAccounts = {}
  /\ VendorOf \in [Branches -> Vendors]

ASSUME ValuesAssumption ==
  /\ TxIds \subseteq Nat /\ IsFiniteSet(TxIds)
  /\ Amounts \subseteq Nat \ {0}
  /\ MaxTime \in Nat
  /\ NULL \notin Branches \cup Accounts \cup Int

\* No wallet is overdrawn when the period starts.
ASSUME OpeningAssumption ==
  /\ Opening \in [Accounts -> Int]
  /\ \A a \in Students \cup Vendors : Opening[a] >= 0

TopupTypes == {"TOPUP", "VENDOR_TOPUP"}
ProfileStatuses == {"PENDING", "APPROVED", "SUSPENDED"}

\* A wallet_transaction with its two ledger entries: debit and credit are the
\* accounts of the entries, both of the transaction's amount.
WalletTransactions ==
  [type : TopupTypes \cup {"SPEND", "REFUND", "PAYOUT"},
   status : {"PENDING", "COMPLETED", "FAILED"},
   amount : Amounts,
   debit : Accounts, credit : Accounts,
   branch : Branches \cup {NULL},
   linked : TxIds \cup {NULL},
   key : Keys,
   reference : References \cup {NULL}]

ASSUME NullAssumption == NULL \notin WalletTransactions

VARIABLES
  wtx,            \* wallet_transaction: [TxIds -> record or NULL]
  balance,        \* wallet_account_balance.postedBalanceMinor
  negativeSince,  \* wallet_account_balance.negativeSince of the vendors
  profile,        \* vendor_payment_profile.status; a vendor whose application
                  \* is not approved counts as PENDING
  branchOpen,     \* branch active, ACTIVE, and its payment acceptance ACTIVE
  walletEnabled,  \* university_profile.paymentWalletEnabled
  now             \* the database clock

ledgerVars ==
  <<wtx, balance, negativeSince, profile, branchOpen, walletEnabled, now>>

\* Everything a posting reads and none writes.
settingsVars == <<profile, branchOpen, walletEnabled>>

LedgerTypeOK ==
  /\ wtx \in [TxIds -> WalletTransactions \cup {NULL}]
  /\ balance \in [Accounts -> Int]
  /\ negativeSince \in [Vendors -> (0 .. MaxTime) \cup {NULL}]
  /\ profile \in [Vendors -> ProfileStatuses]
  /\ branchOpen \in [Branches -> BOOLEAN]
  /\ walletEnabled \in BOOLEAN
  /\ now \in 0 .. MaxTime

LedgerInit ==
  /\ wtx = [i \in TxIds |-> NULL]
  /\ balance = Opening
  /\ negativeSince = [v \in Vendors |-> NULL]
  /\ profile = [v \in Vendors |-> "APPROVED"]
  /\ branchOpen = [b \in Branches |-> TRUE]
  /\ walletEnabled = TRUE
  /\ now = 0

-----------------------------------------------------------------------------
(* Queries. *)

NextRow(id) == wtx[id] = NULL /\ \A i \in TxIds : i < id => wtx[i] # NULL

Completed(i) == wtx[i] # NULL /\ wtx[i].status = "COMPLETED"

\* initiatorAccountId: the wallet that asked for the movement.
Initiator(t) == IF t.type \in TopupTypes THEN t.credit ELSE t.debit

\* The transaction that already holds the idempotency key of t, if any.  The
\* unique index wallet_transaction_idempotency_key is on the same columns.
Existing(t) ==
  {i \in TxIds : /\ wtx[i] # NULL
                 /\ Initiator(wtx[i]) = Initiator(t)
                 /\ wtx[i].type = t.type
                 /\ wtx[i].key = t.key}

IsSpend(i) == Completed(i) /\ wtx[i].type = "SPEND"

Refunds(spend) ==
  {i \in TxIds : Completed(i) /\ wtx[i].type = "REFUND" /\ wtx[i].linked = spend}

Refunded(spend) == MapThenSumSet(LAMBDA i : wtx[i].amount, Refunds(spend))

\* Faulty variant: earlier partial refunds are not counted.
RemainingIgnoringRefunds(spend) == wtx[spend].amount

Remaining(spend) == wtx[spend].amount - Refunded(spend)

-----------------------------------------------------------------------------
(* The financial instructions preparePosting builds. *)

SpendPosting(student, branch, amount, key, reference) ==
  [type |-> "SPEND", status |-> "COMPLETED", amount |-> amount,
   debit |-> student, credit |-> VendorOf[branch],
   branch |-> branch, linked |-> NULL, key |-> key, reference |-> reference]

\* The entries of the spend, reversed.
RefundPosting(spend, amount, key) ==
  [type |-> "REFUND", status |-> "COMPLETED", amount |-> amount,
   debit |-> wtx[spend].credit, credit |-> wtx[spend].debit,
   branch |-> wtx[spend].branch, linked |-> spend, key |-> key,
   reference |-> NULL]

PayoutPosting(vendor, amount, key) ==
  [type |-> "PAYOUT", status |-> "COMPLETED", amount |-> amount,
   debit |-> vendor, credit |-> "PAYOUT_CLEARING",
   branch |-> NULL, linked |-> NULL, key |-> key, reference |-> NULL]

TopupSkeleton(account, amount, key) ==
  [type |-> IF account \in Students THEN "TOPUP" ELSE "VENDOR_TOPUP",
   status |-> "PENDING", amount |-> amount,
   debit |-> "GATEWAY_CLEARING", credit |-> account,
   branch |-> NULL, linked |-> NULL, key |-> key, reference |-> NULL]

\* The order of the two refusals differs between spends and refunds.
SpendEligibility(t) ==
  IF ~ branchOpen[t.branch] THEN "BRANCH_NOT_PAYMENT_ENABLED"
  ELSE IF profile[t.credit] # "APPROVED" THEN "VENDOR_NOT_PAYMENT_ENABLED"
  ELSE "ELIGIBLE"

RefundEligibility(t) ==
  LET owner == VendorOf[t.branch]
  IN IF profile[owner] = "SUSPENDED" THEN "VENDOR_PAYMENT_SUSPENDED"
     ELSE IF profile[owner] # "APPROVED" THEN "VENDOR_NOT_PAYMENT_ENABLED"
     ELSE IF ~ branchOpen[t.branch] THEN "BRANCH_NOT_PAYMENT_ENABLED"
     ELSE IF Remaining(t.linked) <= 0 THEN "PAYMENT_FULLY_REFUNDED"
     ELSE IF t.amount > Remaining(t.linked) THEN "REFUND_AMOUNT_EXCEEDED"
     ELSE "ELIGIBLE"

Eligibility(t) ==
  CASE t.type = "SPEND" -> SpendEligibility(t)
    [] t.type = "REFUND" -> RefundEligibility(t)
    [] OTHER -> "ELIGIBLE"

\* Only refunds and provider-confirmed payouts may overdraw, and only a vendor.
MayOverdraw(t) == t.debit \in Vendors /\ t.type \in {"REFUND", "PAYOUT"}

SufficientFunds(t) ==
  \/ t.debit \in SystemAccounts
  \/ MayOverdraw(t)
  \/ balance[t.debit] >= t.amount

\* What posting t answers: a replay of the same instruction comes first, so
\* that a completed payment is found again after its vendor was suspended.
PostingResult(t) ==
  IF Existing(t) # {} THEN
    IF \A i \in Existing(t) : wtx[i] = t THEN "REPLAYED" ELSE "IDEMPOTENCY_CONFLICT"
  ELSE IF ~ walletEnabled THEN "PAYMENT_WALLET_DISABLED"
  ELSE IF Eligibility(t) # "ELIGIBLE" THEN Eligibility(t)
  ELSE IF ~ SufficientFunds(t) THEN "INSUFFICIENT_FUNDS"
  ELSE "POSTED"

-----------------------------------------------------------------------------
(* Writing. *)

\* negativeSince of one account after an entry leaves it at newBalance.
NegativeSinceAfter(v, newBalance) ==
  IF newBalance >= 0 THEN NULL
  ELSE IF negativeSince[v] = NULL THEN now ELSE negativeSince[v]

\* The trigger apply_ledger_entry_to_balance, run for both entries of t.
ApplyEntries(t) ==
  /\ SufficientFunds(t)
  /\ balance' = [balance EXCEPT ![t.debit] = @ - t.amount,
                                ![t.credit] = @ + t.amount]
  /\ negativeSince' =
       [v \in Vendors |-> IF v \in {t.debit, t.credit}
                          THEN NegativeSinceAfter(v, balance'[v])
                          ELSE negativeSince[v]]

\* A new transaction is created, its entries attached, and completed.
Post(id, t) ==
  /\ NextRow(id)
  /\ PostingResult(t) = "POSTED"
  /\ wtx' = [wtx EXCEPT ![id] = t]
  /\ ApplyEntries(t)

\* What every caller of a posting gets: the transaction that answers to the
\* instruction, posted now or found again.
PostOnce(id, t) ==
  IF Existing(t) = {}
  THEN Post(id, t)
  ELSE /\ id \in Existing(t)
       /\ PostingResult(t) = "REPLAYED"
       /\ UNCHANGED <<wtx, balance, negativeSince>>

-----------------------------------------------------------------------------
(* Operations. *)

\* A static-QR payment: the destination is resolved, then the spend posted.
SubmitWalletPayment(id, student, branch, amount, key) ==
  /\ Post(id, SpendPosting(student, branch, amount, key, NULL))
  /\ UNCHANGED <<settingsVars, now>>

\* The spend of a sale that carries a reference.
PostSpend(id, student, branch, amount, key, reference) ==
  /\ Post(id, SpendPosting(student, branch, amount, key, reference))
  /\ UNCHANGED <<settingsVars, now>>

PostRefund(id, spend, amount, key) ==
  /\ IsSpend(spend)
  /\ Post(id, RefundPosting(spend, amount, key))
  /\ UNCHANGED <<settingsVars, now>>

PostPayout(id, vendor, amount, key) ==
  /\ Post(id, PayoutPosting(vendor, amount, key))
  /\ UNCHANGED <<settingsVars, now>>

\* A top-up is reserved as a pending transaction before the provider is asked.
StartTopup(id, account, amount, key) ==
  LET t == TopupSkeleton(account, amount, key)
  IN /\ walletEnabled
     /\ NextRow(id)
     /\ Existing(t) = {}
     /\ account \in Vendors =>
          /\ balance[account] < 0
          /\ amount <= - balance[account]
     /\ wtx' = [wtx EXCEPT ![id] = t]
     /\ UNCHANGED <<balance, negativeSince, settingsVars, now>>

\* completePendingCredit: a confirmed top-up is credited whatever the settings.
CompleteTopup(id) ==
  /\ wtx[id] # NULL
  /\ wtx[id].type \in TopupTypes
  /\ wtx[id].status = "PENDING"
  /\ wtx' = [wtx EXCEPT ![id].status = "COMPLETED"]
  /\ ApplyEntries(wtx[id])
  /\ UNCHANGED <<settingsVars, now>>

\* The provider refused the checkout or reported the payment failed.
FailTopup(id) ==
  /\ wtx[id] # NULL
  /\ wtx[id].type \in TopupTypes
  /\ wtx[id].status = "PENDING"
  /\ wtx' = [wtx EXCEPT ![id].status = "FAILED"]
  /\ UNCHANGED <<balance, negativeSince, settingsVars, now>>

\* Administration and onboarding change what a posting reads.
SwitchWallet ==
  /\ walletEnabled' \in BOOLEAN
  /\ UNCHANGED <<wtx, balance, negativeSince, profile, branchOpen, now>>

SwitchBranch(b) ==
  /\ branchOpen' = [branchOpen EXCEPT ![b] = ~ @]
  /\ UNCHANGED <<wtx, balance, negativeSince, profile, walletEnabled, now>>

SetProfile(v, status) ==
  /\ profile' = [profile EXCEPT ![v] = status]
  /\ UNCHANGED <<wtx, balance, negativeSince, branchOpen, walletEnabled, now>>

ChangeSettings ==
  \/ SwitchWallet
  \/ \E b \in Branches : SwitchBranch(b)
  \/ \E v \in Vendors, s \in ProfileStatuses : SetProfile(v, s)

Tick ==
  /\ now < MaxTime
  /\ now' = now + 1
  /\ UNCHANGED <<wtx, balance, negativeSince, settingsVars>>

LedgerNext ==
  \/ \E id \in TxIds, amount \in Amounts, key \in Keys :
       \/ \E s \in Students, b \in Branches :
            \/ SubmitWalletPayment(id, s, b, amount, key)
            \/ \E r \in References : PostSpend(id, s, b, amount, key, r)
       \/ \E spend \in TxIds : PostRefund(id, spend, amount, key)
       \/ \E v \in Vendors : PostPayout(id, v, amount, key)
       \/ \E a \in Students \cup Vendors : StartTopup(id, a, amount, key)
  \/ \E id \in TxIds : CompleteTopup(id) \/ FailTopup(id)
  \/ ChangeSettings
  \/ Tick

LedgerSpec == LedgerInit /\ [][LedgerNext]_ledgerVars

-----------------------------------------------------------------------------
(* Properties. *)

\* Signed sum of the completed entries on account a.
Movement(a) ==
  MapThenSumSet(LAMBDA i : wtx[i].amount, {i \in TxIds : Completed(i) /\ wtx[i].credit = a})
  - MapThenSumSet(LAMBDA i : wtx[i].amount, {i \in TxIds : Completed(i) /\ wtx[i].debit = a})

\* The balance projection is exactly the opening balance plus the completed
\* entries: no confirmation, replay or reconciliation moves an amount twice,
\* and a pending or failed top-up moves nothing.
BalancesMatchLedger == \A a \in Accounts : balance[a] = Opening[a] + Movement(a)

\* R1: the completed refunds of a spend never exceed it, however the partial
\* refunds of several operators interleave, and each one reverses the entries
\* of a completed spend of the same branch.
RefundsWithinSpend ==
  \A i \in TxIds : Completed(i) /\ wtx[i].type = "REFUND" =>
    LET spend == wtx[i].linked
    IN /\ IsSpend(spend)
       /\ wtx[i].debit = wtx[spend].credit
       /\ wtx[i].credit = wtx[spend].debit
       /\ wtx[i].branch = wtx[spend].branch
       /\ Refunded(spend) <= wtx[spend].amount

\* O2, O4: a student is never overdrawn, and the overdraft clock of a vendor
\* runs exactly while its balance is negative and never from the future.
OverdraftTracked ==
  /\ \A s \in Students : balance[s] >= 0
  /\ \A v \in Vendors :
       /\ balance[v] < 0 <=> negativeSince[v] # NULL
       /\ negativeSince[v] # NULL => negativeSince[v] <= now

\* Two transactions never answer to the same initiator, type and idempotency
\* key: a retried instruction is executed at most once.
InstructionExecutedOnce ==
  \A i, j \in TxIds :
    (/\ wtx[i] # NULL /\ wtx[j] # NULL
     /\ Initiator(wtx[i]) = Initiator(wtx[j])
     /\ wtx[i].type = wtx[j].type
     /\ wtx[i].key = wtx[j].key) => i = j

\* O1 and the overdraft clock: a vendor falls below zero only in a step that
\* completes a refund or a payout, and while it stays below zero no later
\* sale, refund or partial top-up restarts the clock that leads to suspension.
OverdraftStep(v) ==
  balance'[v] < 0 =>
    IF balance[v] >= 0
    THEN \E i \in TxIds : /\ wtx[i] = NULL
                          /\ wtx'[i] # NULL
                          /\ wtx'[i].type \in {"REFUND", "PAYOUT"}
                          /\ wtx'[i].debit = v
    ELSE negativeSince'[v] = negativeSince[v]

OverdraftOnlyByRefundOrPayout == [][\A v \in Vendors : OverdraftStep(v)]_ledgerVars

\* A completed or failed transaction is immutable, and a pending one only
\* changes its status.
SettledStep(i) ==
  wtx[i] # NULL =>
    /\ wtx'[i] # NULL
    /\ wtx[i].status # "PENDING" => wtx'[i] = wtx[i]
    /\ wtx'[i] = [wtx[i] EXCEPT !.status = wtx'[i].status]

SettledTransactionsAreFinal == [][\A i \in TxIds : SettledStep(i)]_ledgerVars
=============================================================================
