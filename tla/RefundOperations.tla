-------------------------- MODULE RefundOperations --------------------------
(***************************************************************************)
(* Durable refund instructions (src/src/lib/vendors/refundOperations.ts,   *)
(* refunds.ts and the refund_operation migration).  An operator registers  *)
(* the frozen terms of a refund first, then executes or cancels them; a    *)
(* lost answer leaves a pending instruction that the same operator         *)
(* recovers.                                                               *)
(*                                                                         *)
(* Every handler is one serializable transaction that holds the row lock   *)
(* of the instruction (registration: an advisory lock of the operator), so *)
(* each is one step; a transaction that rolls back is a stuttering step.   *)
(* Crashes lie between the steps: nothing else is remembered.              *)
(*                                                                         *)
(* While a deployment rolls out, instances of the previous release still   *)
(* post refunds without an instruction (LegacyRefund).                     *)
(***************************************************************************)
EXTENDS WalletLedger

CONSTANTS
  Operators,  \* staff members and API credentials of the vendors
  OpIds       \* identifiers of refund_operation rows (bounds their number)

OperationStatuses == {"PENDING", "COMPLETED", "REJECTED", "CANCELLED"}

\* The refusals that are recorded; any other error rolls back.
RejectionCodes ==
  {"VENDOR_PAYMENT_SUSPENDED", "VENDOR_NOT_PAYMENT_ENABLED",
   "BRANCH_NOT_PAYMENT_ENABLED", "PAYMENT_FULLY_REFUNDED",
   "REFUND_AMOUNT_EXCEEDED", "PAYMENT_WALLET_DISABLED"}

RefundOperationRecords ==
  [operator : Operators, spend : TxIds, amount : Amounts, key : Keys,
   status : OperationStatuses, refund : TxIds \cup {NULL},
   rejection : RejectionCodes \cup {NULL}]

ASSUME OperationsNullAssumption == NULL \notin RefundOperationRecords

VARIABLES
  op,             \* refund_operation: [OpIds -> record or NULL]
  oldRelease,     \* instances of the previous release are still running
  legacyRefunds   \* refunds those instances posted (for the properties)

operationVars == <<op, oldRelease, legacyRefunds>>
vars == <<ledgerVars, operationVars>>

OperationTypeOK ==
  /\ op \in [OpIds -> RefundOperationRecords \cup {NULL}]
  /\ oldRelease \in BOOLEAN
  /\ legacyRefunds \subseteq TxIds

Init ==
  /\ LedgerInit
  /\ op = [f \in OpIds |-> NULL]
  /\ oldRelease = TRUE
  /\ legacyRefunds = {}

-----------------------------------------------------------------------------

Registered(f) == op[f] # NULL
Pending(f) == Registered(f) /\ op[f].status = "PENDING"

\* The wallet whose keys and operators an instruction belongs to.
Wallet(spend) == wtx[spend].credit

\* Refunds already posted under an instruction's key.
PostedUnder(spend, key) ==
  {i \in TxIds : /\ wtx[i] # NULL
                 /\ wtx[i].type = "REFUND"
                 /\ wtx[i].debit = Wallet(spend)
                 /\ wtx[i].key = key}

SameTerms(i, spend, amount) == wtx[i].linked = spend /\ wtx[i].amount = amount

Posted(f) == PostedUnder(op[f].spend, op[f].key)

\* Execution and cancellation refuse an instruction whose key was used by
\* another refund.
TermsAgree(f) == \A i \in Posted(f) : SameTerms(i, op[f].spend, op[f].amount)

Resolve(f, status, refund, rejection) ==
  op' = [op EXCEPT ![f].status = status, ![f].refund = refund,
                   ![f].rejection = rejection]

-----------------------------------------------------------------------------
(* Handlers. *)

\* registerRefundOperation.  A known key answers its instruction or a conflict
\* and writes nothing.  A refund of the previous release is adopted as the
\* completed result, even while the operator has another pending instruction.
RegisterRefund(f, o, spend, amount, key) ==
  LET legacy == PostedUnder(spend, key)
  IN /\ op[f] = NULL
     /\ IsSpend(spend)
     /\ \A g \in OpIds : Registered(g) =>
          ~ (Wallet(op[g].spend) = Wallet(spend) /\ op[g].key = key)
     /\ \A i \in legacy : SameTerms(i, spend, amount)
     /\ legacy = {} =>
          \A g \in OpIds : Pending(g) =>
            ~ (Wallet(op[g].spend) = Wallet(spend) /\ op[g].operator = o)
     /\ op' = [op EXCEPT ![f] =
                 [operator |-> o, spend |-> spend, amount |-> amount, key |-> key,
                  status |-> IF legacy = {} THEN "PENDING" ELSE "COMPLETED",
                  refund |-> IF legacy = {} THEN NULL ELSE CHOOSE i \in legacy : TRUE,
                  rejection |-> NULL]]
     /\ UNCHANGED <<ledgerVars, oldRelease, legacyRefunds>>

\* Faulty variant: the refund is posted before the status is reread.
ExecuteThenReread(f, id) ==
  /\ Registered(f)
  /\ TermsAgree(f)
  /\ PostOnce(id, RefundPosting(op[f].spend, op[f].amount, op[f].key))
  /\ IF Pending(f) THEN Resolve(f, "COMPLETED", id, NULL) ELSE op' = op
  /\ UNCHANGED <<settingsVars, now, oldRelease, legacyRefunds>>

\* The refund is posted, or found posted under the key, and the instruction
\* completed in the same transaction.
ExecuteRefund(f, id) ==
  /\ Pending(f)
  /\ TermsAgree(f)
  /\ PostOnce(id, RefundPosting(op[f].spend, op[f].amount, op[f].key))
  /\ Resolve(f, "COMPLETED", id, NULL)
  /\ UNCHANGED <<settingsVars, now, oldRelease, legacyRefunds>>

\* An expected refusal is recorded as the outcome.
RejectRefund(f) ==
  LET answer == PostingResult(RefundPosting(op[f].spend, op[f].amount, op[f].key))
  IN /\ Pending(f)
     /\ Posted(f) = {}
     /\ answer \in RejectionCodes
     /\ Resolve(f, "REJECTED", NULL, answer)
     /\ UNCHANGED <<ledgerVars, oldRelease, legacyRefunds>>

\* Faulty variant: a refund posted under the key is not reconciled first.
CancelUnreconciled(f) ==
  /\ Pending(f)
  /\ Resolve(f, "CANCELLED", NULL, NULL)
  /\ UNCHANGED <<ledgerVars, oldRelease, legacyRefunds>>

\* A cancellation that finds the refund posted returns it as completed.
CancelRefund(f) ==
  /\ Pending(f)
  /\ TermsAgree(f)
  /\ IF Posted(f) = {}
     THEN Resolve(f, "CANCELLED", NULL, NULL)
     ELSE \E i \in Posted(f) : Resolve(f, "COMPLETED", i, NULL)
  /\ UNCHANGED <<ledgerVars, oldRelease, legacyRefunds>>

\* The previous release posts a refund directly.
LegacyRefund(id, spend, amount, key) ==
  /\ oldRelease
  /\ PostRefund(id, spend, amount, key)
  /\ legacyRefunds' = legacyRefunds \cup {id}
  /\ UNCHANGED <<op, oldRelease>>

RetireOldRelease ==
  /\ oldRelease
  /\ oldRelease' = FALSE
  /\ UNCHANGED <<ledgerVars, op, legacyRefunds>>

\* The clock stands still, and a closed branch, one more reason to refuse a
\* refund, is left to the ledger's own run.
LedgerEnvironment ==
  /\ \/ \E id \in TxIds, s \in Students, b \in Branches, a \in Amounts, k \in Keys :
          SubmitWalletPayment(id, s, b, a, k)
     \/ SwitchWallet
     \/ \E v \in Vendors, status \in ProfileStatuses : SetProfile(v, status)
  /\ UNCHANGED operationVars

Next ==
  \/ \E f \in OpIds :
       \/ \E o \in Operators, spend \in TxIds, a \in Amounts, k \in Keys :
            RegisterRefund(f, o, spend, a, k)
       \/ \E id \in TxIds : ExecuteRefund(f, id)
       \/ RejectRefund(f)
       \/ CancelRefund(f)
  \/ \E id, spend \in TxIds, a \in Amounts, k \in Keys : LegacyRefund(id, spend, a, k)
  \/ RetireOldRelease
  \/ LedgerEnvironment

Spec == Init /\ [][Next]_vars

-----------------------------------------------------------------------------
(* Properties. *)

\* A completed instruction names one completed refund of exactly its frozen
\* terms, and no two name the same refund.
CompletedMatchesRefund(f) ==
  op[f].status = "COMPLETED" =>
    /\ Completed(op[f].refund)
    /\ wtx[op[f].refund].type = "REFUND"
    /\ SameTerms(op[f].refund, op[f].spend, op[f].amount)
    /\ wtx[op[f].refund].key = op[f].key
    /\ \A g \in OpIds : Registered(g) /\ op[g].refund = op[f].refund => g = f

\* A cancelled or rejected instruction moves no money, also when its execution
\* was still on the way or a duplicate of it arrives later: whatever is posted
\* under its key was posted by the old release.
ResolvedWithoutRefund(f) ==
  op[f].status \in {"CANCELLED", "REJECTED"} => Posted(f) \subseteq legacyRefunds

\* One unresolved instruction per wallet and operator, also when one operator
\* registers from several browsers or adopts an old refund.
OnlyPending(f) ==
  \A g \in OpIds :
    (/\ Pending(f) /\ Pending(g)
     /\ Wallet(op[f].spend) = Wallet(op[g].spend)
     /\ op[f].operator = op[g].operator) => f = g

\* Instructions and the ledger agree, whatever is retried, cancelled or adopted,
\* and a refund without a completed instruction comes from the old release.
OperationsMatchLedger ==
  /\ OperationTypeOK
  /\ \A f \in OpIds : Registered(f) =>
       CompletedMatchesRefund(f) /\ ResolvedWithoutRefund(f) /\ OnlyPending(f)
  /\ \A i \in TxIds : Completed(i) /\ wtx[i].type = "REFUND" =>
       \/ i \in legacyRefunds
       \/ \E f \in OpIds : Registered(f) /\ op[f].refund = i

\* The terms of an instruction are frozen and its outcome is final, and it is
\* only recorded as cancelled or rejected while nothing is posted under its key:
\* a refund of an old instance is reported as completed instead.
OperationStep(f) ==
  Registered(f) =>
    /\ op'[f] # NULL
    /\ op[f].status # "PENDING" => op'[f] = op[f]
    /\ op'[f] = [op[f] EXCEPT !.status = op'[f].status, !.refund = op'[f].refund,
                              !.rejection = op'[f].rejection]
    /\ op[f].status = "PENDING" /\ op'[f].status \in {"CANCELLED", "REJECTED"} =>
         Posted(f) = {}

OperationOutcomeFinal == [][\A f \in OpIds : OperationStep(f)]_vars
=============================================================================
