--------------------------- MODULE PaymentRequests ---------------------------
(***************************************************************************)
(* Point-of-sale payment requests (src/src/lib/payments/paymentRequests.ts *)
(* and the payment_request trigger).  A till creates a fixed-amount sale,  *)
(* a student pays it from the wallet, or it is cancelled or expires.       *)
(*                                                                         *)
(* Creation reads and inserts in separate transactions, so other calls     *)
(* come between.  Payment is one serializable transaction that holds the   *)
(* row lock of the sale from its first read to its commit: it is a         *)
(* BeginPay step, which takes the lock, and a commit or a rollback.        *)
(* Reads outside it see the sale as last committed.                        *)
(*                                                                         *)
(* API keys are checked before the handlers, on an earlier snapshot; every *)
(* call modelled here comes from a till with access to the branch.         *)
(***************************************************************************)
EXTENDS WalletLedger

CONSTANTS
  Sales,      \* identifiers of payment_request rows (bounds their number)
  Tills,      \* tills with a creation call in flight
  Lifetime    \* clock units until a sale expires (ten minutes)

ASSUME SalesAssumption ==
  /\ Lifetime \in Nat \ {0}
  /\ NULL \notin References

SaleTerms ==
  [branch : Branches, reference : References, key : Keys, amount : Amounts]

SaleStatuses == {"PENDING", "PAID", "CANCELLED", "EXPIRED"}

Times == 0 .. MaxTime

SaleRecords ==
  [terms : SaleTerms, status : SaleStatuses, expiresAt : Nat,
   payer : Students \cup {NULL}, tx : TxIds \cup {NULL},
   completedAt : Times \cup {NULL}]

PaymentAttempts == [student : Students, key : Keys, since : Times]

ASSUME SalesNullAssumption == NULL \notin SaleRecords \cup SaleTerms \cup PaymentAttempts

VARIABLES
  sale,      \* payment_request: [Sales -> record or NULL]
  creating,  \* the terms a till is about to insert
  paying     \* the open payment transaction that holds the lock of a sale

saleVars == <<sale, creating, paying>>
vars == <<ledgerVars, saleVars>>

SaleTypeOK ==
  /\ sale \in [Sales -> SaleRecords \cup {NULL}]
  /\ creating \in [Tills -> SaleTerms \cup {NULL}]
  /\ paying \in [Sales -> PaymentAttempts \cup {NULL}]

Init ==
  /\ LedgerInit
  /\ sale = [r \in Sales |-> NULL]
  /\ creating = [p \in Tills |-> NULL]
  /\ paying = [r \in Sales |-> NULL]

-----------------------------------------------------------------------------

Created(r) == sale[r] # NULL

Vendor(terms) == VendorOf[terms.branch]

\* Sales that hold the vendor's idempotency key, or its order reference.
HoldingKey(terms) ==
  {r \in Sales : /\ Created(r)
                 /\ Vendor(sale[r].terms) = Vendor(terms)
                 /\ sale[r].terms.key = terms.key}

HoldingReference(terms) ==
  {r \in Sales : /\ Created(r)
                 /\ Vendor(sale[r].terms) = Vendor(terms)
                 /\ sale[r].terms.reference = terms.reference}

\* What the two unique indexes of payment_request refuse.
Taken(terms) == HoldingKey(terms) \cup HoldingReference(terms)

Lapsed(r) == sale[r].expiresAt <= now

\* What a read answers.  It ran expireRequests before it read the row and
\* compares the clock afterwards, and a repeated creation answers without
\* expireRequests, so any committed state may be answered.
EffectiveStatus(r) ==
  IF sale[r].status = "PENDING" /\ Lapsed(r) THEN "EXPIRED" ELSE sale[r].status

-----------------------------------------------------------------------------
(* Creation. *)

\* createPaymentRequest finds neither the key nor a closed destination.
BeginCreate(p, terms) ==
  /\ creating[p] = NULL
  /\ HoldingKey(terms) = {}
  /\ branchOpen[terms.branch]
  /\ profile[Vendor(terms)] = "APPROVED"
  /\ creating' = [creating EXCEPT ![p] = terms]
  /\ UNCHANGED <<ledgerVars, sale, paying>>

\* The insert.  After a uniqueness race nothing is written: the till is
\* answered with the sale that holds its key, or with a conflict.
FinishCreate(p, r) ==
  /\ creating[p] # NULL
  /\ sale[r] = NULL
  /\ creating' = [creating EXCEPT ![p] = NULL]
  /\ sale' = IF Taken(creating[p]) = {}
             THEN [sale EXCEPT ![r] =
                     [terms |-> creating[p], status |-> "PENDING",
                      expiresAt |-> now + Lifetime,
                      payer |-> NULL, tx |-> NULL, completedAt |-> NULL]]
             ELSE sale
  /\ UNCHANGED <<ledgerVars, paying>>

\* The call is lost: timeout, crash, or a failed insert.
LoseCreate(p) ==
  /\ creating[p] # NULL
  /\ creating' = [creating EXCEPT ![p] = NULL]
  /\ UNCHANGED <<ledgerVars, sale, paying>>

-----------------------------------------------------------------------------
(* Payment. *)

\* The transaction locks the sale and finds it pending and not lapsed.  Any
\* other status is answered without a write, except that a lapsed sale is
\* marked expired: that is ExpireSale.
BeginPay(r, student, key) ==
  /\ Created(r)
  /\ paying[r] = NULL
  /\ EffectiveStatus(r) = "PENDING"
  /\ paying' = [paying EXCEPT ![r] = [student |-> student, key |-> key, since |-> now]]
  /\ UNCHANGED <<ledgerVars, sale, creating>>

\* The spend of the payment attempt that holds the lock of r.
SaleSpend(r) ==
  LET terms == sale[r].terms
  IN SpendPosting(paying[r].student, terms.branch, terms.amount, paying[r].key,
                  terms.reference)

MarkPaid(r, id, doneAt) ==
  sale' = [sale EXCEPT ![r].status = "PAID", ![r].payer = paying[r].student,
                       ![r].tx = id, ![r].completedAt = doneAt]

ReleaseLock(r) == paying' = [paying EXCEPT ![r] = NULL]

\* Faulty variant: the expiry is only checked when the transaction starts.
FinishPayUnchecked(r, id, doneAt) ==
  /\ paying[r] # NULL
  /\ doneAt \in paying[r].since .. now
  /\ PostOnce(id, SaleSpend(r))
  /\ MarkPaid(r, id, doneAt)
  /\ ReleaseLock(r)
  /\ UNCHANGED <<settingsVars, now, creating>>

\* Spend and PAID commit together.  The completion time is read somewhere
\* between the start of the transaction and its commit.
FinishPay(r, id, doneAt) ==
  /\ paying[r] # NULL
  /\ doneAt \in paying[r].since .. now
  /\ doneAt < sale[r].expiresAt
  /\ PostOnce(id, SaleSpend(r))
  /\ MarkPaid(r, id, doneAt)
  /\ ReleaseLock(r)
  /\ UNCHANGED <<settingsVars, now, creating>>

\* The posting is refused, the sale lapsed before completion, the transaction
\* lost a serialization conflict, or the server stopped: all of it rolls back.
RollbackPay(r) ==
  /\ paying[r] # NULL
  /\ ReleaseLock(r)
  /\ UNCHANGED <<ledgerVars, sale, creating>>

-----------------------------------------------------------------------------
(* Cancellation and expiry. *)

\* cancelPaymentRequest waits for the lock, then rereads the sale.
CancelSale(r) ==
  /\ Created(r)
  /\ paying[r] = NULL
  /\ sale[r].status = "PENDING"
  /\ sale' = [sale EXCEPT ![r].status = IF Lapsed(r) THEN "EXPIRED" ELSE "CANCELLED"]
  /\ UNCHANGED <<ledgerVars, creating, paying>>

\* expireRequests of a read or a list, row by row; its update waits for the
\* lock of a payment and then finds the sale PAID.
ExpireSale(r) ==
  /\ Created(r)
  /\ paying[r] = NULL
  /\ sale[r].status = "PENDING"
  /\ Lapsed(r)
  /\ sale' = [sale EXCEPT ![r].status = "EXPIRED"]
  /\ UNCHANGED <<ledgerVars, creating, paying>>

-----------------------------------------------------------------------------
(* The rest of the system: static-QR payments, settings and the clock. *)

LedgerEnvironment ==
  /\ \/ \E id \in TxIds, s \in Students, b \in Branches, a \in Amounts, k \in Keys :
          SubmitWalletPayment(id, s, b, a, k)
     \/ ChangeSettings
     \/ Tick
  /\ UNCHANGED saleVars

Next ==
  \/ \E p \in Tills, terms \in SaleTerms : BeginCreate(p, terms)
  \/ \E p \in Tills, r \in Sales : FinishCreate(p, r)
  \/ \E p \in Tills : LoseCreate(p)
  \/ \E r \in Sales :
       \/ \E s \in Students, k \in Keys : BeginPay(r, s, k)
       \/ \E id \in TxIds, doneAt \in Times : FinishPay(r, id, doneAt)
       \/ RollbackPay(r)
       \/ CancelSale(r)
       \/ ExpireSale(r)
  \/ LedgerEnvironment

Spec == Init /\ [][Next]_vars

-----------------------------------------------------------------------------
(* Properties. *)

\* A student is charged for a sale exactly when the sale is PAID, once, on its
\* exact terms and before it expires, however payments by several students,
\* retries, cancellation and expiry interleave.
SaleChargedIffPaid ==
  /\ \A r \in Sales : Created(r) /\ sale[r].status = "PAID" =>
       /\ IsSpend(sale[r].tx)
       /\ wtx[sale[r].tx].amount = sale[r].terms.amount
       /\ wtx[sale[r].tx].branch = sale[r].terms.branch
       /\ wtx[sale[r].tx].reference = sale[r].terms.reference
       /\ wtx[sale[r].tx].debit = sale[r].payer
       /\ sale[r].completedAt < sale[r].expiresAt
  /\ \A i \in TxIds : IsSpend(i) /\ wtx[i].reference # NULL =>
       \E r \in Sales : /\ Created(r)
                        /\ sale[r].status = "PAID"
                        /\ \A q \in Sales : Created(q) /\ sale[q].tx = i <=> q = r

\* A vendor never has two sales under one idempotency key or order reference,
\* although creation checks the key in a transaction before the insert.
OneSalePerInstruction ==
  \A r, q \in Sales :
    (/\ Created(r) /\ Created(q)
     /\ Vendor(sale[r].terms) = Vendor(sale[q].terms)
     /\ \/ sale[r].terms.key = sale[q].terms.key
        \/ sale[r].terms.reference = sale[q].terms.reference) => r = q

\* The terms of a sale never change and an outcome is final: in particular a
\* paid sale is never cancelled, and a cancelled or expired one never charged.
SaleStep(r) ==
  Created(r) =>
    /\ sale'[r] # NULL
    /\ sale'[r].terms = sale[r].terms
    /\ sale'[r].expiresAt = sale[r].expiresAt
    /\ sale[r].status # "PENDING" => sale'[r] = sale[r]

SaleOutcomeFinal == [][\A r \in Sales : SaleStep(r)]_vars
=============================================================================
