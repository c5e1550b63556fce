------------------------ MODULE PaymentRequestsProofs ------------------------
(***************************************************************************)
(* Theorems about PaymentRequests and about the outbox that reports their  *)
(* outcomes, PaymentWebhooks, for every number of tills, students, sales,  *)
(* keys, events and dispatchers.  Sales only use the ledger through its    *)
(* operations (SalesUseLedger), so every theorem of WalletLedgerProofs     *)
(* also holds while sales are created, paid, cancelled and expired.        *)
(***************************************************************************)
EXTENDS PaymentRequests, PaymentWebhooks, WalletLedgerProofs

\* An open payment transaction holds the lock of a sale that is still pending.
LocksHeld ==
  \A r \in Sales : paying[r] # NULL => Created(r) /\ sale[r].status = "PENDING"

\* Exactly the paid sales name a transaction.
OutcomesRecorded ==
  \A r \in Sales : Created(r) =>
    IF sale[r].status = "PAID" THEN sale[r].tx \in TxIds ELSE sale[r].tx = NULL

\* The two directions of SaleChargedIffPaid, for one sale and one transaction.
PaidIsCharged(r) ==
  Created(r) /\ sale[r].status = "PAID" =>
    /\ IsSpend(sale[r].tx)
    /\ wtx[sale[r].tx].amount = sale[r].terms.amount
    /\ wtx[sale[r].tx].branch = sale[r].terms.branch
    /\ wtx[sale[r].tx].reference = sale[r].terms.reference
    /\ wtx[sale[r].tx].debit = sale[r].payer
    /\ sale[r].completedAt < sale[r].expiresAt

SaleOf(i, r) ==
  /\ Created(r)
  /\ sale[r].status = "PAID"
  /\ \A q \in Sales : Created(q) /\ sale[q].tx = i <=> q = r

ChargedIsPaid(i) ==
  IsSpend(i) /\ wtx[i].reference # NULL => \E r \in Sales : SaleOf(i, r)

\* SaleChargedIffPaid is not inductive: it needs the locks, the recorded
\* transactions, and that no second sale carries the same reference.
SaleInvariant ==
  /\ LedgerTypeOK
  /\ SaleTypeOK
  /\ LocksHeld
  /\ OutcomesRecorded
  /\ OneSalePerInstruction
  /\ SaleChargedIffPaid

-----------------------------------------------------------------------------
(* Steps of the sales are steps of the ledger. *)

\* A sale carries an order reference, so its spend is a PostSpend; a replayed
\* spend leaves the ledger alone.
LEMMA PaymentIsLedgerStep ==
  ASSUME SaleTypeOK, LocksHeld,
         NEW r \in Sales, NEW id \in TxIds, NEW doneAt \in Times,
         FinishPay(r, id, doneAt)
  PROVE  [LedgerNext]_ledgerVars
<1>1. sale[r] \in SaleRecords /\ paying[r] \in PaymentAttempts
  BY DEF FinishPay, LocksHeld, SaleTypeOK, Created
<1>2. /\ sale[r].terms.branch \in Branches
      /\ sale[r].terms.reference \in References
      /\ sale[r].terms.amount \in Amounts
      /\ paying[r].student \in Students
      /\ paying[r].key \in Keys
  BY <1>1 DEF SaleRecords, SaleTerms, PaymentAttempts
<1>3. CASE Existing(SaleSpend(r)) = {}
  <2>1. PostSpend(id, paying[r].student, sale[r].terms.branch, sale[r].terms.amount,
                  paying[r].key, sale[r].terms.reference)
    BY <1>3 DEF FinishPay, PostOnce, PostSpend, SaleSpend
  <2>. QED  BY <1>2, <2>1 DEF LedgerNext
<1>4. CASE Existing(SaleSpend(r)) # {}
  BY <1>4 DEF FinishPay, PostOnce, ledgerVars, settingsVars
<1>. QED  BY <1>3, <1>4

\* Every step of the sales system is a step of the ledger or leaves it alone.
LEMMA SaleStepsUseLedger ==
  ASSUME SaleTypeOK, LocksHeld, [Next]_vars
  PROVE  [LedgerNext]_ledgerVars
<1>1. ASSUME NEW r \in Sales, NEW id \in TxIds, NEW doneAt \in Times,
             FinishPay(r, id, doneAt)
      PROVE  [LedgerNext]_ledgerVars
  BY <1>1, PaymentIsLedgerStep
<1>2. CASE LedgerEnvironment
  BY <1>2 DEF LedgerEnvironment, LedgerNext
<1>3. CASE UNCHANGED vars
  BY <1>3 DEF vars
<1>. QED
  BY <1>1, <1>2, <1>3 DEF Next, BeginCreate, FinishCreate, LoseCreate, BeginPay,
       RollbackPay, CancelSale, ExpireSale

-----------------------------------------------------------------------------
(* What a step does to the rows of payment_request. *)

\* Every step other than a payment or a creation: a sale stays as it is, or a
\* pending one that no payment holds leaves PENDING without being charged.
QuietRow(r) ==
  \/ sale'[r] = sale[r]
  \/ /\ Created(r)
     /\ paying[r] = NULL
     /\ sale[r].status = "PENDING"
     /\ \E s \in {"CANCELLED", "EXPIRED"} : sale'[r] = [sale[r] EXCEPT !.status = s]

QuietStep ==
  /\ sale' \in [Sales -> SaleRecords \cup {NULL}]
  /\ \A r \in Sales : QuietRow(r)

CreationStep(r, terms) ==
  /\ terms \in SaleTerms
  /\ Taken(terms) = {}
  /\ sale[r] = NULL
  /\ paying' = paying
  /\ UNCHANGED ledgerVars
  /\ \E due \in Nat :
       sale' = [sale EXCEPT ![r] = [terms |-> terms, status |-> "PENDING", expiresAt |-> due,
                                    payer |-> NULL, tx |-> NULL, completedAt |-> NULL]]

\* Cancelling and expiring are quiet.
LEMMA EndingIsQuiet ==
  ASSUME SaleTypeOK, NEW r \in Sales, CancelSale(r) \/ ExpireSale(r)
  PROVE  QuietStep
<1>1. PICK s \in {"CANCELLED", "EXPIRED"} : sale' = [sale EXCEPT ![r].status = s]
  <2>1. CASE CancelSale(r)
    <3>1. CASE Lapsed(r)
      BY <2>1, <3>1 DEF CancelSale
    <3>2. CASE ~ Lapsed(r)
      BY <2>1, <3>2 DEF CancelSale
    <3>. QED  BY <3>1, <3>2
  <2>2. CASE ExpireSale(r)
    BY <2>2 DEF ExpireSale
  <2>. QED  BY <2>1, <2>2
<1>2. Created(r) /\ paying[r] = NULL /\ sale[r].status = "PENDING"
  BY DEF CancelSale, ExpireSale
<1>3. sale[r] \in SaleRecords
  BY <1>2 DEF Created, SaleTypeOK
<1>4. [sale[r] EXCEPT !.status = s] \in SaleRecords
  BY <1>3 DEF SaleRecords, SaleStatuses
<1>. QED
  BY <1>1, <1>2, <1>4 DEF SaleTypeOK, QuietStep, QuietRow

\* A step is a payment, a creation, or quiet.
LEMMA SaleSteps ==
  ASSUME LedgerTypeOK, SaleTypeOK, [Next]_vars
  PROVE  \/ \E r \in Sales, id \in TxIds, doneAt \in Times : FinishPay(r, id, doneAt)
         \/ \E r \in Sales, terms \in SaleTerms : CreationStep(r, terms)
         \/ QuietStep
<1>1. ASSUME sale' = sale
      PROVE  QuietStep
  BY <1>1 DEF QuietStep, QuietRow, SaleTypeOK
<1>2. ASSUME NEW p \in Tills, NEW r \in Sales, FinishCreate(p, r)
      PROVE  QuietStep \/ \E terms \in SaleTerms : CreationStep(r, terms)
  <2>1. CASE Taken(creating[p]) = {}
    <3>1. creating[p] \in SaleTerms
      BY <1>2 DEF FinishCreate, SaleTypeOK
    <3>2. now + Lifetime \in Nat
      BY SalesAssumption, ValuesAssumption DEF LedgerTypeOK
    <3>3. CreationStep(r, creating[p])
      BY <1>2, <2>1, <3>1, <3>2 DEF FinishCreate, CreationStep
    <3>. QED  BY <3>1, <3>3
  <2>2. CASE Taken(creating[p]) # {}
    BY <1>1, <1>2, <2>2 DEF FinishCreate
  <2>. QED  BY <2>1, <2>2
<1>3. ASSUME NEW r \in Sales, CancelSale(r) \/ ExpireSale(r)
      PROVE  QuietStep
  BY <1>3, EndingIsQuiet
<1>4. CASE LedgerEnvironment
  BY <1>1, <1>4 DEF LedgerEnvironment, saleVars
<1>5. CASE UNCHANGED vars
  BY <1>1, <1>5 DEF vars, saleVars
<1>. QED
  BY <1>1, <1>2, <1>3, <1>4, <1>5 DEF Next, BeginCreate, LoseCreate, BeginPay, RollbackPay

-----------------------------------------------------------------------------
(* Typing and locks. *)

\* The sale a payment completes, field by field.
LEMMA PaidRow ==
  ASSUME SaleTypeOK, LocksHeld,
         NEW r \in Sales, NEW id \in TxIds, NEW doneAt \in Times,
         FinishPay(r, id, doneAt)
  PROVE  /\ sale[r] \in SaleRecords
         /\ Created(r) /\ sale[r].status = "PENDING"
         /\ paying[r] \in PaymentAttempts
         /\ \A q \in Sales : q # r => sale'[q] = sale[q]
         /\ sale'[r] \in SaleRecords
         /\ sale'[r].terms = sale[r].terms
         /\ sale'[r].expiresAt = sale[r].expiresAt
         /\ sale'[r].status = "PAID"
         /\ sale'[r].payer = paying[r].student
         /\ sale'[r].tx = id
         /\ sale'[r].completedAt = doneAt
<1>1. Created(r) /\ sale[r].status = "PENDING" /\ paying[r] # NULL
  BY DEF FinishPay, LocksHeld
<1>2. sale[r] \in SaleRecords /\ paying[r] \in PaymentAttempts
  BY <1>1 DEF SaleTypeOK, Created
<1>3. paying[r].student \in Students
  BY <1>2 DEF PaymentAttempts
<1>4. sale' = [sale EXCEPT ![r] = [sale[r] EXCEPT !.status = "PAID", !.payer = paying[r].student,
                                                  !.tx = id, !.completedAt = doneAt]]
  BY <1>2 DEF FinishPay, MarkPaid, SaleTypeOK, SaleRecords
<1>5. sale'[r] = [sale[r] EXCEPT !.status = "PAID", !.payer = paying[r].student,
                                 !.tx = id, !.completedAt = doneAt]
  BY <1>4 DEF SaleTypeOK
<1>6. \A q \in Sales : q # r => sale'[q] = sale[q]
  BY <1>4 DEF SaleTypeOK
<1>7. sale'[r] \in SaleRecords
  BY <1>2, <1>3, <1>5 DEF SaleRecords, SaleStatuses
<1>. QED  BY <1>1, <1>2, <1>5, <1>6, <1>7 DEF SaleRecords

\* Every step keeps the sales well-typed.
LEMMA SaleTypingStep ==
  ASSUME LedgerTypeOK, SaleTypeOK, LocksHeld, [Next]_vars
  PROVE  SaleTypeOK'
<1>1. sale' \in [Sales -> SaleRecords \cup {NULL}]
  <2>1. ASSUME NEW r \in Sales, NEW id \in TxIds, NEW doneAt \in Times,
               FinishPay(r, id, doneAt)
        PROVE  sale' \in [Sales -> SaleRecords \cup {NULL}]
    <3>1. sale'[r] \in SaleRecords /\ \A q \in Sales : q # r => sale'[q] = sale[q]
      BY <2>1, PaidRow
    <3>2. sale' = [q \in Sales |-> sale'[q]]
      BY <2>1 DEF FinishPay, MarkPaid, SaleTypeOK
    <3>. QED  BY <3>1, <3>2 DEF SaleTypeOK
  <2>2. ASSUME NEW r \in Sales, NEW terms \in SaleTerms, CreationStep(r, terms)
        PROVE  sale' \in [Sales -> SaleRecords \cup {NULL}]
    BY <2>2 DEF CreationStep, SaleTypeOK, SaleRecords, SaleStatuses
  <2>. QED  BY <2>1, <2>2, SaleSteps DEF QuietStep
<1>2. creating' \in [Tills -> SaleTerms \cup {NULL}]
  <2>1. CASE LedgerEnvironment
    BY <2>1 DEF LedgerEnvironment, saleVars, SaleTypeOK
  <2>2. CASE UNCHANGED vars
    BY <2>2 DEF vars, saleVars, SaleTypeOK
  <2>. QED
    BY <2>1, <2>2 DEF Next, BeginCreate, FinishCreate, LoseCreate, BeginPay, FinishPay,
         RollbackPay, CancelSale, ExpireSale, SaleTypeOK
<1>3. paying' \in [Sales -> PaymentAttempts \cup {NULL}]
  <2>1. ASSUME NEW r \in Sales, NEW s \in Students, NEW k \in Keys, BeginPay(r, s, k)
        PROVE  paying' \in [Sales -> PaymentAttempts \cup {NULL}]
    <3>1. [student |-> s, key |-> k, since |-> now] \in PaymentAttempts
      BY DEF PaymentAttempts, Times, LedgerTypeOK
    <3>. QED  BY <2>1, <3>1 DEF BeginPay, SaleTypeOK
  <2>2. CASE LedgerEnvironment
    BY <2>2 DEF LedgerEnvironment, saleVars, SaleTypeOK
  <2>3. CASE UNCHANGED vars
    BY <2>3 DEF vars, saleVars, SaleTypeOK
  <2>. QED
    BY <2>1, <2>2, <2>3 DEF Next, BeginCreate, FinishCreate, LoseCreate, FinishPay,
         RollbackPay, CancelSale, ExpireSale, ReleaseLock, SaleTypeOK
<1>. QED  BY <1>1, <1>2, <1>3 DEF SaleTypeOK

\* A lock is only taken on a pending sale, and only its holder changes it.
LEMMA LocksStep ==
  ASSUME LedgerTypeOK, SaleTypeOK, LocksHeld, [Next]_vars
  PROVE  LocksHeld'
<1>1. ASSUME NEW r \in Sales, NEW id \in TxIds, NEW doneAt \in Times,
             FinishPay(r, id, doneAt)
      PROVE  LocksHeld'
  <2>1. paying' = [paying EXCEPT ![r] = NULL]
    BY <1>1 DEF FinishPay, ReleaseLock
  <2>. QED  BY <1>1, <2>1, PaidRow DEF LocksHeld, Created, SaleTypeOK
<1>2. ASSUME NEW r \in Sales, NEW terms \in SaleTerms, CreationStep(r, terms)
      PROVE  LocksHeld'
  BY <1>2 DEF CreationStep, LocksHeld, Created, SaleTypeOK
<1>3. ASSUME QuietStep, paying' = paying
      PROVE  LocksHeld'
  BY <1>3 DEF QuietStep, QuietRow, LocksHeld, Created, SaleTypeOK
<1>4. ASSUME NEW r \in Sales, RollbackPay(r)
      PROVE  LocksHeld'
  BY <1>4 DEF RollbackPay, ReleaseLock, LocksHeld, Created, SaleTypeOK
<1>5. ASSUME NEW r \in Sales, NEW s \in Students, NEW k \in Keys, BeginPay(r, s, k)
      PROVE  LocksHeld'
  <2>1. Created(r) /\ sale[r].status = "PENDING"
    BY <1>5 DEF BeginPay, EffectiveStatus
  <2>. QED  BY <1>5, <2>1 DEF BeginPay, LocksHeld, Created, SaleTypeOK
<1>6. CASE LedgerEnvironment \/ UNCHANGED vars
  BY <1>6 DEF LedgerEnvironment, vars, saleVars, LocksHeld, Created
<1>. QED
  BY <1>1, <1>2, <1>3, <1>4, <1>5, <1>6, SaleSteps, EndingIsQuiet
     DEF Next, BeginCreate, FinishCreate, LoseCreate, CancelSale, ExpireSale

-----------------------------------------------------------------------------
(* One sale per instruction. *)

\* Only a creation adds a sale, and it found neither its key nor its reference.
LEMMA OneSaleStep ==
  ASSUME LedgerTypeOK, SaleTypeOK, LocksHeld, OneSalePerInstruction, [Next]_vars
  PROVE  OneSalePerInstruction'
<1>1. ASSUME \A q \in Sales : Created(q)' => Created(q) /\ sale'[q].terms = sale[q].terms
      PROVE  OneSalePerInstruction'
  BY <1>1 DEF OneSalePerInstruction, Vendor, Created
<1>2. ASSUME NEW r \in Sales, NEW id \in TxIds, NEW doneAt \in Times,
             FinishPay(r, id, doneAt)
      PROVE  OneSalePerInstruction'
  BY <1>1, <1>2, PaidRow DEF Created
<1>3. ASSUME QuietStep
      PROVE  OneSalePerInstruction'
  <2>1. ASSUME NEW q \in Sales, Created(q)'
        PROVE  Created(q) /\ sale'[q].terms = sale[q].terms
    <3>1. CASE sale'[q] = sale[q]
      BY <2>1, <3>1 DEF Created
    <3>2. CASE sale'[q] # sale[q]
      <4>1. Created(q) /\ sale[q] \in SaleRecords
        BY <1>3, <3>2 DEF QuietStep, QuietRow, SaleTypeOK, Created
      <4>2. PICK s \in {"CANCELLED", "EXPIRED"} : sale'[q] = [sale[q] EXCEPT !.status = s]
        BY <1>3, <3>2 DEF QuietStep, QuietRow
      <4>. QED  BY <4>1, <4>2 DEF SaleRecords
    <3>. QED  BY <3>1, <3>2
  <2>. QED  BY <1>1, <2>1
<1>4. ASSUME NEW r \in Sales, NEW terms \in SaleTerms, CreationStep(r, terms)
      PROVE  OneSalePerInstruction'
  <2>1. /\ \A q \in Sales : q # r => sale'[q] = sale[q]
        /\ sale'[r].terms = terms
    BY <1>4 DEF CreationStep, SaleTypeOK
  <2>2. \A q \in Sales : Created(q) /\ Vendor(sale[q].terms) = Vendor(terms) =>
          sale[q].terms.key # terms.key /\ sale[q].terms.reference # terms.reference
    BY <1>4 DEF CreationStep, Taken, HoldingKey, HoldingReference
  <2>. QED  BY <2>1, <2>2 DEF OneSalePerInstruction, Vendor, Created
<1>. QED  BY <1>2, <1>3, <1>4, SaleSteps

-----------------------------------------------------------------------------
(* Charged exactly when paid. *)

\* The property, sale by sale and transaction by transaction.
LEMMA ChargedParts ==
  SaleChargedIffPaid <=>
    (\A r \in Sales : PaidIsCharged(r)) /\ (\A i \in TxIds : ChargedIsPaid(i))
BY DEF SaleChargedIffPaid, PaidIsCharged, ChargedIsPaid, SaleOf

\* A payment never finds its spend already posted: that spend would belong to a
\* paid sale with the same reference, which is the pending one itself.
LEMMA PaymentIsFirst ==
  ASSUME SaleInvariant,
         NEW r \in Sales, NEW id \in TxIds, NEW doneAt \in Times,
         FinishPay(r, id, doneAt)
  PROVE  Post(id, SaleSpend(r))
<1>1. SUFFICES ASSUME Existing(SaleSpend(r)) # {}
               PROVE  FALSE
  BY DEF FinishPay, PostOnce
<1>2. wtx[id] = SaleSpend(r)
  BY <1>1 DEF FinishPay, PostOnce, PostingResult
<1>3. sale[r] \in SaleRecords /\ Created(r) /\ sale[r].status = "PENDING"
  BY PaidRow DEF SaleInvariant
<1>4. sale[r].terms.reference \in References
  BY <1>3 DEF SaleRecords, SaleTerms
<1>5. /\ wtx[id].type = "SPEND" /\ wtx[id].status = "COMPLETED"
      /\ wtx[id].branch = sale[r].terms.branch
      /\ wtx[id].reference = sale[r].terms.reference
  BY <1>2 DEF SaleSpend, SpendPosting
<1>6. IsSpend(id) /\ wtx[id].reference # NULL
  <2>1. wtx[id] # NULL
    BY <1>1 DEF FinishPay, PostOnce, Existing
  <2>. QED  BY <1>4, <1>5, <2>1, SalesAssumption DEF IsSpend, Completed
<1>7. PICK q \in Sales : SaleOf(id, q)
  BY <1>6, ChargedParts DEF SaleInvariant, ChargedIsPaid
<1>8. Created(q) /\ sale[q].status = "PAID" /\ sale[q].tx = id
  BY <1>7 DEF SaleOf
<1>9. /\ wtx[id].branch = sale[q].terms.branch
      /\ wtx[id].reference = sale[q].terms.reference
  BY <1>8, ChargedParts DEF SaleInvariant, PaidIsCharged
<1>10. q = r
  BY <1>3, <1>5, <1>8, <1>9 DEF SaleInvariant, OneSalePerInstruction, Vendor
<1>. QED  BY <1>3, <1>8, <1>10

\* The sale that is paid gets the new transaction; no other sale has it.
LEMMA PaymentCharges ==
  ASSUME SaleInvariant,
         NEW r \in Sales, NEW id \in TxIds, NEW doneAt \in Times,
         FinishPay(r, id, doneAt)
  PROVE  SaleChargedIffPaid' /\ OutcomesRecorded'
<1>. DEFINE t == SaleSpend(r)
<1>1. wtx[id] = NULL /\ wtx' = [wtx EXCEPT ![id] = t]
  BY PaymentIsFirst DEF Post, NextRow
<1>2. wtx'[id] = t /\ \A i \in TxIds : i # id => wtx'[i] = wtx[i]
  BY <1>1 DEF SaleInvariant, LedgerTypeOK
<1>3. /\ t # NULL /\ t.type = "SPEND" /\ t.status = "COMPLETED"
      /\ t.amount = sale[r].terms.amount /\ t.branch = sale[r].terms.branch
      /\ t.reference = sale[r].terms.reference /\ t.debit = paying[r].student
  <2>1. sale[r].terms \in SaleTerms /\ paying[r] \in PaymentAttempts
    BY PaidRow DEF SaleInvariant, SaleRecords
  <2>2. t \in WalletTransactions
    BY <2>1, PostingsTyped DEF SaleInvariant, SaleSpend, SaleTerms, PaymentAttempts
  <2>. QED  BY <2>2, NullAssumption DEF SaleSpend, SpendPosting
<1>4. /\ Created(r) /\ sale[r].status = "PENDING"
      /\ \A q \in Sales : q # r => sale'[q] = sale[q]
      /\ sale'[r] \in SaleRecords
      /\ sale'[r].terms = sale[r].terms /\ sale'[r].status = "PAID"
      /\ sale'[r].payer = paying[r].student /\ sale'[r].tx = id
      /\ sale'[r].completedAt = doneAt /\ sale'[r].expiresAt = sale[r].expiresAt
  BY PaidRow DEF SaleInvariant
<1>5. Created(r)'
  BY <1>4, SalesNullAssumption DEF Created
<1>6. \A q \in Sales : Created(q) /\ sale[q].status = "PAID" => sale[q].tx \in TxIds \ {id}
  BY <1>1, ChargedParts DEF SaleInvariant, OutcomesRecorded, PaidIsCharged, IsSpend, Completed
<1>7. OutcomesRecorded'
  BY <1>4 DEF OutcomesRecorded, SaleInvariant, Created
<1>8. ASSUME NEW q \in Sales
      PROVE  PaidIsCharged(q)'
  <2>1. CASE q = r
    <3>1. IsSpend(id)'
      BY <1>2, <1>3 DEF IsSpend, Completed
    <3>2. doneAt < sale[r].expiresAt
      BY DEF FinishPay
    <3>. QED  BY <1>2, <1>3, <1>4, <2>1, <3>1, <3>2 DEF PaidIsCharged
  <2>2. CASE q # r
    <3>1. PaidIsCharged(q) /\ sale'[q] = sale[q]
      BY <1>4, <2>2, ChargedParts DEF SaleInvariant
    <3>. QED  BY <1>2, <1>6, <3>1 DEF PaidIsCharged, IsSpend, Completed, Created
  <2>. QED  BY <2>1, <2>2
<1>9. ASSUME NEW i \in TxIds
      PROVE  ChargedIsPaid(i)'
  <2>1. CASE i = id
    <3>1. \A q \in Sales : q # r /\ Created(q) => sale[q].tx # id
      BY <1>6, ValuesAssumption DEF SaleInvariant, OutcomesRecorded
    <3>2. SaleOf(id, r)'
      BY <1>4, <1>5, <3>1 DEF SaleOf, Created
    <3>. QED  BY <2>1, <3>2 DEF ChargedIsPaid
  <2>2. CASE i # id
    <3>1. SUFFICES ASSUME IsSpend(i)', wtx'[i].reference # NULL
                   PROVE  \E q \in Sales : SaleOf(i, q)'
      BY DEF ChargedIsPaid
    <3>2. PICK q \in Sales : SaleOf(i, q)
      BY <1>2, <2>2, <3>1, ChargedParts DEF SaleInvariant, ChargedIsPaid, IsSpend, Completed
    <3>3. q # r
      BY <1>4, <3>2 DEF SaleOf
    <3>. QED  BY <1>4, <2>2, <3>2, <3>3 DEF SaleOf, Created
  <2>. QED  BY <2>1, <2>2
<1>10. SaleChargedIffPaid'
  <2>1. SaleChargedIffPaid' <=>
          (\A q \in Sales : PaidIsCharged(q)') /\ (\A i \in TxIds : ChargedIsPaid(i)')
    BY DEF SaleChargedIffPaid, PaidIsCharged, ChargedIsPaid, SaleOf
  <2>. QED  BY <1>8, <1>9, <2>1
<1>. QED  BY <1>7, <1>10

\* Without a payment, only static-QR spends, which carry no reference, are added.
QuietLedger ==
  \A i \in TxIds : wtx'[i] = wtx[i] \/ (wtx[i] = NULL /\ wtx'[i].reference = NULL)

\* A step that is no payment posts no spend of a sale.
LEMMA OthersPostNoSale ==
  ASSUME LedgerTypeOK, SaleTypeOK, [Next]_vars
  PROVE  \/ \E r \in Sales, id \in TxIds, doneAt \in Times : FinishPay(r, id, doneAt)
         \/ QuietLedger /\ QuietStep
         \/ QuietLedger /\ \E r \in Sales, terms \in SaleTerms : CreationStep(r, terms)
<1>1. ASSUME UNCHANGED ledgerVars
      PROVE  QuietLedger
  BY <1>1 DEF QuietLedger, ledgerVars
<1>2. ASSUME NEW id \in TxIds, NEW s \in Students, NEW b \in Branches, NEW a \in Amounts,
             NEW k \in Keys, SubmitWalletPayment(id, s, b, a, k)
      PROVE  QuietLedger
  <2>1. wtx[id] = NULL /\ wtx' = [wtx EXCEPT ![id] = SpendPosting(s, b, a, k, NULL)]
    BY <1>2 DEF SubmitWalletPayment, Post, NextRow
  <2>2. SpendPosting(s, b, a, k, NULL).reference = NULL
    BY DEF SpendPosting
  <2>. QED  BY <2>1, <2>2 DEF QuietLedger, LedgerTypeOK
<1>3. ASSUME ChangeSettings \/ Tick
      PROVE  QuietLedger
  BY <1>3 DEF ChangeSettings, SwitchWallet, SwitchBranch, SetProfile, Tick, QuietLedger
<1>4. CASE LedgerEnvironment
  <2>1. QuietLedger
    BY <1>2, <1>3, <1>4 DEF LedgerEnvironment
  <2>2. QuietStep
    BY <1>4 DEF LedgerEnvironment, saleVars, QuietStep, QuietRow, SaleTypeOK
  <2>. QED  BY <2>1, <2>2
<1>5. CASE UNCHANGED vars
  <2>1. UNCHANGED ledgerVars /\ sale' = sale
    BY <1>5 DEF vars, saleVars
  <2>. QED  BY <1>1, <2>1 DEF QuietStep, QuietRow, SaleTypeOK
<1>. QED
  BY <1>1, <1>4, <1>5, SaleSteps
     DEF Next, BeginCreate, FinishCreate, LoseCreate, BeginPay, RollbackPay, CancelSale,
         ExpireSale

\* Rows that were not and are not paid do not matter to the property.
LEMMA OthersKeepCharges ==
  ASSUME SaleInvariant, QuietLedger,
         \A r \in Sales : \/ sale'[r] = sale[r]
                          \/ /\ Created(r) => sale[r].status # "PAID"
                             /\ sale'[r].status # "PAID"
                             /\ sale'[r].tx = NULL
  PROVE  SaleChargedIffPaid' /\ OutcomesRecorded'
<1>1. OutcomesRecorded'
  BY DEF SaleInvariant, OutcomesRecorded, Created
<1>2. ASSUME NEW i \in TxIds, wtx[i] # NULL
      PROVE  wtx'[i] = wtx[i]
  BY <1>2 DEF QuietLedger
<1>3. ASSUME NEW r \in Sales
      PROVE  PaidIsCharged(r)'
  <2>1. SUFFICES ASSUME Created(r)', sale'[r].status = "PAID"
                 PROVE  PaidIsCharged(r)'
    BY DEF PaidIsCharged
  <2>2. sale'[r] = sale[r] /\ PaidIsCharged(r) /\ Created(r)
    BY <2>1, ChargedParts DEF SaleInvariant, Created
  <2>3. sale[r].tx \in TxIds /\ wtx[sale[r].tx] # NULL
    BY <2>1, <2>2 DEF SaleInvariant, OutcomesRecorded, PaidIsCharged, IsSpend, Completed
  <2>. QED  BY <1>2, <2>2, <2>3 DEF PaidIsCharged, IsSpend, Completed, Created
<1>4. ASSUME NEW i \in TxIds
      PROVE  ChargedIsPaid(i)'
  <2>1. SUFFICES ASSUME IsSpend(i)', wtx'[i].reference # NULL
                 PROVE  \E q \in Sales : SaleOf(i, q)'
    BY DEF ChargedIsPaid
  <2>2. wtx'[i] = wtx[i]
    BY <2>1 DEF QuietLedger
  <2>3. PICK q \in Sales : SaleOf(i, q)
    BY <2>1, <2>2, ChargedParts DEF SaleInvariant, ChargedIsPaid, IsSpend, Completed
  <2>4. sale'[q] = sale[q]
    BY <2>3 DEF SaleOf
  <2>5. i # NULL
    BY ValuesAssumption
  <2>6. \A p \in Sales : Created(p)' /\ sale'[p].tx = i <=> p = q
    <3>1. ASSUME NEW p \in Sales, Created(p)', sale'[p].tx = i
          PROVE  p = q
      <4>1. sale'[p] = sale[p]
        BY <2>5, <3>1
      <4>. QED  BY <2>3, <3>1, <4>1 DEF SaleOf, Created
    <3>2. Created(q)' /\ sale'[q].tx = i
      BY <2>3, <2>4 DEF SaleOf, Created
    <3>. QED  BY <3>1, <3>2
  <2>. QED  BY <2>3, <2>4, <2>6 DEF SaleOf, Created
<1>5. SaleChargedIffPaid'
  <2>1. SaleChargedIffPaid' <=>
          (\A r \in Sales : PaidIsCharged(r)') /\ (\A i \in TxIds : ChargedIsPaid(i)')
    BY DEF SaleChargedIffPaid, PaidIsCharged, ChargedIsPaid, SaleOf
  <2>. QED  BY <1>3, <1>4, <2>1
<1>. QED  BY <1>1, <1>5

\* Cancelling and expiring touch no paid sale.
LEMMA QuietRowsUnpaid ==
  ASSUME SaleTypeOK, OutcomesRecorded, QuietStep, NEW r \in Sales
  PROVE  \/ sale'[r] = sale[r]
         \/ /\ Created(r) => sale[r].status # "PAID"
            /\ sale'[r].status # "PAID"
            /\ sale'[r].tx = NULL
<1>1. SUFFICES ASSUME sale'[r] # sale[r]
               PROVE  /\ sale[r].status # "PAID"
                      /\ sale'[r].status # "PAID"
                      /\ sale'[r].tx = NULL
  OBVIOUS
<1>2. Created(r) /\ sale[r].status = "PENDING" /\ sale[r] \in SaleRecords
  BY <1>1 DEF QuietStep, QuietRow, SaleTypeOK, Created
<1>3. PICK s \in {"CANCELLED", "EXPIRED"} : sale'[r] = [sale[r] EXCEPT !.status = s]
  BY <1>1 DEF QuietStep, QuietRow
<1>4. sale'[r].status = s /\ sale'[r].tx = sale[r].tx
  BY <1>2, <1>3 DEF SaleRecords
<1>. QED  BY <1>2, <1>4 DEF OutcomesRecorded

\* Every step keeps the inductive invariant.
LEMMA SaleInvariantStep ==
  ASSUME SaleInvariant, [Next]_vars
  PROVE  SaleInvariant'
<1>1. LedgerTypeOK'
  BY SaleStepsUseLedger, TypingStep DEF SaleInvariant
<1>2. SaleTypeOK' /\ LocksHeld' /\ OneSalePerInstruction'
  BY SaleTypingStep, LocksStep, OneSaleStep DEF SaleInvariant
<1>3. SaleChargedIffPaid' /\ OutcomesRecorded'
  <2>1. ASSUME NEW r \in Sales, NEW id \in TxIds, NEW doneAt \in Times,
               FinishPay(r, id, doneAt)
        PROVE  SaleChargedIffPaid' /\ OutcomesRecorded'
    BY <2>1, PaymentCharges
  <2>2. ASSUME QuietLedger, QuietStep
        PROVE  SaleChargedIffPaid' /\ OutcomesRecorded'
    BY <2>2, QuietRowsUnpaid, OthersKeepCharges DEF SaleInvariant
  <2>3. ASSUME QuietLedger, NEW r \in Sales, NEW terms \in SaleTerms, CreationStep(r, terms)
        PROVE  SaleChargedIffPaid' /\ OutcomesRecorded'
    <3>1. /\ \A q \in Sales : q # r => sale'[q] = sale[q]
          /\ ~ Created(r)
          /\ sale'[r].status = "PENDING" /\ sale'[r].tx = NULL
      BY <2>3 DEF CreationStep, SaleInvariant, SaleTypeOK, Created
    <3>. QED  BY <2>3, <3>1, OthersKeepCharges
  <2>. QED  BY <2>1, <2>2, <2>3, OthersPostNoSale DEF SaleInvariant
<1>. QED  BY <1>1, <1>2, <1>3 DEF SaleInvariant

-----------------------------------------------------------------------------
(* Theorems. *)

\* Nothing is for sale at first.
LEMMA SaleInvariantInit ==
  ASSUME Init
  PROVE  SaleInvariant
<1>1. LedgerTypeOK
  BY TypingInit DEF Init
<1>2. SaleTypeOK /\ LocksHeld /\ OutcomesRecorded /\ OneSalePerInstruction
  BY DEF Init, SaleTypeOK, LocksHeld, OutcomesRecorded, OneSalePerInstruction, Created
<1>3. SaleChargedIffPaid
  BY DEF Init, LedgerInit, SaleChargedIffPaid, Created, IsSpend, Completed
<1>. QED  BY <1>1, <1>2, <1>3 DEF SaleInvariant

\* The inductive invariant holds in every reachable state.
THEOREM SalesInvariant == Spec => []SaleInvariant
<1>1. Init => SaleInvariant
  BY SaleInvariantInit
<1>2. SaleInvariant /\ [Next]_vars => SaleInvariant'
  BY SaleInvariantStep
<1>. QED  BY <1>1, <1>2, PTL DEF Spec

\* Type correctness of sales, creations and open payments.
THEOREM SalesTyping == Spec => []SaleTypeOK
<1>1. SaleInvariant => SaleTypeOK
  BY DEF SaleInvariant
<1>. QED  BY <1>1, SalesInvariant, PTL

\* A student is charged for a sale exactly when it is PAID, once, on its exact
\* terms and before it expires.
THEOREM ChargedExactlyOnce == Spec => []SaleChargedIffPaid
<1>1. SaleInvariant => SaleChargedIffPaid
  BY DEF SaleInvariant
<1>. QED  BY <1>1, SalesInvariant, PTL

\* A vendor never has two sales under one idempotency key or order reference.
THEOREM OneSaleEach == Spec => []OneSalePerInstruction
<1>1. SaleInvariant => OneSalePerInstruction
  BY DEF SaleInvariant
<1>. QED  BY <1>1, SalesInvariant, PTL

\* The terms of a sale never change and its outcome is final.
THEOREM OutcomesFinal == Spec => SaleOutcomeFinal
<1>1. ASSUME SaleInvariant, [Next]_vars, NEW r \in Sales, Created(r)
      PROVE  SaleStep(r)
  <2>1. ASSUME NEW q \in Sales, NEW id \in TxIds, NEW doneAt \in Times,
               FinishPay(q, id, doneAt)
        PROVE  SaleStep(r)
    BY <1>1, <2>1, PaidRow, SalesNullAssumption DEF SaleInvariant, SaleStep, Created
  <2>2. ASSUME NEW q \in Sales, NEW terms \in SaleTerms, CreationStep(q, terms)
        PROVE  SaleStep(r)
    BY <1>1, <2>2 DEF CreationStep, SaleInvariant, SaleTypeOK, SaleStep, Created
  <2>3. ASSUME QuietStep
        PROVE  SaleStep(r)
    <3>1. sale[r] \in SaleRecords
      BY <1>1 DEF SaleInvariant, SaleTypeOK, Created
    <3>2. CASE sale'[r] = sale[r]
      BY <1>1, <3>2 DEF SaleStep, Created
    <3>3. CASE sale'[r] # sale[r]
      <4>1. PICK s \in {"CANCELLED", "EXPIRED"} : sale'[r] = [sale[r] EXCEPT !.status = s]
        BY <2>3, <3>3 DEF QuietStep, QuietRow
      <4>2. sale[r].status = "PENDING"
        BY <2>3, <3>3 DEF QuietStep, QuietRow
      <4>3. /\ sale'[r] \in SaleRecords
            /\ sale'[r].terms = sale[r].terms
            /\ sale'[r].expiresAt = sale[r].expiresAt
        BY <3>1, <4>1 DEF SaleRecords, SaleStatuses
      <4>. QED  BY <4>2, <4>3, SalesNullAssumption DEF SaleStep
    <3>. QED  BY <3>2, <3>3
  <2>. QED  BY <1>1, <2>1, <2>2, <2>3, SaleSteps DEF SaleInvariant
<1>2. SaleInvariant /\ [Next]_vars => [\A r \in Sales : SaleStep(r)]_vars
  BY <1>1 DEF SaleStep
<1>. QED  BY <1>2, SalesInvariant, PTL DEF Spec, SaleOutcomeFinal

\* Sales implement the ledger: they move money only by its operations, and all
\* that is proved of LedgerSpec holds of Spec.
THEOREM SalesUseLedger == Spec => LedgerSpec
<1>1. Init => LedgerInit
  BY DEF Init
<1>2. SaleInvariant /\ [Next]_vars => [LedgerNext]_ledgerVars
  BY SaleStepsUseLedger DEF SaleInvariant
<1>. QED  BY <1>1, <1>2, SalesInvariant, PTL DEF Spec, LedgerSpec

(***************************************************************************)
(* PaymentWebhooks.                                                        *)
(***************************************************************************)

\* A delivery was emitted, each of its attempts counted, and a lease carries the
\* number of the latest claim.
DeliverySound(e) ==
  delivery[e] # NULL =>
    /\ e \in emitted
    /\ delivery[e].sequence <= MaxAutomatic * retries + delivery[e].attempts
    /\ delivery[e].status = "IN_FLIGHT" => delivery[e].token = delivery[e].sequence

\* What a worker knows of its claim, long after it was made.
ClaimSound(w) ==
  worker[w] # NULL =>
    /\ delivery[worker[w].event] # NULL
    /\ worker[w].token \in 1 .. delivery[worker[w].event].sequence
    /\ HoldsLease(w) => delivery[worker[w].event].config = worker[w].config
    /\ worker[w].success => worker[w].config \in received[worker[w].event]

WebhookInvariant ==
  /\ DeliveredWasReceived
  /\ \A e \in Events : DeliverySound(e)
  /\ \A w \in Workers : ClaimSound(w)

-----------------------------------------------------------------------------

\* Retries bound how often a delivery starts anew, and each time it has
\* MaxAutomatic attempts.
LEMMA SequenceBounds ==
  ASSUME NEW r \in 0 .. MaxRetries, NEW sequence \in Nat, NEW attempts \in 0 .. MaxAutomatic,
         sequence <= MaxAutomatic * r + attempts
  PROVE  /\ MaxSequence \in Nat /\ MaxAutomatic * r \in Nat
         /\ MaxAutomatic * (r + 1) = MaxAutomatic * r + MaxAutomatic
         /\ sequence \in Tokens
         /\ attempts < MaxAutomatic => sequence + 1 \in 1 .. MaxSequence
<1>1. /\ MaxAutomatic \in Nat /\ MaxRetries \in Nat /\ r \in Nat /\ r <= MaxRetries
  BY WebhookAssumption
<1>2. \A m, a, b \in Nat : /\ m * a \in Nat
                           /\ m * (a + 1) = m * a + m
                           /\ a <= b => m * a <= m * b
  OBVIOUS
<1>3. /\ MaxAutomatic * r \in Nat
      /\ MaxAutomatic * (r + 1) = MaxAutomatic * r + MaxAutomatic
      /\ MaxAutomatic * (MaxRetries + 1) = MaxAutomatic * MaxRetries + MaxAutomatic
      /\ MaxAutomatic * MaxRetries \in Nat
      /\ MaxAutomatic * r <= MaxAutomatic * MaxRetries
  BY <1>1, <1>2
<1> DEFINE x == MaxAutomatic * r  y == MaxAutomatic * MaxRetries
<1>4. /\ x \in Nat /\ y \in Nat /\ x <= y
      /\ MaxSequence = y + MaxAutomatic
      /\ sequence <= x + attempts
  BY <1>3 DEF MaxSequence
<1> HIDE DEF x, y
<1>5. sequence \in 0 .. MaxSequence /\ (attempts < MaxAutomatic => sequence + 1 \in 1 .. MaxSequence)
  BY <1>1, <1>4
<1>6. MaxSequence \in Nat
  BY <1>1, <1>4
<1>. QED  BY <1>3, <1>5, <1>6 DEF Tokens

\* Nothing is emitted, delivered or claimed at first.
LEMMA WebhookInitially == WebhookInit => WebhookInvariant
<1>. SUFFICES ASSUME WebhookInit  PROVE WebhookInvariant
  OBVIOUS
<1>1. WebhookTypeOK
  BY WebhookAssumption DEF WebhookInit, WebhookTypeOK
<1>. QED
  BY <1>1 DEF WebhookInit, WebhookInvariant, DeliveredWasReceived, DeliverySound, ClaimSound

\* What every step does to a delivery, for those who hold a claim of it: a lease
\* is the one it was, or newer than every claim so far.
DeliveryFollows(e) ==
  delivery[e] # NULL =>
    /\ delivery'[e] # NULL
    /\ delivery[e].sequence <= delivery'[e].sequence
    /\ delivery'[e].status = "IN_FLIGHT" =>
         \/ /\ delivery[e].status = "IN_FLIGHT"
            /\ delivery'[e].token = delivery[e].token
            /\ delivery'[e].config = delivery[e].config
         \/ delivery'[e].token > delivery[e].sequence

\* So a worker that does nothing stays as well informed as it was.
LEMMA ClaimKept ==
  ASSUME WebhookInvariant, NEW w \in Workers,
         worker'[w] = worker[w] \/ worker'[w] = NULL,
         \A e \in Events : DeliveryFollows(e) /\ received[e] \subseteq received'[e],
         delivery' \in [Events -> DeliveryRecords \cup {NULL}]
  PROVE  ClaimSound(w)'
<1>. SUFFICES ASSUME worker'[w] # NULL
              PROVE  ClaimSound(w)'
  BY DEF ClaimSound
<1> DEFINE c == worker[w]  d == delivery[c.event]
<1>1. /\ worker'[w] = c /\ c # NULL /\ c \in Claims /\ c.event \in Events
      /\ d # NULL /\ d \in DeliveryRecords /\ d.sequence \in Nat
      /\ c.token \in 1 .. d.sequence
      /\ HoldsLease(w) => d.config = c.config
      /\ c.success => c.config \in received[c.event]
  BY WebhookAssumption
  DEF WebhookInvariant, DeliveredWasReceived, WebhookTypeOK, ClaimSound, Claims,
      DeliveryRecords, Tokens
<1>2. DeliveryFollows(c.event) /\ received[c.event] \subseteq received'[c.event]
  BY <1>1
<1>3. delivery'[c.event] # NULL /\ d.sequence <= delivery'[c.event].sequence
  BY <1>1, <1>2 DEF DeliveryFollows
<1>4. delivery'[c.event].sequence \in Nat /\ delivery'[c.event].token \in Nat
  BY <1>1, <1>3 DEF DeliveryRecords, Tokens
<1>5. ASSUME HoldsLease(w)'
      PROVE  delivery'[c.event].config = c.config
  <2>1. delivery'[c.event].status = "IN_FLIGHT" /\ delivery'[c.event].token = c.token
    BY <1>1, <1>5 DEF HoldsLease
  <2>2. ~ (delivery'[c.event].token > d.sequence)
    BY <1>1, <1>4, <2>1
  <2>3. d.status = "IN_FLIGHT" /\ d.token = c.token /\ delivery'[c.event].config = d.config
    BY <1>1, <1>2, <2>1, <2>2 DEF DeliveryFollows
  <2>. QED  BY <1>1, <2>3 DEF HoldsLease
<1>. QED
  BY <1>1, <1>2, <1>3, <1>4, <1>5 DEF ClaimSound

\* A step that no worker takes.
LEMMA WorkersWait ==
  ASSUME WebhookInvariant, WebhookTypeOK', UNCHANGED <<worker, received>>,
         \A e \in Events :
           /\ DeliveryFollows(e) /\ DeliverySound(e)'
           /\ delivery'[e] # NULL /\ delivery'[e].status = "DELIVERED" =>
                /\ delivery[e] # NULL /\ delivery[e].status = "DELIVERED"
                /\ delivery'[e].config = delivery[e].config
  PROVE  WebhookInvariant'
<1>1. \A w \in Workers : ClaimSound(w)'
  BY ClaimKept DEF WebhookTypeOK
<1>. QED  BY <1>1 DEF WebhookInvariant, DeliveredWasReceived

\* The facts of the invariant that a step starts from.
LEMMA DeliveryFacts ==
  ASSUME WebhookInvariant, NEW e \in Events, delivery[e] # NULL
  PROVE  /\ delivery[e] \in DeliveryRecords
         /\ delivery[e].sequence \in Nat /\ delivery[e].token \in Nat
         /\ delivery[e].attempts \in 0 .. MaxAutomatic
         /\ e \in emitted
         /\ delivery[e].sequence <= MaxAutomatic * retries + delivery[e].attempts
         /\ delivery[e].status = "IN_FLIGHT" => delivery[e].token = delivery[e].sequence
         /\ delivery[e].status = "DELIVERED" => delivery[e].config \in received[e]
BY DEF WebhookInvariant, DeliveredWasReceived, WebhookTypeOK, DeliverySound, DeliveryRecords,
       Tokens

\* Parking withdraws the lease and keeps the rest.
LEMMA ParkedRow ==
  ASSUME NEW d \in DeliveryRecords, WebhookAssumption
  PROVE  /\ Parked(d) \in DeliveryRecords
         /\ Parked(d).config = d.config /\ Parked(d).sequence = d.sequence
         /\ Parked(d).attempts = d.attempts /\ Parked(d).status = "PARKED"
         /\ Parked(d).expired = FALSE
<1>1. /\ 0 \in 0 .. MaxRetries /\ 0 \in 0 .. MaxAutomatic /\ 0 \in Nat
      /\ 0 <= MaxAutomatic * 0 + 0
  BY WebhookAssumption
<1>2. MaxSequence \in Nat
  BY <1>1, SequenceBounds
<1>3. 0 \in Tokens
  BY <1>2 DEF Tokens
<1>. QED  BY <1>3 DEF Parked, DeliveryRecords, DeliveryStatuses

\* Replacing or disabling the configuration.
LEMMA ParkingKeeps ==
  ASSUME WebhookInvariant, ParkConfiguration,
         configs' \in [Configs -> {"NONE", "ENABLED", "DISABLED"}],
         UNCHANGED <<emitted, log, received, worker, retries, crashes>>
  PROVE  WebhookInvariant'
<1>1. ASSUME NEW e \in Events, delivery[e] # NULL
      PROVE  /\ delivery'[e] \in DeliveryRecords
             /\ delivery'[e] = delivery[e] \/ delivery'[e].status = "PARKED"
             /\ delivery'[e].sequence = delivery[e].sequence
             /\ delivery'[e].attempts = delivery[e].attempts
  BY <1>1, ParkedRow, DeliveryFacts, WebhookAssumption DEF ParkConfiguration
<1>2. \A e \in Events : delivery[e] = NULL => delivery'[e] = NULL
  BY DEF ParkConfiguration
<1>3. delivery' \in [Events -> DeliveryRecords \cup {NULL}]
  <2>1. \A e \in Events : delivery'[e] \in DeliveryRecords \cup {NULL}
    BY <1>1, <1>2
  <2>. QED  BY <2>1 DEF ParkConfiguration
<1>4. WebhookTypeOK'
  BY <1>3 DEF WebhookInvariant, DeliveredWasReceived, WebhookTypeOK
<1>5. ASSUME NEW e \in Events
      PROVE  /\ DeliveryFollows(e) /\ DeliverySound(e)'
             /\ delivery'[e] # NULL /\ delivery'[e].status = "DELIVERED" =>
                  /\ delivery[e] # NULL /\ delivery[e].status = "DELIVERED"
                  /\ delivery'[e].config = delivery[e].config
  <2>1. CASE delivery[e] = NULL
    BY <1>2, <2>1 DEF DeliveryFollows, DeliverySound
  <2>2. CASE delivery[e] # NULL
    <3>1. delivery'[e] # NULL
      BY <1>1, <2>2, WebhookNullAssumption
    <3>. QED  BY <1>1, <2>2, <3>1, DeliveryFacts DEF DeliveryFollows, DeliverySound
  <2>. QED  BY <2>1, <2>2
<1>. QED  BY <1>4, <1>5, WorkersWait

\* A delivery starts anew, with the attempts that a retry allows it.
LEMMA FreshKeeps ==
  ASSUME WebhookInvariant, NEW e \in Events, NEW c \in Configs, NEW sequence \in Nat,
         IF delivery[e] = NULL THEN sequence = 0
         ELSE /\ sequence = delivery[e].sequence
              /\ retries' = retries + 1,
         emitted' \in SUBSET Events, emitted \subseteq emitted', e \in emitted',
         retries' \in 0 .. MaxRetries, retries <= retries',
         delivery' = [delivery EXCEPT ![e] =
           [config |-> c, status |-> "READY", attempts |-> 0, sequence |-> sequence,
            token |-> 0, expired |-> FALSE]],
         UNCHANGED <<configs, log, received, worker, crashes>>
  PROVE  WebhookInvariant'
<1> DEFINE new == [config |-> c, status |-> "READY", attempts |-> 0, sequence |-> sequence,
                   token |-> 0, expired |-> FALSE]
<1>1. WebhookTypeOK /\ retries \in Nat /\ retries' \in Nat /\ MaxAutomatic \in Nat
  BY WebhookAssumption DEF WebhookInvariant, DeliveredWasReceived, WebhookTypeOK
<1>2. \A m, a, b \in Nat : /\ m * a \in Nat
                           /\ m * (a + 1) = m * a + m
                           /\ a <= b => m * a <= m * b
  OBVIOUS
<1> DEFINE x == MaxAutomatic * retries  y == MaxAutomatic * retries'
<1>8. /\ x \in Nat /\ y \in Nat /\ x <= y
      /\ retries' = retries + 1 => y = x + MaxAutomatic
  BY <1>1, <1>2
<1> HIDE DEF x, y
<1>3. sequence <= y
  <2>1. CASE delivery[e] = NULL
    BY <1>8, <2>1
  <2>2. CASE delivery[e] # NULL
    <3>1. sequence <= x + delivery[e].attempts /\ delivery[e].attempts \in 0 .. MaxAutomatic
      BY <2>2, DeliveryFacts DEF x
    <3>. QED  BY <1>1, <1>8, <2>2, <3>1
  <2>. QED  BY <2>1, <2>2
<1>4. new \in DeliveryRecords
  <2>1. 0 \in 0 .. MaxAutomatic /\ sequence <= y + 0
    BY <1>1, <1>3, <1>8
  <2>2. sequence \in Tokens /\ MaxSequence \in Nat
    BY <2>1, SequenceBounds DEF y
  <2>3. 0 \in Tokens
    BY <2>2 DEF Tokens
  <2>. QED  BY <2>1, <2>2, <2>3 DEF DeliveryRecords, DeliveryStatuses
<1>5. delivery' \in [Events -> DeliveryRecords \cup {NULL}]
  BY <1>1, <1>4 DEF WebhookTypeOK
<1>6. WebhookTypeOK'
  BY <1>1, <1>5 DEF WebhookTypeOK
<1>7. delivery'[e] = new /\ new # NULL /\ \A f \in Events \ {e} : delivery'[f] = delivery[f]
  BY <1>1, <1>4, WebhookNullAssumption DEF WebhookTypeOK
<1>9. ASSUME NEW f \in Events
      PROVE  /\ DeliveryFollows(f) /\ DeliverySound(f)'
             /\ delivery'[f] # NULL /\ delivery'[f].status = "DELIVERED" =>
                  /\ delivery[f] # NULL /\ delivery[f].status = "DELIVERED"
                  /\ delivery'[f].config = delivery[f].config
  <2>1. CASE f = e
    <3>0. /\ delivery'[f].sequence <= y + delivery'[f].attempts
          /\ delivery'[f].status = "READY" /\ f \in emitted'
      BY <1>1, <1>3, <1>7, <1>8, <2>1
    <3>1. DeliverySound(f)'
      BY <3>0 DEF DeliverySound, y
    <3>. QED  BY <1>7, <2>1, <3>1 DEF DeliveryFollows
  <2>2. CASE f # e
    <3>1. CASE delivery[f] = NULL
      BY <1>7, <2>2, <3>1 DEF DeliveryFollows, DeliverySound
    <3>2. CASE delivery[f] # NULL
      <4>1. delivery[f].sequence <= x + delivery[f].attempts
        BY <3>2, DeliveryFacts DEF x
      <4>2. delivery[f].sequence <= y + delivery[f].attempts
        BY <1>8, <3>2, <4>1, DeliveryFacts
      <4>. QED
        BY <1>7, <2>2, <3>2, <4>2, DeliveryFacts DEF DeliveryFollows, DeliverySound, y
    <3>. QED  BY <3>1, <3>2
  <2>. QED  BY <2>1, <2>2
<1>. QED  BY <1>6, <1>9, WorkersWait

\* A saved event, with a delivery or without.
LEMMA EmitKeeps ==
  ASSUME WebhookInvariant, NEW e \in Events, EmitEvent(e)
  PROVE  WebhookInvariant'
<1>1. WebhookTypeOK
  BY DEF WebhookInvariant, DeliveredWasReceived
<1>2. delivery[e] = NULL
  BY DeliveryFacts DEF EmitEvent
<1>3. /\ emitted' \in SUBSET Events /\ emitted \subseteq emitted' /\ e \in emitted'
      /\ retries' \in 0 .. MaxRetries /\ retries <= retries'
      /\ retries' = retries
      /\ UNCHANGED <<configs, log, received, worker, crashes>>
  BY <1>1, WebhookAssumption DEF EmitEvent, WebhookTypeOK
<1>4. ASSUME NEW c \in Configs,
             delivery' = [delivery EXCEPT ![e] =
               [config |-> c, status |-> "READY", attempts |-> 0, sequence |-> 0,
                token |-> 0, expired |-> FALSE]]
      PROVE  WebhookInvariant'
  BY <1>2, <1>3, <1>4, FreshKeeps
<1>5. CASE UNCHANGED delivery
  <2>1. WebhookTypeOK'
    BY <1>1, <1>3, <1>5 DEF WebhookTypeOK
  <2>2. \A f \in Events : DeliveryFollows(f) /\ DeliverySound(f)'
    BY <1>3, <1>5, DeliveryFacts DEF DeliveryFollows, DeliverySound
  <2>. QED  BY <1>3, <1>5, <2>1, <2>2, WorkersWait
<1>. QED  BY <1>4, <1>5 DEF EmitEvent

\* A retry by hand.
LEMMA RetryKeeps ==
  ASSUME WebhookInvariant, NEW e \in Events, RetryPaymentWebhook(e)
  PROVE  WebhookInvariant'
<1>1. WebhookTypeOK
  BY DEF WebhookInvariant, DeliveredWasReceived
<1>2. /\ emitted' \in SUBSET Events /\ emitted \subseteq emitted' /\ e \in emitted'
      /\ retries' \in 0 .. MaxRetries /\ retries <= retries'
      /\ retries' = retries + 1
      /\ UNCHANGED <<configs, log, received, worker, crashes>>
  BY <1>1, WebhookAssumption DEF RetryPaymentWebhook, WebhookTypeOK
<1> DEFINE sequence == IF delivery[e] = NULL THEN 0 ELSE delivery[e].sequence
<1>3. sequence \in Nat
  BY DeliveryFacts
<1>4. PICK c \in Configs :
        delivery' = [delivery EXCEPT ![e] =
          [config |-> c, status |-> "READY", attempts |-> 0, sequence |-> sequence,
           token |-> 0, expired |-> FALSE]]
  BY DEF RetryPaymentWebhook
<1>. QED  BY <1>2, <1>3, <1>4, FreshKeeps

\* Passing time ends a lease, and an attempt may fail to report.
LEMMA ExpiryKeeps ==
  ASSUME WebhookInvariant, NEW e \in Events, ExpireLease(e)
  PROVE  WebhookInvariant'
<1>1. WebhookTypeOK
  BY DEF WebhookInvariant, DeliveredWasReceived
<1>2. delivery[e] \in DeliveryRecords /\ delivery[e] # NULL
  BY DeliveryFacts DEF ExpireLease
<1> DEFINE new == [delivery[e] EXCEPT !.expired = TRUE]
<1>3. /\ new \in DeliveryRecords
      /\ new.sequence = delivery[e].sequence /\ new.status = delivery[e].status
      /\ new.attempts = delivery[e].attempts /\ new.token = delivery[e].token
      /\ new.config = delivery[e].config
  BY <1>2 DEF DeliveryRecords
<1> HIDE DEF new
<1>4. delivery' = [delivery EXCEPT ![e] = new]
  BY DEF ExpireLease, new
<1>5. WebhookTypeOK'
  BY <1>1, <1>3, <1>4 DEF WebhookTypeOK, ExpireLease
<1>6. delivery'[e] = new /\ \A f \in Events \ {e} : delivery'[f] = delivery[f]
  BY <1>1, <1>4 DEF WebhookTypeOK
<1>7. new # NULL
  BY <1>3, WebhookNullAssumption
<1>8. ASSUME NEW f \in Events
      PROVE  /\ DeliveryFollows(f) /\ DeliverySound(f)'
             /\ delivery'[f] # NULL /\ delivery'[f].status = "DELIVERED" =>
                  /\ delivery[f] # NULL /\ delivery[f].status = "DELIVERED"
                  /\ delivery'[f].config = delivery[f].config
  <2>1. UNCHANGED <<emitted, retries>>
    BY DEF ExpireLease
  <2>2. CASE f = e
    BY <1>2, <1>3, <1>6, <1>7, <2>1, <2>2, DeliveryFacts DEF DeliveryFollows, DeliverySound
  <2>3. CASE f # e
    <3>1. CASE delivery[f] = NULL
      BY <1>6, <2>3, <3>1 DEF DeliveryFollows, DeliverySound
    <3>2. CASE delivery[f] # NULL
      BY <1>6, <2>1, <2>3, <3>2, DeliveryFacts DEF DeliveryFollows, DeliverySound
    <3>. QED  BY <3>1, <3>2
  <2>. QED  BY <2>2, <2>3
<1>. QED  BY <1>5, <1>8, WorkersWait DEF ExpireLease

\* What the sweep leaves of a delivery: its lease, or none.
LEMMA SweptRow ==
  ASSUME WebhookInvariant, NEW e \in Events, delivery[e] # NULL
  PROVE  LET s == Exhausted(Swept(e)) IN
         /\ s \in DeliveryRecords
         /\ s.config = delivery[e].config
         /\ s.sequence = delivery[e].sequence
         /\ s.attempts = delivery[e].attempts
         /\ s.status \in {"IN_FLIGHT", "DELIVERED"} => s = delivery[e]
<1>1. delivery[e] \in DeliveryRecords
  BY DeliveryFacts
<1>2. /\ Swept(e) \in DeliveryRecords
      /\ Swept(e).config = delivery[e].config
      /\ Swept(e).sequence = delivery[e].sequence
      /\ Swept(e).attempts = delivery[e].attempts
      /\ Swept(e) = delivery[e] \/ Swept(e).status = "PARKED"
  BY <1>1, ParkedRow, WebhookAssumption DEF Swept
<1>3. 0 \in Tokens
  <2>1. 0 \in 0 .. MaxRetries /\ 0 \in 0 .. MaxAutomatic /\ 0 \in Nat /\ 0 <= MaxAutomatic * 0 + 0
    BY WebhookAssumption
  <2>. QED  BY <2>1, SequenceBounds
<1>4. ASSUME NEW d \in DeliveryRecords
      PROVE  /\ Exhausted(d) \in DeliveryRecords
             /\ Exhausted(d).config = d.config /\ Exhausted(d).sequence = d.sequence
             /\ Exhausted(d).attempts = d.attempts
             /\ Exhausted(d) = d \/ Exhausted(d).status = "EXHAUSTED"
  BY <1>3 DEF Exhausted, DeliveryRecords, DeliveryStatuses
<1>. QED  BY <1>2, <1>4

\* What a claim makes of a swept delivery: a lease newer than every one before.
LEMMA ClaimedRow ==
  ASSUME WebhookInvariant, NEW e \in Events, delivery[e] # NULL,
         NEW s \in DeliveryRecords, s.sequence = delivery[e].sequence,
         s.attempts = delivery[e].attempts, Claimable(s),
         NEW d, d = [config |-> s.config, status |-> "IN_FLIGHT", attempts |-> s.attempts + 1,
                     sequence |-> s.sequence + 1, token |-> s.sequence + 1, expired |-> FALSE]
  PROVE  /\ d \in DeliveryRecords
         /\ d.config = s.config /\ d.status = "IN_FLIGHT"
         /\ d.sequence = delivery[e].sequence + 1 /\ d.token = d.sequence
         /\ d.attempts = delivery[e].attempts + 1
         /\ d.sequence \in 1 .. MaxSequence
         /\ d.sequence <= MaxAutomatic * retries + d.attempts
<1>1. /\ s.sequence \in Nat /\ s.attempts \in 0 .. MaxAutomatic /\ s.attempts < MaxAutomatic
      /\ s.sequence <= MaxAutomatic * retries + s.attempts
  BY DeliveryFacts DEF Claimable
<1>2. retries \in 0 .. MaxRetries /\ MaxAutomatic \in Nat
  BY WebhookAssumption DEF WebhookInvariant, DeliveredWasReceived, WebhookTypeOK
<1>3. s.sequence + 1 \in 1 .. MaxSequence /\ MaxSequence \in Nat /\ MaxAutomatic * retries \in Nat
  BY <1>1, <1>2, SequenceBounds
<1>4. s.sequence + 1 \in Tokens /\ s.attempts + 1 \in 0 .. MaxAutomatic
  BY <1>1, <1>2, <1>3 DEF Tokens
<1>5. /\ d \in DeliveryRecords
      /\ d.config = s.config /\ d.status = "IN_FLIGHT"
      /\ d.sequence = s.sequence + 1 /\ d.token = s.sequence + 1
      /\ d.attempts = s.attempts + 1
  BY <1>4 DEF DeliveryRecords, DeliveryStatuses
<1> DEFINE x == MaxAutomatic * retries
<1>6. x \in Nat /\ s.sequence <= x + s.attempts
  BY <1>1, <1>3
<1> HIDE DEF x
<1>7. d.sequence <= x + d.attempts
  BY <1>1, <1>5, <1>6
<1>. QED  BY <1>3, <1>5, <1>7 DEF x

\* A sweep, and the claims that it makes.
LEMMA SweepFacts ==
  ASSUME WebhookInvariant, NEW chosen \in SUBSET Events, SweepDeliveries(chosen),
         UNCHANGED <<configs, emitted, received, retries, crashes>>
  PROVE  /\ delivery' \in [Events -> DeliveryRecords \cup {NULL}]
         /\ log' \in [Events -> [1 .. MaxSequence ->
                {"NONE", "STARTED", "DELIVERED", "FAILED", "INTERRUPTED"}]]
         /\ \A e \in Events :
              /\ DeliveryFollows(e) /\ DeliverySound(e)'
              /\ delivery'[e] # NULL /\ delivery'[e].status = "DELIVERED" =>
                   /\ delivery[e] # NULL /\ delivery[e].status = "DELIVERED"
                   /\ delivery'[e].config = delivery[e].config
         /\ \A e \in chosen :
              /\ delivery'[e] \in DeliveryRecords
              /\ delivery'[e].token = delivery'[e].sequence
              /\ delivery'[e].sequence \in 1 .. MaxSequence
<1> DEFINE swept == [e \in Events |-> IF delivery[e] = NULL THEN NULL ELSE Exhausted(Swept(e))]
           claimed(d) == [d EXCEPT !.status = "IN_FLIGHT", !.expired = FALSE, !.attempts = @ + 1,
                                   !.sequence = @ + 1, !.token = d.sequence + 1]
<1>1. /\ \A e \in chosen : delivery[e] # NULL /\ Claimable(swept[e])
      /\ delivery' = [e \in Events |-> IF e \in chosen THEN claimed(swept[e]) ELSE swept[e]]
      /\ log' = [e \in Events |->
          IF delivery[e] = NULL THEN log[e]
          ELSE IF e \in chosen
               THEN [Interrupted(e) EXCEPT ![swept[e].sequence + 1] = "STARTED"]
               ELSE Interrupted(e)]
  BY DEF SweepDeliveries
<1>2. ASSUME NEW e \in Events, e \notin chosen
      PROVE  /\ delivery[e] = NULL => delivery'[e] = NULL
             /\ delivery[e] # NULL => delivery'[e] = Exhausted(Swept(e))
  BY <1>1, <1>2
<1>3. ASSUME NEW e \in chosen
      PROVE  /\ delivery[e] # NULL
             /\ Claimable(Exhausted(Swept(e)))
             /\ delivery'[e] = claimed(Exhausted(Swept(e)))
  BY <1>1, <1>3
<1>4. ASSUME NEW e \in chosen
      PROVE  /\ delivery[e] # NULL
             /\ delivery'[e] \in DeliveryRecords
             /\ delivery'[e].status = "IN_FLIGHT"
             /\ delivery'[e].sequence = delivery[e].sequence + 1
             /\ delivery'[e].token = delivery'[e].sequence
             /\ delivery'[e].sequence \in 1 .. MaxSequence
             /\ delivery'[e].sequence <= MaxAutomatic * retries + delivery'[e].attempts
  <2> DEFINE s == Exhausted(Swept(e))
  <2>1. s \in DeliveryRecords /\ s.sequence = delivery[e].sequence
        /\ s.attempts = delivery[e].attempts /\ delivery[e] # NULL
    BY <1>3, <1>4, SweptRow
  <2>2. Claimable(s) /\ delivery'[e] = claimed(s)
    BY <1>3, <1>4
  <2>3. delivery'[e] = [config |-> s.config, status |-> "IN_FLIGHT",
                        attempts |-> s.attempts + 1, sequence |-> s.sequence + 1,
                        token |-> s.sequence + 1, expired |-> FALSE]
    BY <2>1, <2>2 DEF DeliveryRecords
  <2> HIDE DEF s
  <2>4. PICK d : d = delivery'[e]
    OBVIOUS
  <2>5. /\ e \in Events /\ s \in DeliveryRecords /\ Claimable(s)
        /\ d = [config |-> s.config, status |-> "IN_FLIGHT", attempts |-> s.attempts + 1,
                sequence |-> s.sequence + 1, token |-> s.sequence + 1, expired |-> FALSE]
    BY <1>4, <2>1, <2>2, <2>3, <2>4
  <2>6. /\ d \in DeliveryRecords /\ d.status = "IN_FLIGHT"
        /\ d.sequence = delivery[e].sequence + 1 /\ d.token = d.sequence
        /\ d.sequence \in 1 .. MaxSequence
        /\ d.sequence <= MaxAutomatic * retries + d.attempts
    BY <2>1, <2>5, ClaimedRow
  <2>. QED  BY <2>1, <2>4, <2>6
<1> HIDE DEF swept, claimed
<1>5. ASSUME NEW e \in Events
      PROVE  delivery'[e] \in DeliveryRecords \cup {NULL}
  BY <1>2, <1>4, <1>5, SweptRow
<1>6. delivery' \in [Events -> DeliveryRecords \cup {NULL}]
  BY <1>1, <1>5
<1>7. log' \in [Events -> [1 .. MaxSequence ->
         {"NONE", "STARTED", "DELIVERED", "FAILED", "INTERRUPTED"}]]
  <2> DEFINE Log == [1 .. MaxSequence ->
                       {"NONE", "STARTED", "DELIVERED", "FAILED", "INTERRUPTED"}]
  <2>1. \A e \in Events : log[e] \in Log
    BY DEF WebhookInvariant, DeliveredWasReceived, WebhookTypeOK
  <2>2. \A e \in Events : Interrupted(e) \in Log
    BY <2>1 DEF Interrupted
  <2>3. \A n : \A f \in Log : [f EXCEPT ![n] = "STARTED"] \in Log
    OBVIOUS
  <2> HIDE DEF Log
  <2>4. log' \in [Events -> Log]
    BY <1>1, <2>1, <2>2, <2>3
  <2>. QED  BY <2>4 DEF Log
<1>8. ASSUME NEW e \in Events
      PROVE  /\ DeliveryFollows(e) /\ DeliverySound(e)'
             /\ delivery'[e] # NULL /\ delivery'[e].status = "DELIVERED" =>
                   /\ delivery[e] # NULL /\ delivery[e].status = "DELIVERED"
                   /\ delivery'[e].config = delivery[e].config
  <2>1. CASE e \in chosen
    <3>1. delivery'[e] # NULL /\ delivery[e].sequence \in Nat /\ e \in emitted
      BY <1>4, <2>1, DeliveryFacts, WebhookNullAssumption
    <3>. QED  BY <1>4, <2>1, <3>1 DEF DeliveryFollows, DeliverySound
  <2>2. CASE e \notin chosen /\ delivery[e] = NULL
    BY <1>2, <2>2 DEF DeliveryFollows, DeliverySound
  <2>3. CASE e \notin chosen /\ delivery[e] # NULL
    <3> DEFINE s == Exhausted(Swept(e))
    <3>1. /\ delivery'[e] = s /\ s \in DeliveryRecords
          /\ s.config = delivery[e].config /\ s.sequence = delivery[e].sequence
          /\ s.attempts = delivery[e].attempts
          /\ s.status \in {"IN_FLIGHT", "DELIVERED"} => s = delivery[e]
      BY <1>2, <2>3, SweptRow
    <3> HIDE DEF s
    <3>2. delivery'[e] # NULL
      BY <3>1, WebhookNullAssumption
    <3>. QED  BY <2>3, <3>1, <3>2, DeliveryFacts DEF DeliveryFollows, DeliverySound
  <2>. QED  BY <2>1, <2>2, <2>3
<1>. QED  BY <1>4, <1>6, <1>7, <1>8

\* A pass of the dispatcher that claims nothing.
LEMMA IdleKeeps ==
  ASSUME WebhookInvariant, ClaimNone
  PROVE  WebhookInvariant'
<1>1. SweepDeliveries({}) /\ UNCHANGED <<configs, emitted, received, worker, retries, crashes>>
  BY DEF ClaimNone
<1>2. WebhookTypeOK'
  BY <1>1, SweepFacts DEF WebhookInvariant, DeliveredWasReceived, WebhookTypeOK
<1>. QED  BY <1>1, <1>2, SweepFacts, WorkersWait

\* A claim, with what it reads of the delivery it leases.
LEMMA ClaimKeeps ==
  ASSUME WebhookInvariant, NEW w \in Workers, NEW e \in Events, Claim(w, e)
  PROVE  WebhookInvariant'
<1> DEFINE claim == [event |-> e, config |-> delivery'[e].config, token |-> delivery'[e].token,
                     attempts |-> delivery'[e].attempts, phase |-> "CLAIMED", success |-> FALSE]
<1>1. /\ SweepDeliveries({e}) /\ worker[w] = NULL
      /\ worker' = [worker EXCEPT ![w] = claim]
      /\ UNCHANGED <<configs, emitted, received, retries, crashes>>
  BY DEF Claim
<1>2. /\ delivery' \in [Events -> DeliveryRecords \cup {NULL}]
      /\ log' \in [Events -> [1 .. MaxSequence ->
             {"NONE", "STARTED", "DELIVERED", "FAILED", "INTERRUPTED"}]]
      /\ \A f \in Events :
           /\ DeliveryFollows(f) /\ DeliverySound(f)'
           /\ delivery'[f] # NULL /\ delivery'[f].status = "DELIVERED" =>
                /\ delivery[f] # NULL /\ delivery[f].status = "DELIVERED"
                /\ delivery'[f].config = delivery[f].config
      /\ delivery'[e] \in DeliveryRecords
      /\ delivery'[e].token = delivery'[e].sequence
      /\ delivery'[e].sequence \in 1 .. MaxSequence
  BY <1>1, SweepFacts
<1>3. claim \in Claims
  BY <1>2 DEF Claims, DeliveryRecords
<1> HIDE DEF claim
<1>4. WebhookTypeOK'
  BY <1>1, <1>2, <1>3 DEF WebhookInvariant, DeliveredWasReceived, WebhookTypeOK
<1>5. worker'[w] = claim /\ \A v \in Workers \ {w} : worker'[v] = worker[v]
  BY <1>1, <1>3 DEF WebhookInvariant, DeliveredWasReceived, WebhookTypeOK
<1>6. ClaimSound(w)'
  <2>1. /\ claim.event = e /\ claim.config = delivery'[e].config
        /\ claim.token = delivery'[e].token /\ claim.success = FALSE
    BY DEF claim
  <2>2. delivery'[e] # NULL /\ delivery'[e].token \in 1 .. delivery'[e].sequence
    BY <1>2, WebhookNullAssumption, SMT
  <2>. QED  BY <1>5, <2>1, <2>2 DEF ClaimSound
<1>7. \A v \in Workers \ {w} : ClaimSound(v)'
  BY <1>1, <1>2, <1>5, ClaimKept
<1>8. DeliveredWasReceived'
  BY <1>1, <1>2, <1>4 DEF WebhookInvariant, DeliveredWasReceived
<1>. QED  BY <1>2, <1>6, <1>7, <1>8 DEF WebhookInvariant

\* A worker looks at the configuration or sends: the delivery is left alone.
LEMMA SendingKeeps ==
  ASSUME WebhookInvariant, NEW w \in Workers, CheckConfiguration(w) \/ Send(w)
  PROVE  WebhookInvariant'
<1>1. /\ worker[w] # NULL /\ worker[w] \in Claims /\ worker[w].event \in Events
      /\ WebhookTypeOK
      /\ UNCHANGED <<configs, emitted, delivery, log, retries, crashes>>
  BY WebhookAssumption
  DEF WebhookInvariant, DeliveredWasReceived, WebhookTypeOK, Claims, CheckConfiguration, Send
<1> DEFINE e == worker[w].event
<1>2. PICK c \in Claims :
        /\ worker' = [worker EXCEPT ![w] = c]
        /\ c.event = e /\ c.config = worker[w].config /\ c.token = worker[w].token
        /\ c.success => c.config \in received'[e]
        /\ received' \in [Events -> SUBSET Configs]
        /\ \A f \in Events : received[f] \subseteq received'[f]
  <2>1. CASE CheckConfiguration(w)
    <3> DEFINE phase == IF Enabled(worker[w].config) THEN "SENDING" ELSE "REPORTING"
               c == [worker[w] EXCEPT !.phase = phase]
    <3>1. c \in Claims /\ c.event = e /\ c.config = worker[w].config
          /\ c.token = worker[w].token /\ c.success = worker[w].success
      BY <1>1 DEF Claims
    <3>2. worker' = [worker EXCEPT ![w] = c] /\ UNCHANGED received
      BY <2>1 DEF CheckConfiguration
    <3>3. c.success => c.config \in received[e]
      BY <1>1, <3>1 DEF WebhookInvariant, ClaimSound
    <3> HIDE DEF c
    <3>. QED  BY <1>1, <3>1, <3>2, <3>3 DEF WebhookTypeOK
  <2>2. CASE Send(w)
    <3>1. PICK arrives \in BOOLEAN, answered \in BOOLEAN :
            /\ received' = IF arrives
                           THEN [received EXCEPT ![worker[w].event] = @ \cup {worker[w].config}]
                           ELSE received
            /\ worker' = [worker EXCEPT ![w].phase = "REPORTING",
                                        ![w].success = arrives /\ answered]
      BY <2>2 DEF Send
    <3> DEFINE c == [worker[w] EXCEPT !.phase = "REPORTING", !.success = arrives /\ answered]
    <3>2. c \in Claims /\ c.event = e /\ c.config = worker[w].config
          /\ c.token = worker[w].token /\ c.success = (arrives /\ answered)
      BY <1>1 DEF Claims
    <3>3. worker' = [worker EXCEPT ![w] = c]
      BY <1>1, <3>1 DEF WebhookTypeOK
    <3>4. /\ received' \in [Events -> SUBSET Configs]
          /\ \A f \in Events : received[f] \subseteq received'[f]
          /\ arrives => worker[w].config \in received'[e]
      BY <1>1, <3>1 DEF WebhookTypeOK, Claims
    <3> HIDE DEF c
    <3>. QED  BY <3>2, <3>3, <3>4
  <2>. QED  BY <2>1, <2>2
<1>3. WebhookTypeOK'
  BY <1>1, <1>2 DEF WebhookTypeOK
<1>4. \A f \in Events : DeliveryFollows(f) /\ DeliverySound(f)'
  BY <1>1, DeliveryFacts DEF DeliveryFollows, DeliverySound
<1>5. worker'[w] = c /\ \A v \in Workers \ {w} : worker'[v] = worker[v]
  BY <1>1, <1>2 DEF WebhookTypeOK
<1>6. ClaimSound(w)'
  <2>1. /\ delivery'[e] # NULL /\ c.token \in 1 .. delivery'[e].sequence
        /\ HoldsLease(w) => delivery[e].config = c.config
    BY <1>1, <1>2 DEF WebhookInvariant, ClaimSound
  <2>2. HoldsLease(w)' <=> HoldsLease(w)
    BY <1>1, <1>2, <1>5 DEF HoldsLease
  <2>. QED  BY <1>1, <1>2, <1>5, <2>1, <2>2 DEF ClaimSound
<1>7. \A v \in Workers \ {w} : ClaimSound(v)'
  BY <1>2, <1>3, <1>4, <1>5, ClaimKept DEF WebhookTypeOK
<1>8. DeliveredWasReceived'
  BY <1>1, <1>2, <1>3, DeliveryFacts DEF DeliveredWasReceived
<1>. QED  BY <1>4, <1>6, <1>7, <1>8 DEF WebhookInvariant

\* A worker that stops leaves its lease to run out.
LEMMA CrashKeeps ==
  ASSUME WebhookInvariant, NEW w \in Workers, Crash(w)
  PROVE  WebhookInvariant'
<1>1. /\ WebhookTypeOK
      /\ UNCHANGED <<configs, emitted, delivery, log, received, retries>>
      /\ \A v \in Workers : worker'[v] = worker[v] \/ worker'[v] = NULL
  BY DEF WebhookInvariant, DeliveredWasReceived, WebhookTypeOK, Crash
<1>2. WebhookTypeOK'
  BY <1>1, WebhookAssumption DEF WebhookTypeOK, Crash
<1>3. \A f \in Events : DeliveryFollows(f) /\ DeliverySound(f)'
  BY <1>1, DeliveryFacts DEF DeliveryFollows, DeliverySound
<1>4. \A v \in Workers : ClaimSound(v)'
  BY <1>1, <1>2, <1>3, ClaimKept DEF WebhookTypeOK
<1>5. DeliveredWasReceived'
  BY <1>1, <1>2, DeliveryFacts DEF DeliveredWasReceived
<1>. QED  BY <1>3, <1>4, <1>5 DEF WebhookInvariant

\* A report: only the claim that holds the lease settles the delivery, and then
\* the delivery still is of the configuration that the claim was sent to.
LEMMA ReportKeeps ==
  ASSUME WebhookInvariant, NEW w \in Workers, Report(w)
  PROVE  WebhookInvariant'
<1> DEFINE claim == worker[w]
           e == claim.event
           outcome == IF claim.success THEN "DELIVERED"
                      ELSE IF claim.attempts >= MaxAutomatic THEN "EXHAUSTED" ELSE "READY"
<1>1. /\ WebhookTypeOK /\ claim # NULL /\ claim \in Claims /\ e \in Events
      /\ claim.token \in 1 .. delivery[e].sequence /\ delivery[e] # NULL
      /\ HoldsLease(w) => delivery[e].config = claim.config
      /\ claim.success => claim.config \in received[e]
      /\ UNCHANGED <<configs, emitted, received, retries, crashes>>
      /\ worker' = [worker EXCEPT ![w] = NULL]
      /\ delivery' = IF HoldsLease(w)
                     THEN [delivery EXCEPT ![e].status = outcome, ![e].token = 0,
                                           ![e].expired = FALSE]
                     ELSE delivery
  BY DEF WebhookInvariant, DeliveredWasReceived, WebhookTypeOK, ClaimSound, Claims, Report
<1>2. \A v \in Workers : worker'[v] = worker[v] \/ worker'[v] = NULL
  BY <1>1 DEF WebhookTypeOK
<1>3. log' \in [Events -> [1 .. MaxSequence ->
         {"NONE", "STARTED", "DELIVERED", "FAILED", "INTERRUPTED"}]]
  <2> DEFINE V == {"NONE", "STARTED", "DELIVERED", "FAILED", "INTERRUPTED"}
             result == IF claim.success THEN "DELIVERED" ELSE "FAILED"
             entry == IF log[e][claim.token] # "STARTED" THEN log[e][claim.token] ELSE result
  <2>1. log \in [Events -> [1 .. MaxSequence -> V]] /\ result \in V
    BY <1>1 DEF WebhookTypeOK
  <2>2. log' = [log EXCEPT ![e] = [log[e] EXCEPT ![claim.token] = entry]]
    BY <1>1, <2>1 DEF Report
  <2>3. claim.token \in 1 .. MaxSequence => entry \in V
    BY <1>1, <2>1
  <2> HIDE DEF V, result, entry, claim, e
  <2>4. [log[e] EXCEPT ![claim.token] = entry] \in [1 .. MaxSequence -> V]
    BY <1>1, <2>1, <2>3
  <2>5. log' \in [Events -> [1 .. MaxSequence -> V]]
    BY <1>1, <2>1, <2>2, <2>4
  <2>. QED  BY <2>5 DEF V
<1> DEFINE d == [delivery[e] EXCEPT !.status = outcome, !.token = 0, !.expired = FALSE]
<1>4. /\ d \in DeliveryRecords /\ d.status = outcome
      /\ d.sequence = delivery[e].sequence /\ d.attempts = delivery[e].attempts
      /\ d.config = delivery[e].config
      /\ outcome # "IN_FLIGHT" /\ (outcome = "DELIVERED" <=> claim.success)
  <2>1. delivery[e] \in DeliveryRecords
    BY <1>1, DeliveryFacts
  <2>2. 0 \in Tokens
    <3>1. 0 \in 0 .. MaxRetries /\ 0 \in 0 .. MaxAutomatic /\ 0 \in Nat /\ 0 <= MaxAutomatic * 0 + 0
      BY WebhookAssumption
    <3>. QED  BY <3>1, SequenceBounds
  <2>3. outcome \in DeliveryStatuses /\ outcome # "IN_FLIGHT"
        /\ (outcome = "DELIVERED" <=> claim.success)
    BY DEF DeliveryStatuses
  <2> HIDE DEF outcome, claim, e
  <2>. QED  BY <2>1, <2>2, <2>3 DEF DeliveryRecords
<1>5. delivery' = IF HoldsLease(w) THEN [delivery EXCEPT ![e] = d] ELSE delivery
  BY <1>1 DEF WebhookTypeOK
<1> HIDE DEF d, outcome
<1>6. /\ \A f \in Events \ {e} : delivery'[f] = delivery[f]
      /\ delivery'[e] = IF HoldsLease(w) THEN d ELSE delivery[e]
      /\ delivery' \in [Events -> DeliveryRecords \cup {NULL}]
  BY <1>1, <1>4, <1>5 DEF WebhookTypeOK
<1>7. WebhookTypeOK'
  BY <1>1, <1>3, <1>6 DEF WebhookTypeOK
<1>8. ASSUME NEW f \in Events
      PROVE  /\ DeliveryFollows(f) /\ DeliverySound(f)'
             /\ delivery'[f] # NULL /\ delivery'[f].status = "DELIVERED"
                  => delivery'[f].config \in received'[f]
  <2>. UNCHANGED <<emitted, received, retries>>
    BY <1>1
  <2>1. CASE delivery'[f] = delivery[f]
    BY <2>1, DeliveryFacts DEF DeliveryFollows, DeliverySound
  <2>2. CASE f = e /\ HoldsLease(w)
    <3>1. delivery'[f] = d /\ d # NULL
      BY <1>4, <1>6, <2>2, WebhookNullAssumption
    <3>2. /\ delivery'[f].sequence = delivery[f].sequence
          /\ delivery'[f].attempts = delivery[f].attempts
          /\ delivery'[f].status # "IN_FLIGHT" /\ delivery[f] # NULL
      BY <1>1, <1>4, <2>2, <3>1
    <3>3. DeliveryFollows(f)
      BY <3>1, <3>2, DeliveryFacts DEF DeliveryFollows
    <3>4. DeliverySound(f)'
      BY <3>2, DeliveryFacts, Zenon DEF DeliverySound
    <3>. QED  BY <1>1, <1>4, <2>2, <3>1, <3>3, <3>4
  <2>. QED  BY <1>6, <2>1, <2>2
<1>9. \A v \in Workers : ClaimSound(v)'
  BY <1>1, <1>2, <1>6, <1>8, ClaimKept
<1>. QED  BY <1>7, <1>8, <1>9 DEF WebhookInvariant, DeliveredWasReceived

\* The inductive invariant of the outbox: a lease carries the number of the
\* latest claim, and who holds an older one is never mistaken for its holder.
THEOREM WebhookInvariantHolds == WebhookSpec => []WebhookInvariant
<1>1. ASSUME WebhookInvariant, [WebhookNext]_webhookVars
      PROVE  WebhookInvariant'
  <2>1. WebhookTypeOK
    BY <1>1 DEF WebhookInvariant, DeliveredWasReceived
  <2>2. ASSUME NEW c \in Configs, ConfigurePaymentWebhook(c)
        PROVE  WebhookInvariant'
    <3>1. configs' \in [Configs -> {"NONE", "ENABLED", "DISABLED"}]
      BY <2>1, <2>2 DEF ConfigurePaymentWebhook, Disable, WebhookTypeOK
    <3>. QED  BY <1>1, <2>2, <3>1, ParkingKeeps DEF ConfigurePaymentWebhook
  <2>3. ASSUME DisablePaymentWebhook
        PROVE  WebhookInvariant'
    <3>1. configs' \in [Configs -> {"NONE", "ENABLED", "DISABLED"}]
      BY <2>1, <2>3 DEF DisablePaymentWebhook, Disable, WebhookTypeOK
    <3>. QED  BY <1>1, <2>3, <3>1, ParkingKeeps DEF DisablePaymentWebhook
  <2>4. CASE UNCHANGED webhookVars
    BY <1>1, <2>4
    DEF webhookVars, WebhookInvariant, DeliveredWasReceived, WebhookTypeOK, DeliverySound,
        ClaimSound, HoldsLease
  <2>. QED
    BY <1>1, <2>2, <2>3, <2>4, EmitKeeps, RetryKeeps, ExpiryKeeps, SendingKeeps, ReportKeeps,
       CrashKeeps, ClaimKeeps, IdleKeeps
    DEF WebhookNext, Deliver
<1>. QED  BY <1>1, WebhookInitially, PTL DEF WebhookSpec

\* A notification shown as delivered did reach the receiver of the configuration
\* that it is recorded with, for any number of dispatchers, leases that run out,
\* retries by hand, replaced configurations and crashes.
THEOREM DeliveredIsReceived == WebhookSpec => []DeliveredWasReceived
<1>1. WebhookInvariant => DeliveredWasReceived
  BY DEF WebhookInvariant
<1>. QED  BY <1>1, WebhookInvariantHolds, PTL

=============================================================================
