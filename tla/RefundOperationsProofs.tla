----------------------- MODULE RefundOperationsProofs -----------------------
(***************************************************************************)
(* Theorems about RefundOperations and about the monitor of the overdrafts *)
(* that refunds and payouts leave, VendorOverdraft: instructions and the   *)
(* ledger agree, outcomes are final, suspensions are justified when they   *)
(* happen, and every step is a step of the ledger, for every number of     *)
(* operators, instructions, runs of the monitor, keys and amounts.         *)
(***************************************************************************)
EXTENDS RefundOperations, VendorOverdraft, WalletLedgerProofs

\* Only sales and refunds are posted here, each completed at once.
RowsCompleted == \A i \in TxIds : wtx[i] # NULL => wtx[i].status = "COMPLETED"

\* An instruction refunds a spend, and its key names it in the spend's wallet.
SpendsKnown == \A f \in OpIds : Registered(f) => IsSpend(op[f].spend)

KeysDistinct ==
  \A f, g \in OpIds :
    (/\ Registered(f) /\ Registered(g)
     /\ Wallet(op[f].spend) = Wallet(op[g].spend)
     /\ op[f].key = op[g].key) => f = g

\* What a completed instruction says of the refund it names.
RefundNamed(f) ==
  /\ op[f].refund \in TxIds
  /\ wtx[op[f].refund] # NULL
  /\ wtx[op[f].refund].type = "REFUND"
  /\ SameTerms(op[f].refund, op[f].spend, op[f].amount)
  /\ wtx[op[f].refund].key = op[f].key

OutcomesNamed ==
  \A f \in OpIds : Registered(f) =>
    IF op[f].status = "COMPLETED" THEN RefundNamed(f) ELSE op[f].refund = NULL

ResolvedUnposted ==
  \A f \in OpIds : Registered(f) => ResolvedWithoutRefund(f)

PendingOnce == \A f \in OpIds : OnlyPending(f)

RefundsNamed ==
  \A i \in TxIds : wtx[i] # NULL /\ wtx[i].type = "REFUND" =>
    \/ i \in legacyRefunds
    \/ \E f \in OpIds : Registered(f) /\ op[f].refund = i

OperationInvariant ==
  /\ LedgerTypeOK
  /\ OperationTypeOK
  /\ RowsCompleted
  /\ SpendsKnown
  /\ KeysDistinct
  /\ OutcomesNamed
  /\ ResolvedUnposted
  /\ PendingOnce
  /\ RefundsNamed

\* The identifier of a row is not NULL.
LEMMA RowsNamed == \A i \in TxIds : i # NULL
<1>1. TxIds \subseteq Int /\ NULL \notin Int
  BY ValuesAssumption
<1>. QED  BY <1>1

-----------------------------------------------------------------------------
(* What a step keeps. *)

\* Rows of the ledger stay as they are.
RowsKept == \A i \in TxIds : wtx[i] # NULL => wtx'[i] = wtx[i]

\* Resolving changes the outcome of one instruction and nothing else.
LEMMA ResolveFacts ==
  ASSUME OperationTypeOK, NEW f \in OpIds, Registered(f),
         NEW status \in OperationStatuses, NEW refund \in TxIds \cup {NULL},
         NEW rejection \in RejectionCodes \cup {NULL},
         Resolve(f, status, refund, rejection)
  PROVE  /\ op' \in [OpIds -> RefundOperationRecords \cup {NULL}]
         /\ Registered(f)'
         /\ op'[f].operator = op[f].operator /\ op'[f].spend = op[f].spend
         /\ op'[f].amount = op[f].amount /\ op'[f].key = op[f].key
         /\ op'[f].status = status /\ op'[f].refund = refund
         /\ \A g \in OpIds : g # f => op'[g] = op[g]
<1>1. op[f] \in RefundOperationRecords
  BY DEF OperationTypeOK, Registered
<1>2. PICK r : r = [op[f] EXCEPT !.status = status, !.refund = refund, !.rejection = rejection]
  OBVIOUS
<1>3. r \in RefundOperationRecords
  BY <1>1, <1>2 DEF RefundOperationRecords
<1>4. /\ r.operator = op[f].operator /\ r.spend = op[f].spend
      /\ r.amount = op[f].amount /\ r.key = op[f].key
      /\ r.status = status /\ r.refund = refund /\ r.rejection = rejection
  BY <1>1, <1>2 DEF RefundOperationRecords
<1>5. op' = [op EXCEPT ![f] = r]
  BY <1>1, <1>2 DEF Resolve, OperationTypeOK, RefundOperationRecords
<1>6. op'[f] = r /\ op' \in [OpIds -> RefundOperationRecords \cup {NULL}]
  BY <1>3, <1>5 DEF OperationTypeOK
<1>7. \A g \in OpIds : g # f => op'[g] = op[g]
  BY <1>5 DEF OperationTypeOK
<1>8. Registered(f)'
  BY <1>3, <1>6, OperationsNullAssumption DEF Registered
<1>. QED  BY <1>4, <1>6, <1>7, <1>8

\* Resolving keeps the terms of the instruction.
LEMMA ResolveKeepsTerms ==
  ASSUME OperationTypeOK, NEW f \in OpIds, Registered(f),
         NEW status \in OperationStatuses, NEW refund \in TxIds \cup {NULL},
         NEW rejection \in RejectionCodes \cup {NULL},
         Resolve(f, status, refund, rejection)
  PROVE  op'[f] = [op[f] EXCEPT !.status = op'[f].status, !.refund = op'[f].refund,
                                !.rejection = op'[f].rejection]
<1>1. op[f] \in RefundOperationRecords
  BY DEF OperationTypeOK, Registered
<1>2. PICK r : r = [op[f] EXCEPT !.status = status, !.refund = refund, !.rejection = rejection]
  OBVIOUS
<1>3. r.status = status /\ r.refund = refund /\ r.rejection = rejection
  BY <1>1, <1>2 DEF RefundOperationRecords
<1>4. op'[f] = r
  BY <1>1, <1>2 DEF Resolve, OperationTypeOK, RefundOperationRecords
<1>5. r = [op[f] EXCEPT !.status = r.status, !.refund = r.refund, !.rejection = r.rejection]
  BY <1>2, <1>3
<1>. QED  BY <1>4, <1>5

\* Terms of a registered instruction.
LEMMA TermsTyped ==
  ASSUME OperationTypeOK, NEW f \in OpIds, Registered(f)
  PROVE  /\ op[f].spend \in TxIds /\ op[f].amount \in Amounts /\ op[f].key \in Keys
         /\ op[f].refund \in TxIds \cup {NULL} /\ op[f].status \in OperationStatuses
         /\ op[f].operator \in Operators
<1>1. op[f] \in RefundOperationRecords
  BY DEF OperationTypeOK, Registered
<1>. QED  BY <1>1 DEF RefundOperationRecords

\* The ledger holds what is posted under a key exactly where posting looks.
LEMMA PostedExists ==
  ASSUME NEW spend, NEW amount, NEW key
  PROVE  Existing(RefundPosting(spend, amount, key)) = PostedUnder(spend, key)
<1>1. /\ RefundPosting(spend, amount, key).type = "REFUND"
      /\ RefundPosting(spend, amount, key).key = key
      /\ Initiator(RefundPosting(spend, amount, key)) = Wallet(spend)
  BY DEF RefundPosting, Initiator, TopupTypes, Wallet
<1>2. \A i \in TxIds : wtx[i].type = "REFUND" => Initiator(wtx[i]) = wtx[i].debit
  BY DEF Initiator, TopupTypes
<1>. HIDE DEF RefundPosting
<1>. QED  BY <1>1, <1>2 DEF Existing, PostedUnder

\* Wallets, spends and named refunds stay what they are while rows are kept.
LEMMA KeptFacts ==
  ASSUME OperationInvariant, RowsKept, RowsCompleted'
  PROVE  /\ \A i \in TxIds : wtx[i] # NULL => wtx'[i] = wtx[i] /\ wtx'[i] # NULL
         /\ \A f \in OpIds : Registered(f) =>
              /\ op[f].spend \in TxIds /\ IsSpend(op[f].spend)
              /\ wtx[op[f].spend] # NULL
              /\ wtx'[op[f].spend] = wtx[op[f].spend]
         /\ \A i \in TxIds : IsSpend(i) => IsSpend(i)'
<1>1. \A i \in TxIds : wtx[i] # NULL => wtx'[i] = wtx[i] /\ wtx'[i] # NULL
  BY DEF RowsKept
<1>2. ASSUME NEW f \in OpIds, Registered(f)
      PROVE  op[f].spend \in TxIds /\ IsSpend(op[f].spend) /\ wtx[op[f].spend] # NULL
  BY <1>2, TermsTyped DEF OperationInvariant, SpendsKnown, IsSpend, Completed
<1>3. \A i \in TxIds : IsSpend(i) => IsSpend(i)'
  BY <1>1 DEF IsSpend, Completed
<1>. QED  BY <1>1, <1>2, <1>3

\* Movements of the ledger beside the instructions: the refunds among them are
\* those of the old release.
LEMMA LedgerMoves ==
  ASSUME OperationInvariant, LedgerTypeOK', OperationTypeOK', RowsKept, RowsCompleted',
         op' = op, legacyRefunds \subseteq legacyRefunds',
         \A i \in TxIds : wtx[i] = NULL /\ wtx'[i] # NULL /\ wtx'[i].type = "REFUND"
                            => i \in legacyRefunds'
  PROVE  OperationInvariant'
<1>. OperationTypeOK
  BY DEF OperationInvariant
<1>1. SpendsKnown'
  BY KeptFacts DEF SpendsKnown, Registered
<1>2. KeysDistinct'
  <2>1. \A f \in OpIds : Registered(f) => wtx'[op[f].spend].credit = wtx[op[f].spend].credit
    BY KeptFacts
  <2>2. KeysDistinct
    BY DEF OperationInvariant
  <2>. QED  BY <2>1, <2>2 DEF KeysDistinct, Registered, Wallet
<1>3. OutcomesNamed'
  <2>1. OutcomesNamed
    BY DEF OperationInvariant
  <2>. QED  BY <2>1, KeptFacts DEF OutcomesNamed, RefundNamed, Registered, SameTerms
<1>4. ResolvedUnposted'
  <2>1. SUFFICES ASSUME NEW f \in OpIds, Registered(f), op[f].status \in {"CANCELLED", "REJECTED"},
                        NEW i \in TxIds, wtx'[i] # NULL, wtx'[i].type = "REFUND",
                        wtx'[i].debit = wtx'[op[f].spend].credit, wtx'[i].key = op[f].key
                 PROVE  i \in legacyRefunds'
    BY DEF ResolvedUnposted, ResolvedWithoutRefund, Registered, Posted, PostedUnder, Wallet
  <2>2. CASE wtx[i] = NULL
    BY <2>1, <2>2
  <2>3. CASE wtx[i] # NULL
    <3>1. i \in Posted(f)
      BY <2>1, <2>3, KeptFacts DEF Posted, PostedUnder, Wallet
    <3>. QED  BY <2>1, <3>1 DEF OperationInvariant, ResolvedUnposted, ResolvedWithoutRefund
  <2>. QED  BY <2>2, <2>3
<1>5. PendingOnce'
  <2>1. \A f \in OpIds : Registered(f) => wtx'[op[f].spend].credit = wtx[op[f].spend].credit
    BY KeptFacts
  <2>2. PendingOnce
    BY DEF OperationInvariant
  <2>. QED  BY <2>1, <2>2 DEF PendingOnce, OnlyPending, Pending, Registered, Wallet
<1>6. RefundsNamed'
  <2>1. RefundsNamed
    BY DEF OperationInvariant
  <2>. QED  BY <2>1, KeptFacts DEF RefundsNamed, Registered
<1>. QED  BY <1>1, <1>2, <1>3, <1>4, <1>5, <1>6 DEF OperationInvariant

\* An instruction is resolved: completed with the refund of its terms, the only
\* row that may be new, or closed while nothing is posted under its key.
LEMMA OutcomeRecorded ==
  ASSUME OperationInvariant, LedgerTypeOK', RowsKept, RowsCompleted',
         UNCHANGED <<oldRelease, legacyRefunds>>,
         NEW f \in OpIds, Pending(f),
         NEW status \in OperationStatuses \ {"PENDING"}, NEW refund \in TxIds \cup {NULL},
         NEW rejection \in RejectionCodes \cup {NULL},
         Resolve(f, status, refund, rejection),
         IF status = "COMPLETED"
         THEN /\ refund \in TxIds /\ wtx'[refund] # NULL /\ wtx'[refund].type = "REFUND"
              /\ wtx'[refund].linked = op[f].spend /\ wtx'[refund].amount = op[f].amount
              /\ wtx'[refund].key = op[f].key
              /\ wtx'[refund].debit = Wallet(op[f].spend)
              /\ \A i \in TxIds : wtx[i] = NULL /\ wtx'[i] # NULL => i = refund
         ELSE refund = NULL /\ Posted(f) = {} /\ wtx' = wtx
  PROVE  OperationInvariant'
<1>. OperationTypeOK /\ Registered(f)
  BY DEF OperationInvariant, Pending
<1>0. /\ op' \in [OpIds -> RefundOperationRecords \cup {NULL}]
      /\ Registered(f)'
      /\ op'[f].operator = op[f].operator /\ op'[f].spend = op[f].spend
      /\ op'[f].amount = op[f].amount /\ op'[f].key = op[f].key
      /\ op'[f].status = status /\ op'[f].refund = refund
      /\ \A g \in OpIds : g # f => op'[g] = op[g]
  <2>1. status \in OperationStatuses
    OBVIOUS
  <2>. QED  BY <2>1, ResolveFacts
<1>1. \A g \in OpIds : /\ Registered(g)' <=> Registered(g)
                       /\ Registered(g) => /\ op'[g].spend = op[g].spend
                                           /\ op'[g].key = op[g].key
                                           /\ op'[g].operator = op[g].operator
  BY <1>0 DEF Registered
<1>2. \A g \in OpIds : Registered(g) => /\ wtx'[op[g].spend] = wtx[op[g].spend]
                                        /\ op[g].spend \in TxIds /\ IsSpend(op[g].spend)
  BY KeptFacts
<1>3. OperationTypeOK'
  BY <1>0 DEF OperationTypeOK
<1>4. SpendsKnown'
  <2>1. ASSUME NEW g \in OpIds, Registered(g)
        PROVE  wtx'[op'[g].spend] # NULL /\ wtx'[op'[g].spend].status = "COMPLETED"
                 /\ wtx'[op'[g].spend].type = "SPEND"
    BY <1>1, <1>2, <2>1 DEF IsSpend, Completed
  <2>. QED  BY <1>1, <2>1 DEF SpendsKnown, IsSpend, Completed
<1>5. KeysDistinct'
  <2>1. KeysDistinct
    BY DEF OperationInvariant
  <2>. QED  BY <1>1, <1>2, <2>1 DEF KeysDistinct, Wallet
<1>6. OutcomesNamed'
  <2>1. OutcomesNamed
    BY DEF OperationInvariant
  <2>2. ASSUME NEW g \in OpIds, Registered(g), g # f
        PROVE  IF op'[g].status = "COMPLETED" THEN RefundNamed(g)' ELSE op'[g].refund = NULL
    BY <1>0, <2>1, <2>2, KeptFacts DEF OutcomesNamed, RefundNamed, SameTerms
  <2>3. IF op'[f].status = "COMPLETED" THEN RefundNamed(f)' ELSE op'[f].refund = NULL
    BY <1>0 DEF RefundNamed, SameTerms
  <2>. QED  BY <1>1, <2>2, <2>3 DEF OutcomesNamed
<1>7. ResolvedUnposted'
  <2>1. SUFFICES ASSUME NEW g \in OpIds, Registered(g), op'[g].status \in {"CANCELLED", "REJECTED"},
                        NEW i \in TxIds, wtx'[i] # NULL, wtx'[i].type = "REFUND",
                        wtx'[i].debit = wtx'[op'[g].spend].credit, wtx'[i].key = op'[g].key
                 PROVE  i \in legacyRefunds
    BY <1>1 DEF ResolvedUnposted, ResolvedWithoutRefund, Posted, PostedUnder, Wallet
  <2>2. wtx'[i].debit = wtx[op[g].spend].credit /\ wtx'[i].key = op[g].key
    BY <1>1, <1>2, <2>1
  <2>3. CASE wtx[i] # NULL
    <3>1. i \in Posted(g)
      BY <2>1, <2>2, <2>3, KeptFacts DEF Posted, PostedUnder, Wallet
    <3>2. g # f
      BY <1>0, <2>1, <3>1
    <3>. QED
      BY <1>0, <2>1, <3>1, <3>2 DEF OperationInvariant, ResolvedUnposted, ResolvedWithoutRefund
  <2>4. CASE wtx[i] = NULL
    <3>1. status = "COMPLETED" /\ i = refund
      BY <2>1, <2>4
    <3>2. g = f
      BY <2>1, <2>2, <3>1 DEF OperationInvariant, KeysDistinct, Wallet
    <3>. QED  BY <1>0, <2>1, <3>1, <3>2
  <2>. QED  BY <2>3, <2>4
<1>8. PendingOnce'
  <2>1. PendingOnce
    BY DEF OperationInvariant
  <2>2. \A g \in OpIds : Pending(g)' => g # f /\ Pending(g)
    BY <1>0 DEF Pending, Registered
  <2>. QED  BY <1>1, <1>2, <2>1, <2>2 DEF PendingOnce, OnlyPending, Pending, Wallet
<1>9. RefundsNamed'
  <2>1. SUFFICES ASSUME NEW i \in TxIds, wtx'[i] # NULL, wtx'[i].type = "REFUND",
                        i \notin legacyRefunds
                 PROVE  \E g \in OpIds : Registered(g)' /\ op'[g].refund = i
    BY DEF RefundsNamed
  <2>2. CASE wtx[i] = NULL
    <3>1. status = "COMPLETED" /\ i = refund
      BY <2>1, <2>2
    <3>. QED  BY <1>0, <3>1
  <2>3. CASE wtx[i] # NULL
    <3>1. PICK g \in OpIds : Registered(g) /\ op[g].refund = i
      BY <2>1, <2>3, KeptFacts DEF OperationInvariant, RefundsNamed
    <3>2. op[f].refund = NULL
      BY DEF OperationInvariant, OutcomesNamed, Pending
    <3>3. i # NULL
      BY ValuesAssumption
    <3>. QED  BY <1>0, <1>1, <3>1, <3>2, <3>3
  <2>. QED  BY <2>2, <2>3
<1>. QED
  BY <1>3, <1>4, <1>5, <1>6, <1>7, <1>8, <1>9 DEF OperationInvariant

-----------------------------------------------------------------------------
(* The handlers. *)

\* Every step is a step of the ledger or leaves the ledger alone.
LEMMA LedgerImplemented ==
  ASSUME OperationInvariant, [Next]_vars
  PROVE  [LedgerNext]_ledgerVars
<1>1. ASSUME NEW f \in OpIds, NEW id \in TxIds, ExecuteRefund(f, id)
      PROVE  [LedgerNext]_ledgerVars
  <2>1. /\ op[f].spend \in TxIds /\ op[f].amount \in Amounts /\ op[f].key \in Keys
        /\ IsSpend(op[f].spend)
    BY <1>1, TermsTyped DEF OperationInvariant, SpendsKnown, ExecuteRefund, Pending
  <2>2. PICK t : t = RefundPosting(op[f].spend, op[f].amount, op[f].key)
    OBVIOUS
  <2>3. PostOnce(id, t) /\ UNCHANGED <<settingsVars, now>>
    BY <1>1, <2>2 DEF ExecuteRefund
  <2>4. CASE Existing(t) = {}
    <3>1. Post(id, t)
      BY <2>3, <2>4 DEF PostOnce
    <3>2. PostRefund(id, op[f].spend, op[f].amount, op[f].key)
      BY <2>1, <2>2, <2>3, <3>1 DEF PostRefund
    <3>. QED  BY <2>1, <3>2 DEF LedgerNext
  <2>5. CASE Existing(t) # {}
    BY <2>3, <2>5 DEF PostOnce, ledgerVars, settingsVars
  <2>. QED  BY <2>4, <2>5
<1>2. ASSUME NEW id \in TxIds, NEW spend \in TxIds, NEW a \in Amounts, NEW k \in Keys,
             LegacyRefund(id, spend, a, k)
      PROVE  [LedgerNext]_ledgerVars
  BY <1>2 DEF LegacyRefund, LedgerNext
<1>3. CASE LedgerEnvironment
  BY <1>3 DEF LedgerEnvironment, LedgerNext, ChangeSettings
<1>4. ASSUME UNCHANGED ledgerVars
      PROVE  [LedgerNext]_ledgerVars
  BY <1>4
<1>5. CASE UNCHANGED vars
  BY <1>5 DEF vars
<1>. QED
  BY <1>1, <1>2, <1>3, <1>4, <1>5
  DEF Next, RegisterRefund, RejectRefund, CancelRefund, RetireOldRelease

\* A posting adds one completed row.
LEMMA RowPosted ==
  ASSUME LedgerTypeOK, RowsCompleted, NEW id \in TxIds, NEW t \in WalletTransactions,
         t.status = "COMPLETED", Post(id, t)
  PROVE  /\ RowsKept /\ RowsCompleted'
         /\ wtx'[id] = t /\ wtx'[id] # NULL
         /\ \A i \in TxIds : wtx[i] = NULL /\ wtx'[i] # NULL => i = id
<1>1. wtx[id] = NULL /\ wtx' = [wtx EXCEPT ![id] = t] /\ t # NULL
  BY PostFacts, TransactionFields
<1>2. \A i \in TxIds : wtx'[i] = IF i = id THEN t ELSE wtx[i]
  BY <1>1 DEF LedgerTypeOK
<1>. QED  BY <1>1, <1>2 DEF RowsKept, RowsCompleted

\* Execution posts the refund of the terms, or finds it posted.
LEMMA ExecutionKeeps ==
  ASSUME OperationInvariant, LedgerTypeOK', NEW f \in OpIds, NEW id \in TxIds,
         ExecuteRefund(f, id)
  PROVE  OperationInvariant'
<1>. LedgerTypeOK /\ OperationTypeOK /\ RowsCompleted
  BY DEF OperationInvariant
<1>1. /\ Pending(f) /\ op[f].spend \in TxIds /\ op[f].amount \in Amounts /\ op[f].key \in Keys
      /\ IsSpend(op[f].spend)
  BY TermsTyped DEF OperationInvariant, SpendsKnown, ExecuteRefund, Pending
<1>2. PICK t : t = RefundPosting(op[f].spend, op[f].amount, op[f].key)
  OBVIOUS
<1>3. /\ PostOnce(id, t) /\ TermsAgree(f) /\ Resolve(f, "COMPLETED", id, NULL)
      /\ UNCHANGED <<oldRelease, legacyRefunds>>
  BY <1>2 DEF ExecuteRefund
<1>4. /\ t \in WalletTransactions /\ t.status = "COMPLETED"
      /\ t.type = "REFUND" /\ t.linked = op[f].spend /\ t.amount = op[f].amount
      /\ t.key = op[f].key /\ t.debit = Wallet(op[f].spend)
  <2>1. t \in WalletTransactions
    BY <1>1, <1>2, PostingsTyped
  <2>. QED  BY <1>2, <2>1 DEF RefundPosting, Wallet
<1>5. /\ RowsKept /\ RowsCompleted'
      /\ wtx'[id] # NULL /\ wtx'[id].type = "REFUND"
      /\ wtx'[id].linked = op[f].spend /\ wtx'[id].amount = op[f].amount
      /\ wtx'[id].key = op[f].key /\ wtx'[id].debit = Wallet(op[f].spend)
      /\ \A i \in TxIds : wtx[i] = NULL /\ wtx'[i] # NULL => i = id
  <2>1. CASE Existing(t) = {}
    <3>1. Post(id, t)
      BY <1>3, <2>1 DEF PostOnce
    <3>. QED  BY <1>4, <3>1, RowPosted
  <2>2. CASE Existing(t) # {}
    <3>1. id \in Posted(f) /\ UNCHANGED wtx
      BY <1>2, <1>3, <2>2, PostedExists DEF PostOnce, Posted
    <3>2. wtx[id].linked = op[f].spend /\ wtx[id].amount = op[f].amount
      BY <1>3, <3>1 DEF TermsAgree, SameTerms
    <3>. QED  BY <3>1, <3>2 DEF Posted, PostedUnder, RowsKept, RowsCompleted
  <2>. QED  BY <2>1, <2>2
<1>6. /\ "COMPLETED" \in OperationStatuses \ {"PENDING"}
      /\ id \in TxIds \cup {NULL} /\ NULL \in RejectionCodes \cup {NULL}
  BY DEF OperationStatuses
<1>. QED  BY <1>1, <1>3, <1>5, <1>6, OutcomeRecorded

\* A recorded refusal writes nothing else.
LEMMA RejectionKeeps ==
  ASSUME OperationInvariant, LedgerTypeOK', NEW f \in OpIds, RejectRefund(f)
  PROVE  OperationInvariant'
<1>1. PICK answer \in RejectionCodes : Resolve(f, "REJECTED", NULL, answer)
  BY DEF RejectRefund
<1>2. /\ Pending(f) /\ Posted(f) = {} /\ wtx' = wtx
      /\ UNCHANGED <<oldRelease, legacyRefunds>>
  BY DEF RejectRefund, ledgerVars
<1>3. RowsKept /\ RowsCompleted'
  BY <1>2 DEF RowsKept, RowsCompleted, OperationInvariant
<1>4. /\ "REJECTED" \in OperationStatuses \ {"PENDING"}
      /\ NULL \in TxIds \cup {NULL} /\ answer \in RejectionCodes \cup {NULL}
  BY DEF OperationStatuses
<1>. QED  BY <1>1, <1>2, <1>3, <1>4, OutcomeRecorded

\* A cancellation closes the instruction, or returns the refund found posted.
LEMMA CancellationKeeps ==
  ASSUME OperationInvariant, LedgerTypeOK', NEW f \in OpIds, CancelRefund(f)
  PROVE  OperationInvariant'
<1>1. Pending(f) /\ TermsAgree(f) /\ wtx' = wtx /\ UNCHANGED <<oldRelease, legacyRefunds>>
  BY DEF CancelRefund, ledgerVars
<1>2. RowsKept /\ RowsCompleted'
  BY <1>1 DEF RowsKept, RowsCompleted, OperationInvariant
<1>3. CASE Posted(f) = {}
  <2>1. Resolve(f, "CANCELLED", NULL, NULL)
    BY <1>3 DEF CancelRefund
  <2>2. /\ "CANCELLED" \in OperationStatuses \ {"PENDING"}
        /\ NULL \in TxIds \cup {NULL} /\ NULL \in RejectionCodes \cup {NULL}
    BY DEF OperationStatuses
  <2>. QED  BY <1>1, <1>2, <1>3, <2>1, <2>2, OutcomeRecorded
<1>4. ASSUME NEW i \in Posted(f), Resolve(f, "COMPLETED", i, NULL)
      PROVE  OperationInvariant'
  <2>1. /\ i \in TxIds /\ wtx[i] # NULL /\ wtx[i].type = "REFUND"
        /\ wtx[i].debit = Wallet(op[f].spend) /\ wtx[i].key = op[f].key
    BY <1>4 DEF Posted, PostedUnder
  <2>2. wtx[i].linked = op[f].spend /\ wtx[i].amount = op[f].amount
    BY <1>1, <1>4 DEF TermsAgree, SameTerms
  <2>3. /\ "COMPLETED" \in OperationStatuses \ {"PENDING"}
        /\ i \in TxIds \cup {NULL} /\ NULL \in RejectionCodes \cup {NULL}
    BY <2>1 DEF OperationStatuses
  <2>. QED  BY <1>1, <1>2, <1>4, <2>1, <2>2, <2>3, OutcomeRecorded
<1>. QED  BY <1>3, <1>4 DEF CancelRefund

\* Registration stores pending terms under a fresh key, or adopts the refund
\* posted under the key.
LEMMA RegistrationKeeps ==
  ASSUME OperationInvariant, LedgerTypeOK', NEW f \in OpIds, NEW o \in Operators,
         NEW spend \in TxIds, NEW amount \in Amounts, NEW key \in Keys,
         RegisterRefund(f, o, spend, amount, key)
  PROVE  OperationInvariant'
<1>. OperationTypeOK /\ LedgerTypeOK
  BY DEF OperationInvariant
<1>1. PICK legacy : legacy = PostedUnder(spend, key)
  OBVIOUS
<1>2. PICK adopted : adopted = IF legacy = {} THEN NULL ELSE CHOOSE i \in legacy : TRUE
  OBVIOUS
<1>3. PICK status : status = IF legacy = {} THEN "PENDING" ELSE "COMPLETED"
  OBVIOUS
<1>4. PICK r : r = [operator |-> o, spend |-> spend, amount |-> amount, key |-> key,
                    status |-> status, refund |-> adopted, rejection |-> NULL]
  OBVIOUS
<1>5. /\ op[f] = NULL /\ IsSpend(spend) /\ op' = [op EXCEPT ![f] = r]
      /\ UNCHANGED <<wtx, oldRelease, legacyRefunds>>
      /\ \A i \in legacy : SameTerms(i, spend, amount)
  BY <1>1, <1>2, <1>3, <1>4 DEF RegisterRefund, ledgerVars
<1>6. \A g \in OpIds : Registered(g) =>
        ~ (Wallet(op[g].spend) = Wallet(spend) /\ op[g].key = key)
  BY DEF RegisterRefund
<1>7. legacy = {} =>
        \A g \in OpIds : Pending(g) =>
          ~ (Wallet(op[g].spend) = Wallet(spend) /\ op[g].operator = o)
  BY <1>1 DEF RegisterRefund
<1>8. adopted \in TxIds \cup {NULL} /\ status \in OperationStatuses
  BY <1>1, <1>2, <1>3 DEF PostedUnder, OperationStatuses
<1>9. r \in RefundOperationRecords
  BY <1>4, <1>8 DEF RefundOperationRecords
<1>10. /\ r.operator = o /\ r.spend = spend /\ r.amount = amount /\ r.key = key
       /\ r.status = status /\ r.refund = adopted /\ r # NULL
  BY <1>4, <1>9, OperationsNullAssumption
<1>11. /\ op'[f] = r /\ op' \in [OpIds -> RefundOperationRecords \cup {NULL}]
       /\ \A g \in OpIds : g # f => op'[g] = op[g]
  BY <1>5, <1>9 DEF OperationTypeOK
<1>12. ~ Registered(f) /\ Registered(f)'
  BY <1>5, <1>10, <1>11 DEF Registered
<1>13. \A g \in OpIds : g # f => (Registered(g)' <=> Registered(g))
  BY <1>11 DEF Registered
<1>14. OperationTypeOK'
  BY <1>5, <1>11 DEF OperationTypeOK
<1>15. RowsCompleted'
  BY <1>5 DEF OperationInvariant, RowsCompleted
<1>16. SpendsKnown'
  <2>1. SpendsKnown
    BY DEF OperationInvariant
  <2>2. \A i : IsSpend(i) => wtx'[i] # NULL /\ wtx'[i].status = "COMPLETED" /\ wtx'[i].type = "SPEND"
    BY <1>5 DEF IsSpend, Completed
  <2>. QED  BY <1>5, <1>10, <1>11, <1>13, <2>1, <2>2 DEF SpendsKnown, IsSpend, Completed
<1>17. KeysDistinct'
  <2>1. KeysDistinct
    BY DEF OperationInvariant
  <2>. QED  BY <1>5, <1>6, <1>10, <1>11, <1>13, <2>1 DEF KeysDistinct, Wallet
<1>18. OutcomesNamed'
  <2>1. OutcomesNamed
    BY DEF OperationInvariant
  <2>2. ASSUME NEW g \in OpIds, Registered(g), g # f
        PROVE  IF op'[g].status = "COMPLETED" THEN RefundNamed(g)' ELSE op'[g].refund = NULL
    BY <1>5, <1>11, <2>1, <2>2 DEF OutcomesNamed, RefundNamed, SameTerms
  <2>3. legacy # {} => adopted \in legacy
    BY <1>2
  <2>4. ASSUME legacy # {}
        PROVE  /\ adopted \in TxIds /\ wtx[adopted] # NULL /\ wtx[adopted].type = "REFUND"
               /\ wtx[adopted].linked = spend /\ wtx[adopted].amount = amount
               /\ wtx[adopted].key = key
    BY <1>1, <1>5, <2>3, <2>4 DEF PostedUnder, SameTerms
  <2>5. IF op'[f].status = "COMPLETED" THEN RefundNamed(f)' ELSE op'[f].refund = NULL
    BY <1>2, <1>3, <1>5, <1>10, <1>11, <2>4 DEF RefundNamed, SameTerms
  <2>. QED  BY <1>13, <2>2, <2>5 DEF OutcomesNamed
<1>19. ResolvedUnposted'
  <2>1. ResolvedUnposted
    BY DEF OperationInvariant
  <2>2. status \notin {"CANCELLED", "REJECTED"}
    BY <1>3
  <2>3. ASSUME NEW g \in OpIds, Registered(g), g # f
        PROVE  ResolvedWithoutRefund(g)'
    BY <1>5, <1>11, <2>1, <2>3
    DEF ResolvedUnposted, ResolvedWithoutRefund, Posted, PostedUnder, Wallet
  <2>4. ResolvedWithoutRefund(f)'
    BY <1>10, <1>11, <2>2 DEF ResolvedWithoutRefund
  <2>. QED  BY <1>13, <2>3, <2>4 DEF ResolvedUnposted
<1>20. PendingOnce'
  <2>1. PendingOnce
    BY DEF OperationInvariant
  <2>2. \A g \in OpIds : g # f => (Pending(g)' <=> Pending(g))
    BY <1>11 DEF Pending, Registered
  <2>3. Pending(f)' => legacy = {}
    BY <1>3, <1>10, <1>11 DEF Pending
  <2>4. ASSUME NEW g \in OpIds, g # f, Pending(f)', Pending(g)
        PROVE  ~ (Wallet(op[g].spend) = Wallet(spend) /\ op[g].operator = o)
    BY <1>7, <2>3, <2>4
  <2>5. ASSUME NEW g \in OpIds, NEW h \in OpIds, Pending(g)', Pending(h)',
               wtx'[op'[g].spend].credit = wtx'[op'[h].spend].credit,
               op'[g].operator = op'[h].operator
        PROVE  g = h
    <3>1. CASE g = f /\ h # f
      BY <1>5, <1>10, <1>11, <2>2, <2>4, <2>5, <3>1 DEF Wallet
    <3>2. CASE h = f /\ g # f
      BY <1>5, <1>10, <1>11, <2>2, <2>4, <2>5, <3>2 DEF Wallet
    <3>3. CASE g # f /\ h # f
      BY <1>5, <1>11, <2>1, <2>2, <2>5, <3>3 DEF PendingOnce, OnlyPending, Wallet
    <3>. QED  BY <3>1, <3>2, <3>3
  <2>. QED  BY <2>5 DEF PendingOnce, OnlyPending, Wallet
<1>21. RefundsNamed'
  <2>1. RefundsNamed
    BY DEF OperationInvariant
  <2>2. \A g \in OpIds : Registered(g) => g # f
    BY <1>12
  <2>. QED  BY <1>5, <1>11, <1>13, <2>1, <2>2 DEF RefundsNamed
<1>. QED
  BY <1>14, <1>15, <1>16, <1>17, <1>18, <1>19, <1>20, <1>21 DEF OperationInvariant

\* The old release, sales and settings leave the instructions alone.
LEMMA OthersKeep ==
  ASSUME OperationInvariant, LedgerTypeOK',
         \/ \E id, spend \in TxIds, a \in Amounts, k \in Keys : LegacyRefund(id, spend, a, k)
         \/ RetireOldRelease
         \/ LedgerEnvironment
         \/ UNCHANGED vars
  PROVE  OperationInvariant'
<1>. LedgerTypeOK /\ OperationTypeOK /\ RowsCompleted
  BY DEF OperationInvariant
<1>1. ASSUME NEW id \in TxIds, NEW spend \in TxIds, NEW a \in Amounts, NEW k \in Keys,
             LegacyRefund(id, spend, a, k)
      PROVE  OperationInvariant'
  <2>1. /\ IsSpend(spend) /\ Post(id, RefundPosting(spend, a, k))
        /\ legacyRefunds' = legacyRefunds \cup {id} /\ op' = op /\ oldRelease' = oldRelease
    BY <1>1 DEF LegacyRefund, PostRefund
  <2>2. PICK t : t = RefundPosting(spend, a, k)
    OBVIOUS
  <2>3. t \in WalletTransactions /\ t.status = "COMPLETED" /\ Post(id, t)
    <3>1. t \in WalletTransactions
      BY <2>1, <2>2, PostingsTyped
    <3>. QED  BY <2>1, <2>2, <3>1 DEF RefundPosting
  <2>4. /\ RowsKept /\ RowsCompleted'
        /\ \A i \in TxIds : wtx[i] = NULL /\ wtx'[i] # NULL => i = id
    BY <2>3, RowPosted
  <2>5. OperationTypeOK'
    BY <2>1 DEF OperationTypeOK
  <2>. QED  BY <2>1, <2>4, <2>5, LedgerMoves
<1>2. ASSUME UNCHANGED <<op, legacyRefunds>>, oldRelease' \in BOOLEAN, UNCHANGED wtx
      PROVE  OperationInvariant'
  <2>1. OperationTypeOK' /\ RowsKept /\ RowsCompleted'
    BY <1>2 DEF OperationTypeOK, RowsKept, RowsCompleted
  <2>. QED  BY <1>2, <2>1, LedgerMoves
<1>3. ASSUME NEW id \in TxIds, NEW s \in Students, NEW b \in Branches, NEW a \in Amounts,
             NEW k \in Keys, SubmitWalletPayment(id, s, b, a, k), UNCHANGED operationVars
      PROVE  OperationInvariant'
  <2>1. PICK t : t = SpendPosting(s, b, a, k, NULL)
    OBVIOUS
  <2>2. t \in WalletTransactions /\ t.status = "COMPLETED" /\ t.type = "SPEND" /\ Post(id, t)
    <3>1. t \in WalletTransactions
      BY <2>1, PostingsTyped
    <3>. QED  BY <1>3, <2>1, <3>1 DEF SpendPosting, SubmitWalletPayment
  <2>3. /\ RowsKept /\ RowsCompleted' /\ wtx'[id] = t
        /\ \A i \in TxIds : wtx[i] = NULL /\ wtx'[i] # NULL => i = id
    BY <2>2, RowPosted
  <2>4. OperationTypeOK' /\ op' = op /\ legacyRefunds' = legacyRefunds
    BY <1>3 DEF OperationTypeOK, operationVars
  <2>5. \A i \in TxIds : wtx[i] = NULL /\ wtx'[i] # NULL => wtx'[i].type # "REFUND"
    BY <2>2, <2>3
  <2>. QED  BY <2>3, <2>4, <2>5, LedgerMoves
<1>4. CASE RetireOldRelease
  BY <1>2, <1>4 DEF RetireOldRelease, ledgerVars
<1>5. CASE LedgerEnvironment
  BY <1>2, <1>3, <1>5
  DEF LedgerEnvironment, SwitchWallet, SetProfile, operationVars, OperationTypeOK
<1>6. CASE UNCHANGED vars
  BY <1>2, <1>6 DEF vars, ledgerVars, operationVars, OperationTypeOK
<1>. QED  BY <1>1, <1>4, <1>5, <1>6

-----------------------------------------------------------------------------
(* The theorems. *)

\* At the start there are neither rows nor instructions.
LEMMA OperationsInit ==
  ASSUME Init
  PROVE  OperationInvariant
<1>1. LedgerTypeOK
  BY TypingInit DEF Init
<1>2. /\ \A i \in TxIds : wtx[i] = NULL
      /\ \A f \in OpIds : op[f] = NULL
      /\ OperationTypeOK
  BY DEF Init, LedgerInit, OperationTypeOK
<1>. QED
  BY <1>1, <1>2 DEF OperationInvariant, RowsCompleted, SpendsKnown, KeysDistinct, OutcomesNamed,
                    ResolvedUnposted, PendingOnce, OnlyPending, RefundsNamed, Registered, Pending

\* Every step keeps instructions and ledger in agreement.
LEMMA OperationsPreserved ==
  ASSUME OperationInvariant, [Next]_vars
  PROVE  OperationInvariant'
<1>1. LedgerTypeOK'
  BY LedgerImplemented, TypingStep DEF OperationInvariant
<1>. QED
  BY <1>1, RegistrationKeeps, ExecutionKeeps, RejectionKeeps, CancellationKeeps, OthersKeep
  DEF Next

\* The inductive invariant: keys are distinct, completed instructions name
\* their refund, and closed ones have none but those of the old release.
THEOREM OperationInvariantHolds == Spec => []OperationInvariant
<1>1. Init => OperationInvariant
  BY OperationsInit
<1>2. OperationInvariant /\ [Next]_vars => OperationInvariant'
  BY OperationsPreserved
<1>. QED  BY <1>1, <1>2, PTL DEF Spec

\* Instructions and the ledger agree, whatever is retried, cancelled or adopted.
THEOREM OperationsAgree == Spec => []OperationsMatchLedger
<1>1. ASSUME OperationInvariant
      PROVE  OperationsMatchLedger
  <2>. /\ OperationTypeOK /\ RowsCompleted /\ KeysDistinct /\ OutcomesNamed
       /\ ResolvedUnposted /\ PendingOnce /\ RefundsNamed
    BY <1>1 DEF OperationInvariant
  <2>1. ASSUME NEW f \in OpIds, Registered(f), op[f].status = "COMPLETED"
        PROVE  CompletedMatchesRefund(f)
    <3>1. RefundNamed(f)
      BY <2>1 DEF OutcomesNamed
    <3>2. Completed(op[f].refund) /\ op[f].refund # NULL
      <4>1. op[f].refund \in TxIds /\ wtx[op[f].refund] # NULL
        BY <3>1 DEF RefundNamed
      <4>2. op[f].refund # NULL
        BY <4>1, RowsNamed
      <4>. QED  BY <4>1, <4>2 DEF RowsCompleted, Completed
    <3>3. ASSUME NEW g \in OpIds, Registered(g), op[g].refund = op[f].refund
          PROVE  g = f
      <4>1. RefundNamed(g)
        BY <3>2, <3>3 DEF OutcomesNamed
      <4>2. op[g].spend = op[f].spend /\ op[g].key = op[f].key
        BY <3>1, <3>3, <4>1 DEF RefundNamed, SameTerms
      <4>. QED  BY <2>1, <3>3, <4>2 DEF KeysDistinct, Wallet
    <3>. QED  BY <3>1, <3>2, <3>3 DEF CompletedMatchesRefund, RefundNamed
  <2>2. \A f \in OpIds : Registered(f) =>
          CompletedMatchesRefund(f) /\ ResolvedWithoutRefund(f) /\ OnlyPending(f)
    BY <2>1 DEF CompletedMatchesRefund, ResolvedUnposted, PendingOnce
  <2>3. \A i \in TxIds : Completed(i) /\ wtx[i].type = "REFUND" =>
          \/ i \in legacyRefunds
          \/ \E f \in OpIds : Registered(f) /\ op[f].refund = i
    BY DEF RefundsNamed, Completed
  <2>. QED  BY <2>2, <2>3 DEF OperationsMatchLedger
<1>2. OperationInvariant => OperationsMatchLedger
  BY <1>1
<1>. QED  BY <1>2, OperationInvariantHolds, PTL

\* Terms are frozen, outcomes are final, and nothing posted is closed as
\* cancelled or rejected.
THEOREM InstructionsFinal == Spec => OperationOutcomeFinal
<1>1. ASSUME OperationInvariant, [Next]_vars, NEW f \in OpIds
      PROVE  OperationStep(f)
  <2>. OperationTypeOK
    BY <1>1 DEF OperationInvariant
  <2>1. SUFFICES ASSUME Registered(f)
                 PROVE  OperationStep(f)
    BY DEF OperationStep
  <2>2. op[f] \in RefundOperationRecords
    BY <2>1 DEF OperationTypeOK, Registered
  <2>3. op[f] = [op[f] EXCEPT !.status = op[f].status, !.refund = op[f].refund,
                              !.rejection = op[f].rejection]
    BY <2>2 DEF RefundOperationRecords
  <2>4. ASSUME op'[f] = op[f]
        PROVE  OperationStep(f)
    BY <2>1, <2>3, <2>4 DEF OperationStep, Registered
  <2>5. ASSUME NEW status \in OperationStatuses, NEW refund \in TxIds \cup {NULL},
               NEW rejection \in RejectionCodes \cup {NULL}, Pending(f),
               Resolve(f, status, refund, rejection),
               status \in {"CANCELLED", "REJECTED"} => Posted(f) = {}
        PROVE  OperationStep(f)
    <3>1. op'[f] # NULL /\ op'[f].status = status
      BY <2>1, <2>5, ResolveFacts DEF Registered
    <3>2. op'[f] = [op[f] EXCEPT !.status = op'[f].status, !.refund = op'[f].refund,
                                 !.rejection = op'[f].rejection]
      BY <2>1, <2>5, ResolveKeepsTerms
    <3>. QED  BY <2>5, <3>1, <3>2 DEF OperationStep, Pending
  <2>6. ASSUME NEW g \in OpIds, NEW status, NEW refund, NEW rejection, g # f,
               Resolve(g, status, refund, rejection)
        PROVE  OperationStep(f)
    BY <2>4, <2>6 DEF Resolve, OperationTypeOK
  <2>7. ASSUME NEW g \in OpIds, NEW o \in Operators, NEW spend \in TxIds,
               NEW a \in Amounts, NEW k \in Keys, RegisterRefund(g, o, spend, a, k)
        PROVE  OperationStep(f)
    <3>1. g # f
      BY <2>1, <2>7 DEF RegisterRefund, Registered
    <3>2. op'[f] = op[f]
      BY <2>7, <3>1 DEF RegisterRefund, OperationTypeOK
    <3>. QED  BY <2>4, <3>2
  <2>8. ASSUME NEW g \in OpIds, NEW id \in TxIds, ExecuteRefund(g, id)
        PROVE  OperationStep(f)
    <3>1. Resolve(g, "COMPLETED", id, NULL) /\ Pending(g)
      BY <2>8 DEF ExecuteRefund
    <3>2. "COMPLETED" \in OperationStatuses /\ id \in TxIds \cup {NULL}
          /\ NULL \in RejectionCodes \cup {NULL}
      BY DEF OperationStatuses
    <3>. QED  BY <2>5, <2>6, <3>1, <3>2
  <2>9. ASSUME NEW g \in OpIds, RejectRefund(g)
        PROVE  OperationStep(f)
    <3>1. PICK answer \in RejectionCodes : Resolve(g, "REJECTED", NULL, answer)
      BY <2>9 DEF RejectRefund
    <3>2. Pending(g) /\ Posted(g) = {}
      BY <2>9 DEF RejectRefund
    <3>3. "REJECTED" \in OperationStatuses /\ NULL \in TxIds \cup {NULL}
          /\ answer \in RejectionCodes \cup {NULL}
      BY DEF OperationStatuses
    <3>. QED  BY <2>5, <2>6, <3>1, <3>2, <3>3
  <2>10. ASSUME NEW g \in OpIds, CancelRefund(g)
         PROVE  OperationStep(f)
    <3>1. "CANCELLED" \in OperationStatuses /\ NULL \in TxIds \cup {NULL}
          /\ NULL \in RejectionCodes \cup {NULL} /\ "COMPLETED" \in OperationStatuses
      BY DEF OperationStatuses
    <3>2. CASE Posted(g) = {}
      BY <2>5, <2>6, <2>10, <3>1, <3>2 DEF CancelRefund
    <3>3. ASSUME NEW i \in Posted(g), Resolve(g, "COMPLETED", i, NULL)
          PROVE  OperationStep(f)
      <4>1. i \in TxIds \cup {NULL} /\ Pending(g)
        BY <2>10 DEF CancelRefund, Posted, PostedUnder
      <4>. QED  BY <2>5, <2>6, <3>1, <3>3, <4>1
    <3>. QED  BY <2>10, <3>2, <3>3 DEF CancelRefund
  <2>11. CASE UNCHANGED op
    BY <2>4, <2>11
  <2>. QED
    BY <1>1, <2>7, <2>8, <2>9, <2>10, <2>11
    DEF Next, LegacyRefund, RetireOldRelease, LedgerEnvironment, operationVars, vars
<1>2. OperationInvariant /\ [Next]_vars => [\A f \in OpIds : OperationStep(f)]_vars
  BY <1>1
<1>. QED  BY <1>2, OperationInvariantHolds, PTL DEF Spec, OperationOutcomeFinal

\* Refund instructions drive the ledger only through its own operations.
THEOREM OperationsUseLedger == Spec => LedgerSpec
<1>1. Init => LedgerInit
  BY DEF Init
<1>2. OperationInvariant /\ [Next]_vars => [LedgerNext]_ledgerVars
  BY LedgerImplemented
<1>. QED  BY <1>1, <1>2, OperationInvariantHolds, PTL DEF Spec, LedgerSpec

\* So no refund exceeds its spend, whatever instructions, retries and old
\* instances post together.
THEOREM OperationsWithinSpend == Spec => []RefundsWithinSpend
BY OperationsUseLedger, RefundsBounded, PTL

(***************************************************************************)
(* VendorOverdraft.                                                        *)
(***************************************************************************)

SuspendedAsCoded ==
  \A v \in Vendors : suspensionCode[v] = "OVERDRAFT" => profile[v] = "SUSPENDED"

StartedBefore == \A j \in Jobs : job[j].startedAt <= now

TopupsCreditVendors ==
  \A i \in TxIds :
    wtx[i] # NULL /\ wtx[i].type = "VENDOR_TOPUP" => wtx[i].credit \in Vendors

MonitorInvariant ==
  /\ LedgerTypeOK /\ OverdraftTracked
  /\ OverdraftTypeOK /\ SuspendedAsCoded /\ StartedBefore /\ TopupsCreditVendors

-----------------------------------------------------------------------------

\* Every step of the monitor and of what moves the wallets is one of the ledger.
LEMMA MonitorUsesLedger ==
  ASSUME [MonitorNext]_monitorVars
  PROVE  [LedgerNext]_ledgerVars
<1>1. ASSUME NEW v \in Vendors, ReinstateIfDue(v) \/ Suspend(v), UNCHANGED ledgerExceptProfile
      PROVE  SetProfile(v, "APPROVED") \/ SetProfile(v, "SUSPENDED") \/ UNCHANGED ledgerVars
  BY <1>1 DEF ReinstateIfDue, Reinstate, Suspend, SetProfile, ledgerExceptProfile, ledgerVars
<1>2. ASSUME NEW v \in Vendors, SetProfile(v, "APPROVED") \/ SetProfile(v, "SUSPENDED")
      PROVE  LedgerNext
  BY <1>2 DEF LedgerNext, ChangeSettings, ProfileStatuses
<1>3. ASSUME NEW j \in Jobs, NEW v \in Vendors,
             ReinstateCandidate(j, v) \/ SuspendCandidate(j, v)
      PROVE  LedgerNext \/ UNCHANGED ledgerVars
  <2>1. CASE ReinstateCandidate(j, v)
    BY <1>1, <1>2, <2>1 DEF ReinstateCandidate
  <2>2. CASE SuspendCandidate(j, v)
    <3>1. CASE DueForSuspension(v, job[j].startedAt)
      BY <1>1, <1>2, <2>2, <3>1 DEF SuspendCandidate
    <3>2. CASE ~ DueForSuspension(v, job[j].startedAt)
      BY <2>2, <3>2 DEF SuspendCandidate, ledgerExceptProfile, ledgerVars
    <3>. QED  BY <3>1, <3>2
  <2>. QED  BY <1>3, <2>1, <2>2
<1>4. ASSUME NEW v \in Vendors, ReinstateIfRecovered(v) \/ SuspendManually(v)
      PROVE  LedgerNext \/ UNCHANGED ledgerVars
  BY <1>1, <1>2, <1>4 DEF ReinstateIfRecovered, SuspendManually
<1>5. ASSUME NEW id \in TxIds, CompleteVendorTopup(id)
      PROVE  LedgerNext
  BY <1>5 DEF CompleteVendorTopup, LedgerNext
<1>6. ASSUME WalletsMove
      PROVE  LedgerNext
  BY <1>6 DEF WalletsMove, LedgerNext
<1>7. ASSUME UNCHANGED ledgerVars
      PROVE  [LedgerNext]_ledgerVars
  BY <1>7
<1>. QED
  BY <1>3, <1>4, <1>5, <1>6, <1>7
  DEF MonitorNext, StartMonitor, ListOverdrawn, FinishMonitor, AbortMonitor, LoseFollowUp,
      monitorVars

\* No row of a vendor's top-up credits anybody else.
LEMMA VendorTopupsKept ==
  ASSUME LedgerTypeOK, TopupsCreditVendors, [MonitorNext]_monitorVars
  PROVE  TopupsCreditVendors'
<1>1. ASSUME NEW id \in TxIds, NEW t, wtx' = [wtx EXCEPT ![id] = t],
             t.type = "VENDOR_TOPUP" => t.credit \in Vendors
      PROVE  TopupsCreditVendors'
  <2>1. \A i \in TxIds : wtx'[i] = IF i = id THEN t ELSE wtx[i]
    BY <1>1 DEF LedgerTypeOK
  <2>. QED  BY <1>1, <2>1 DEF TopupsCreditVendors
<1>2. ASSUME WalletsMove
      PROVE  TopupsCreditVendors'
  <2>1. ASSUME NEW id \in TxIds, NEW a \in Amounts, NEW k \in Keys, NEW v \in Vendors,
               PostPayout(id, v, a, k)
        PROVE  TopupsCreditVendors'
    BY <1>1, <2>1 DEF PostPayout, Post, PayoutPosting
  <2>2. ASSUME NEW id \in TxIds, NEW a \in Amounts, NEW k \in Keys, NEW v \in Vendors,
               StartTopup(id, v, a, k)
        PROVE  TopupsCreditVendors'
    BY <1>1, <2>2 DEF StartTopup, TopupSkeleton
  <2>3. ASSUME NEW id \in TxIds, NEW a \in Amounts, NEW k \in Keys, NEW s \in Students,
               NEW b \in Branches, SubmitWalletPayment(id, s, b, a, k)
        PROVE  TopupsCreditVendors'
    BY <1>1, <2>3 DEF SubmitWalletPayment, Post, SpendPosting
  <2>4. CASE Tick
    BY <2>4 DEF Tick, TopupsCreditVendors
  <2>. QED  BY <1>2, <2>1, <2>2, <2>3, <2>4 DEF WalletsMove
<1>3. ASSUME NEW id \in TxIds, CompleteVendorTopup(id)
      PROVE  TopupsCreditVendors'
  <2>1. /\ wtx[id] \in WalletTransactions
        /\ wtx' = [wtx EXCEPT ![id].status = "COMPLETED"]
    BY <1>3 DEF CompleteVendorTopup, CompleteTopup, LedgerTypeOK
  <2>2. \A i \in TxIds : wtx'[i] = IF i = id THEN [wtx[id] EXCEPT !.status = "COMPLETED"]
                                   ELSE wtx[i]
    BY <2>1 DEF LedgerTypeOK
  <2>3. wtx[id] # NULL
    BY <1>3 DEF CompleteVendorTopup, CompleteTopup
  <2>4. /\ [wtx[id] EXCEPT !.status = "COMPLETED"].type = wtx[id].type
        /\ [wtx[id] EXCEPT !.status = "COMPLETED"].credit = wtx[id].credit
    BY <2>1 DEF WalletTransactions
  <2>. QED  BY <2>2, <2>3, <2>4 DEF TopupsCreditVendors
<1>4. ASSUME UNCHANGED wtx
      PROVE  TopupsCreditVendors'
  BY <1>4 DEF TopupsCreditVendors
<1>. QED
  BY <1>2, <1>3, <1>4
  DEF MonitorNext, StartMonitor, ListOverdrawn, FinishMonitor, AbortMonitor, LoseFollowUp,
      ReinstateCandidate, SuspendCandidate, ReinstateIfRecovered, SuspendManually, SetProfile,
      ledgerExceptProfile, ledgerVars, monitorVars

\* What a step does to the profile of a vendor and to the code of its suspension.
ProfileStep(v) ==
  \/ UNCHANGED <<profile[v], suspensionCode[v]>>
  \/ /\ profile'[v] = "APPROVED" /\ suspensionCode'[v] = NULL
     /\ DueForReinstatement(v)
  \/ /\ profile'[v] = "SUSPENDED" /\ suspensionCode'[v] = "OVERDRAFT"
     /\ \E j \in Jobs : DueForSuspension(v, job[j].startedAt)
  \/ /\ profile[v] = "APPROVED" /\ profile'[v] = "SUSPENDED"
     /\ suspensionCode'[v] = suspensionCode[v]

\* Every step is one of these for every vendor.
LEMMA ProfileSteps ==
  ASSUME LedgerTypeOK, OverdraftTypeOK, [MonitorNext]_monitorVars, NEW v \in Vendors
  PROVE  ProfileStep(v)
<1>1. ASSUME NEW w \in Vendors, ReinstateIfDue(w)
      PROVE  ProfileStep(v)
  <2>1. CASE DueForReinstatement(w)
    BY <1>1, <2>1 DEF ReinstateIfDue, Reinstate, ProfileStep, LedgerTypeOK, OverdraftTypeOK
  <2>2. CASE ~ DueForReinstatement(w)
    BY <1>1, <2>2 DEF ReinstateIfDue, ProfileStep
  <2>. QED  BY <2>1, <2>2
<1>2. ASSUME NEW j \in Jobs, NEW w \in Vendors, SuspendCandidate(j, w)
      PROVE  ProfileStep(v)
  <2>1. CASE DueForSuspension(w, job[j].startedAt)
    BY <1>2, <2>1 DEF SuspendCandidate, Suspend, ProfileStep, LedgerTypeOK, OverdraftTypeOK
  <2>2. CASE ~ DueForSuspension(w, job[j].startedAt)
    BY <1>2, <2>2 DEF SuspendCandidate, ProfileStep
  <2>. QED  BY <2>1, <2>2
<1>3. ASSUME NEW w \in Vendors, SuspendManually(w)
      PROVE  ProfileStep(v)
  BY <1>3 DEF SuspendManually, SetProfile, overdraftVars, ProfileStep, LedgerTypeOK
<1>4. ASSUME UNCHANGED <<profile, suspensionCode>>
      PROVE  ProfileStep(v)
  BY <1>4 DEF ProfileStep
<1>. QED
  BY <1>1, <1>2, <1>3, <1>4
  DEF MonitorNext, StartMonitor, ListOverdrawn, FinishMonitor, AbortMonitor, LoseFollowUp,
      ReinstateCandidate, ReinstateIfRecovered, CompleteVendorTopup, CompleteTopup,
      WalletsMove, PostPayout, StartTopup, SubmitWalletPayment, Tick,
      settingsVars, overdraftVars, ledgerVars, monitorVars

\* The monitor and the follow-ups of top-ups keep their own state well-typed,
\* and the clock does not run back.
LEMMA MonitorTyped ==
  ASSUME LedgerTypeOK, OverdraftTypeOK, StartedBefore, TopupsCreditVendors,
         [MonitorNext]_monitorVars
  PROVE  OverdraftTypeOK' /\ StartedBefore'
<1>. USE OverdraftAssumption DEF LedgerTypeOK, OverdraftTypeOK, JobRecords, StartedBefore
<1>1. ASSUME now' = now, UNCHANGED <<job, followUp>>, UNCHANGED suspensionCode,
             crashes' \in 0 .. MaxCrashes
      PROVE  OverdraftTypeOK' /\ StartedBefore'
  BY <1>1
<1>2. ASSUME NEW v \in Vendors, ReinstateIfDue(v) \/ Suspend(v)
      PROVE  suspensionCode' \in [Vendors -> {"OVERDRAFT", NULL}]
  BY <1>2 DEF ReinstateIfDue, Reinstate, Suspend
<1>3. ASSUME NEW j \in Jobs, StartMonitor(j) \/ ListOverdrawn(j) \/ FinishMonitor(j)
      PROVE  OverdraftTypeOK' /\ StartedBefore'
  <2>1. /\ {v \in Vendors : DueForReinstatement(v)} \subseteq Vendors
        /\ {v \in Vendors : DueForSuspension(v, job[j].startedAt)} \subseteq Vendors
    OBVIOUS
  <2>3. CASE StartMonitor(j)
    <3>1. job' \in [Jobs -> JobRecords] /\ \A i \in Jobs : job'[i].startedAt <= now
      BY <2>1, <2>3 DEF StartMonitor
    <3>. QED  BY <2>3, <3>1 DEF StartMonitor, ledgerVars
  <2>4. CASE ListOverdrawn(j)
    <3>1. job' \in [Jobs -> JobRecords] /\ \A i \in Jobs : job'[i].startedAt <= now
      BY <2>1, <2>4 DEF ListOverdrawn
    <3>. QED  BY <2>4, <3>1 DEF ListOverdrawn, ledgerVars
  <2>5. CASE FinishMonitor(j)
    <3>1. job' \in [Jobs -> JobRecords] /\ \A i \in Jobs : job'[i].startedAt <= now
      BY <2>5 DEF FinishMonitor
    <3>. QED  BY <2>5, <3>1 DEF FinishMonitor, ledgerVars
  <2>. QED  BY <1>3, <2>3, <2>4, <2>5
<1>4. ASSUME NEW j \in Jobs, AbortMonitor(j)
      PROVE  OverdraftTypeOK' /\ StartedBefore'
  <2>1. job' \in [Jobs -> JobRecords] /\ \A i \in Jobs : job'[i].startedAt <= now
    BY <1>4 DEF AbortMonitor
  <2>2. crashes' \in 0 .. MaxCrashes
    BY <1>4 DEF AbortMonitor
  <2>. QED  BY <1>4, <2>1, <2>2 DEF AbortMonitor, ledgerVars
<1>5. ASSUME NEW j \in Jobs, NEW v \in Vendors,
             ReinstateCandidate(j, v) \/ SuspendCandidate(j, v)
      PROVE  OverdraftTypeOK' /\ StartedBefore'
  <2>1. job' = [job EXCEPT ![j].candidates = @ \ {v}]
    BY <1>5 DEF ReinstateCandidate, SuspendCandidate
  <2>2. job' \in [Jobs -> JobRecords] /\ \A i \in Jobs : job'[i].startedAt <= now
    BY <2>1
  <2>3. suspensionCode' \in [Vendors -> {"OVERDRAFT", NULL}]
    BY <1>2, <1>5 DEF ReinstateCandidate, SuspendCandidate
  <2>. QED
    BY <1>5, <2>2, <2>3 DEF ReinstateCandidate, SuspendCandidate, ledgerExceptProfile
<1>6. ASSUME NEW v \in Vendors, ReinstateIfRecovered(v)
      PROVE  OverdraftTypeOK' /\ StartedBefore'
  BY <1>2, <1>6 DEF ReinstateIfRecovered, ledgerExceptProfile
<1>7. ASSUME NEW v \in Vendors, LoseFollowUp(v)
      PROVE  OverdraftTypeOK' /\ StartedBefore'
  BY <1>7 DEF LoseFollowUp, ledgerVars
<1>8. ASSUME NEW v \in Vendors, SuspendManually(v)
      PROVE  OverdraftTypeOK' /\ StartedBefore'
  BY <1>8 DEF SuspendManually, SetProfile, overdraftVars
<1>9. ASSUME NEW id \in TxIds, CompleteVendorTopup(id)
      PROVE  OverdraftTypeOK' /\ StartedBefore'
  <2>1. wtx[id].type = "VENDOR_TOPUP" => wtx[id].credit \in Vendors
    BY <1>9 DEF CompleteVendorTopup, CompleteTopup, TopupsCreditVendors
  <2>2. followUp' \subseteq Vendors
    BY <1>9, <2>1 DEF CompleteVendorTopup
  <2>. QED  BY <1>9, <2>2 DEF CompleteVendorTopup, CompleteTopup
<1>10. ASSUME WalletsMove
       PROVE  OverdraftTypeOK' /\ StartedBefore'
  <2>1. UNCHANGED overdraftVars
    BY <1>10 DEF WalletsMove
  <2>2. now' \in Nat /\ now <= now'
    BY <1>10 DEF WalletsMove, PostPayout, StartTopup, SubmitWalletPayment, Tick
  <2>. QED  BY <2>1, <2>2 DEF overdraftVars
<1>11. ASSUME UNCHANGED monitorVars
       PROVE  OverdraftTypeOK' /\ StartedBefore'
  BY <1>11 DEF monitorVars, overdraftVars, ledgerVars
<1>. QED
  BY <1>3, <1>4, <1>5, <1>6, <1>7, <1>8, <1>9, <1>10, <1>11 DEF MonitorNext

\* No vendor is suspended and no run has started at first.
LEMMA MonitorInitially == MonitorInit => MonitorInvariant
<1>. SUFFICES ASSUME MonitorInit  PROVE MonitorInvariant
  OBVIOUS
<1>1. LedgerTypeOK /\ OverdraftTracked
  BY TypingInit, OverdraftInit DEF MonitorInit
<1>2. OverdraftTypeOK /\ StartedBefore
  BY ValuesAssumption, OverdraftAssumption
  DEF MonitorInit, OverdraftTypeOK, JobRecords, StartedBefore, LedgerInit
<1>3. SuspendedAsCoded /\ TopupsCreditVendors
  BY OverdraftAssumption DEF MonitorInit, LedgerInit, SuspendedAsCoded, TopupsCreditVendors
<1>. QED  BY <1>1, <1>2, <1>3 DEF MonitorInvariant

\* A vendor with the code of an overdraft is suspended.
LEMMA CodesKept ==
  ASSUME MonitorInvariant, [MonitorNext]_monitorVars
  PROVE  SuspendedAsCoded'
<1>1. ASSUME NEW v \in Vendors, suspensionCode'[v] = "OVERDRAFT"
      PROVE  profile'[v] = "SUSPENDED"
  <2>1. ProfileStep(v)
    BY ProfileSteps DEF MonitorInvariant
  <2>2. suspensionCode[v] = "OVERDRAFT" => profile[v] = "SUSPENDED"
    BY DEF MonitorInvariant, SuspendedAsCoded
  <2>. QED  BY <1>1, <2>1, <2>2, OverdraftAssumption DEF ProfileStep
<1>. QED  BY <1>1 DEF SuspendedAsCoded

\* The inductive invariant of the monitor: the columns of a suspension agree,
\* runs started before now, and the ledger's overdraft clock is right.
THEOREM MonitorInvariantHolds == MonitorSpec => []MonitorInvariant
<1>1. MonitorInvariant /\ [MonitorNext]_monitorVars => MonitorInvariant'
  BY MonitorUsesLedger, TypingStep, OverdraftPreserved, MonitorTyped, CodesKept,
     VendorTopupsKept
  DEF MonitorInvariant
<1>. QED  BY <1>1, MonitorInitially, PTL DEF MonitorSpec

\* E2 to E4: a vendor is suspended for an overdraft only in a step that finds it
\* overdrawn for the whole period, and reinstated only in one that finds it
\* recovered, whatever moved since a run listed its candidates, for any number
\* of runs at once; a suspension by the university is never lifted.
THEOREM SuspendedForOverdraft == MonitorSpec => SuspensionsJustified
<1>1. ASSUME MonitorInvariant, [MonitorNext]_monitorVars, NEW v \in Vendors
      PROVE  SuspensionStep(v) /\ ReinstatementStep(v)
  <2>1. ProfileStep(v)
    BY <1>1, ProfileSteps DEF MonitorInvariant
  <2>2. ASSUME NEW j \in Jobs, DueForSuspension(v, job[j].startedAt)
        PROVE  balance[v] < 0 /\ negativeSince[v] + SuspensionDays <= now
    <3>1. job[j].startedAt \in Nat /\ now \in Nat /\ job[j].startedAt <= now
      BY <1>1, ValuesAssumption
      DEF MonitorInvariant, OverdraftTypeOK, JobRecords, StartedBefore, LedgerTypeOK
    <3>2. balance[v] < 0 /\ negativeSince[v] + SuspensionDays <= job[j].startedAt
      BY <2>2 DEF DueForSuspension
    <3>3. negativeSince[v] # NULL
      BY <1>1, <3>2 DEF MonitorInvariant, OverdraftTracked
    <3>4. negativeSince[v] \in Nat
      BY <1>1, <3>3, ValuesAssumption DEF MonitorInvariant, LedgerTypeOK
    <3>. QED  BY <3>1, <3>2, <3>4, OverdraftAssumption
  <2>3. suspensionCode[v] = "OVERDRAFT" => profile[v] = "SUSPENDED"
    BY <1>1 DEF MonitorInvariant, SuspendedAsCoded
  <2>4. SuspensionStep(v)
    BY <2>1, <2>2, <2>3, OverdraftAssumption DEF ProfileStep, SuspensionStep, OverdraftSuspended
  <2>5. ReinstatementStep(v)
    BY <2>1 DEF ProfileStep, ReinstatementStep, DueForReinstatement, OverdraftSuspended
  <2>. QED  BY <2>4, <2>5
<1>2. MonitorInvariant /\ [MonitorNext]_monitorVars
        => [\A v \in Vendors : SuspensionStep(v) /\ ReinstatementStep(v)]_monitorVars
  BY <1>1
<1>. QED
  BY <1>2, MonitorInvariantHolds, PTL DEF MonitorSpec, SuspensionsJustified

\* The monitor, the follow-ups and the wallets they watch move the ledger only
\* by its own operations.
THEOREM MonitorRefinesLedger == MonitorSpec => LedgerSpec
<1>1. MonitorInit => LedgerInit
  BY DEF MonitorInit
<1>2. [MonitorNext]_monitorVars => [LedgerNext]_ledgerVars
  BY MonitorUsesLedger
<1>. QED  BY <1>1, <1>2, PTL DEF MonitorSpec, LedgerSpec

=============================================================================
