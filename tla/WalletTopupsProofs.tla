-------------------------- MODULE WalletTopupsProofs --------------------------
(***************************************************************************)
(* Theorems about WalletTopups, for every number of reconcilers, crashes   *)
(* and provider errors, and for every set of wallets, rows and keys.       *)
(***************************************************************************)
EXTENDS WalletTopups, WalletLedgerProofs

Succeeded(i) == attempt[i] # NULL /\ attempt[i].status = "SUCCEEDED"

\* Only a saved attempt is opened, paid or backed by a top-up transaction.
AttemptsBacked ==
  \A i \in TxIds :
    /\ Started(i) => wtx[i] # NULL /\ wtx[i].type \in TopupTypes
    /\ opening[i] # "IDLE" \/ checkout[i] # "NONE" \/ notified[i] # 0 => Started(i)

\* What a reconciler has learnt of its attempt stays true.
Informed(r) ==
  r.phase # "IDLE" =>
    /\ r.top \in TxIds
    /\ Started(r.top)
    /\ r.phase \in {"CONFIRMED", "ATTRIBUTED"} => checkout[r.top] = "PAID"
    /\ r.phase = "CREDITED" => Completed(r.top)

WorkersInformed == \A w \in Reconcilers : Informed(worker[w])

TopupInvariant ==
  /\ LedgerTypeOK
  /\ TopupTypeOK
  /\ AttemptsBacked
  /\ WorkersInformed
  /\ CreditedOnlyIfPaid
  /\ NotifiedOnce

-----------------------------------------------------------------------------
(* The ledger. *)

\* No ledger step removes a transaction, changes its type or takes back its
\* completion.
LEMMA RowsStay ==
  ASSUME LedgerTypeOK, [LedgerNext]_ledgerVars, NEW i \in TxIds, wtx[i] # NULL
  PROVE  /\ wtx'[i] # NULL
         /\ wtx'[i].type = wtx[i].type
         /\ Completed(i) => Completed(i)'
<1>1. LedgerStep
  BY LedgerSteps
<1>2. ASSUME NEW id \in TxIds, NEW t \in WalletTransactions,
             wtx[id] = NULL, wtx' = [wtx EXCEPT ![id] = t]
      PROVE  wtx'[i] = wtx[i]
  BY <1>2 DEF LedgerTypeOK
<1>3. ASSUME NEW id \in TxIds, CompleteTopup(id) \/ FailTopup(id)
      PROVE  /\ wtx'[i] # NULL
             /\ wtx'[i].type = wtx[i].type
             /\ Completed(i) => Completed(i)'
  <2>1. wtx[id] \in WalletTransactions /\ wtx[i] \in WalletTransactions
    BY <1>3 DEF CompleteTopup, FailTopup, LedgerTypeOK
  <2>2. wtx[id].status = "PENDING"
    BY <1>3 DEF CompleteTopup, FailTopup
  <2>3. \/ wtx' = [wtx EXCEPT ![id].status = "COMPLETED"]
        \/ wtx' = [wtx EXCEPT ![id].status = "FAILED"]
    BY <1>3 DEF CompleteTopup, FailTopup
  <2>4. wtx'[i] \in WalletTransactions /\ wtx'[i].type = wtx[i].type
    BY <2>1, <2>3 DEF LedgerTypeOK, WalletTransactions
  <2>5. Completed(i) => Completed(i)'
    BY <2>1, <2>2, <2>3, <2>4, NullAssumption DEF LedgerTypeOK, Completed
  <2>. QED  BY <2>4, <2>5, NullAssumption
<1>4. ASSUME wtx' = wtx
      PROVE  /\ wtx'[i] # NULL
             /\ wtx'[i].type = wtx[i].type
             /\ Completed(i) => Completed(i)'
  BY <1>4 DEF Completed
<1>5. ASSUME wtx'[i] = wtx[i]
      PROVE  Completed(i) => Completed(i)'
  BY <1>5 DEF Completed
<1>. QED
  BY <1>1, <1>2, <1>3, <1>4, <1>5
  DEF LedgerStep, Post, NextRow, ChangeSettings, SwitchWallet, SwitchBranch, SetProfile,
      Tick, ledgerVars

\* Reconcilers and openings move money only as the ledger allows.
LEMMA TopupStepsUseLedger ==
  ASSUME TopupInvariant, [Next]_vars
  PROVE  [LedgerNext]_ledgerVars
<1>1. ASSUME NEW i \in TxIds, Started(i), wtx[i].status = "PENDING", Fail(i),
             UNCHANGED <<balance, negativeSince, settingsVars, now>>
      PROVE  LedgerNext
  BY <1>1 DEF Fail, FailTopup, LedgerNext, TopupInvariant, AttemptsBacked
<1>2. ASSUME NEW id \in TxIds, NEW a \in Students \cup Vendors, NEW amount \in Amounts,
             NEW key \in Keys, NEW funded, SaveAttempt(id, a, amount, key, funded)
      PROVE  LedgerNext
  BY <1>2 DEF SaveAttempt, LedgerNext
<1>3. ASSUME LedgerEnvironment
      PROVE  LedgerNext
  BY <1>3 DEF LedgerEnvironment, LedgerNext
<1>4. ASSUME NEW i \in TxIds, InitializeFailed(i)
      PROVE  [LedgerNext]_ledgerVars
  <2>1. Started(i)
    BY <1>4 DEF InitializeFailed, TopupInvariant, AttemptsBacked
  <2>2. CASE wtx[i].status = "PENDING" /\ Fail(i)
    BY <2>1, <2>2, <1>4, <1>1 DEF InitializeFailed
  <2>3. CASE UNCHANGED wtx
    BY <2>3, <1>4 DEF InitializeFailed, ledgerVars, settingsVars
  <2>. QED  BY <1>4, <2>2, <2>3 DEF InitializeFailed
<1>5. ASSUME NEW w \in Reconcilers, RefuseVendorTopup(w) \/ FinishRefusal(w)
      PROVE  [LedgerNext]_ledgerVars
  <2>. DEFINE i == worker[w].top
  <2>1. i \in TxIds /\ Started(i)
    BY <1>5 DEF RefuseVendorTopup, FinishRefusal, Working, TopupInvariant, WorkersInformed,
                Informed
  <2>2. CASE wtx[i].status = "PENDING" /\ Fail(i)
    BY <2>1, <2>2, <1>5, <1>1 DEF RefuseVendorTopup, FinishRefusal
  <2>3. CASE UNCHANGED wtx
    BY <2>3, <1>5 DEF RefuseVendorTopup, FinishRefusal, ledgerVars, settingsVars
  <2>. QED  BY <1>5, <2>2, <2>3 DEF RefuseVendorTopup, FinishRefusal
<1>6. ASSUME NEW w \in Reconcilers, Credit(w)
      PROVE  [LedgerNext]_ledgerVars
  <2>1. worker[w].top \in TxIds
    BY <1>6 DEF Credit, Working, TopupInvariant, WorkersInformed, Informed
  <2>2. CompleteTopup(worker[w].top) \/ UNCHANGED ledgerVars
    <3>. wtx[worker[w].top].status \in {"PENDING", "COMPLETED", "FAILED"}
      BY <1>6, <2>1 DEF Credit, Working, TopupInvariant, WorkersInformed, Informed,
         AttemptsBacked, LedgerTypeOK, WalletTransactions
    <3>. QED  BY <1>6 DEF Credit
  <2>. QED  BY <2>1, <2>2 DEF LedgerNext
<1>7. ASSUME NEW i \in TxIds,
             \/ OpenCheckout(i) \/ StoreLink(i) \/ RejectAnswer(i) \/ InitializeUnknown(i)
             \/ StopOpening(i) \/ AnswerSettled(i)
             \/ \E outcome \in {"PAID", "MISPAID", "DECLINED"} : PayCheckout(i, outcome)
             \/ \E w \in Reconcilers : BeginReconcile(w, i)
      PROVE  UNCHANGED ledgerVars
  BY <1>7 DEF OpenCheckout, StoreLink, RejectAnswer, InitializeUnknown, StopOpening,
     AnswerSettled, PayCheckout, BeginReconcile, vars
<1>8. ASSUME NEW w \in Reconcilers,
             \/ Verify(w) \/ VerifyFault(w) \/ MarkUnknown(w) \/ RefuseStudentTopup(w)
             \/ Attribute(w) \/ MarkSucceeded(w) \/ StopReconciler(w)
      PROVE  UNCHANGED ledgerVars
  BY <1>8 DEF Verify, VerifyFault, MarkUnknown, RefuseStudentTopup, Attribute,
     MarkSucceeded, StopReconciler
<1>9. ASSUME UNCHANGED vars
      PROVE  UNCHANGED ledgerVars
  BY <1>9 DEF vars
<1>. QED
  BY <1>2, <1>3, <1>4, <1>5, <1>6, <1>7, <1>8, <1>9
  DEF Next, Work, CreateWalletTopup, CreateFunderTopup, CreateVendorWalletTopup

-----------------------------------------------------------------------------
(* Attempts. *)

\* The attempts that exist, and those that succeeded, stay the same.
AttemptsKept ==
  \A j \in TxIds : (Started(j)' <=> Started(j)) /\ (Succeeded(j)' <=> Succeeded(j))

\* A status write that the constraints allow, or its refusal, never takes a
\* success back.
LEMMA StatusWrite ==
  ASSUME TopupTypeOK, NEW i \in TxIds, Started(i), NEW status \in {"UNKNOWN", "FAILED"},
         TryStatus(i, status)
  PROVE  attempt' \in [TxIds -> AttemptRecords \cup {NULL}] /\ AttemptsKept
<1>1. CASE attempt' = attempt
  BY <1>1 DEF AttemptsKept, Started, Succeeded, TopupTypeOK
<1>2. CASE Allowed(i, status) /\ SetStatus(i, status)
  <2>1. attempt[i] \in AttemptRecords
    BY DEF TopupTypeOK, Started
  <2>2. attempt[i].status # "SUCCEEDED"
    BY <1>2 DEF Allowed
  <2>3. attempt'[i] \in AttemptRecords /\ attempt'[i].status = status
    BY <1>2, <2>1 DEF SetStatus, AttemptRecords, AttemptStatuses, TopupTypeOK
  <2>4. \A j \in TxIds \ {i} : attempt'[j] = attempt[j]
    BY <1>2 DEF SetStatus, TopupTypeOK
  <2>5. attempt' \in [TxIds -> AttemptRecords \cup {NULL}]
    BY <1>2, <2>1, <2>3, <2>4 DEF SetStatus, TopupTypeOK
  <2>6. AttemptsKept
    BY <2>1, <2>2, <2>3, <2>4, AttemptNullAssumption DEF AttemptsKept, Started, Succeeded
  <2>. QED  BY <2>5, <2>6
<1>. QED  BY <1>1, <1>2 DEF TryStatus

\* The link of an opened checkout is stored without taking a success back.
LEMMA LinkWrite ==
  ASSUME TopupTypeOK, AttemptsBacked, NEW i \in TxIds, StoreLink(i)
  PROVE  attempt' \in [TxIds -> AttemptRecords \cup {NULL}] /\ AttemptsKept
<1>. DEFINE status == IF OfVendor(i) THEN attempt[i].status ELSE "PENDING"
<1>1. Started(i) /\ attempt[i] \in AttemptRecords
  BY DEF StoreLink, AttemptsBacked, TopupTypeOK, Started
<1>2. status \in AttemptStatuses
  BY <1>1 DEF AttemptRecords, AttemptStatuses
<1>3. CASE attempt' = attempt
  BY <1>3 DEF AttemptsKept, Started, Succeeded, TopupTypeOK
<1>4. CASE Allowed(i, status) /\ attempt' = [attempt EXCEPT ![i].status = status, ![i].link = TRUE]
  <2>1. status = "SUCCEEDED" <=> attempt[i].status = "SUCCEEDED"
    BY <1>4 DEF Allowed
  <2>. HIDE DEF status
  <2>2. attempt'[i] \in AttemptRecords /\ attempt'[i].status = status
    BY <1>1, <1>2, <1>4 DEF AttemptRecords, TopupTypeOK
  <2>3. \A j \in TxIds \ {i} : attempt'[j] = attempt[j]
    BY <1>4 DEF TopupTypeOK
  <2>4. attempt' \in [TxIds -> AttemptRecords \cup {NULL}]
    BY <1>4, <2>2, <2>3 DEF TopupTypeOK
  <2>5. AttemptsKept
    BY <1>1, <2>1, <2>2, <2>3, AttemptNullAssumption DEF AttemptsKept, Started, Succeeded
  <2>. QED  BY <2>4, <2>5
<1>. QED  BY <1>3, <1>4 DEF StoreLink

\* A step that keeps attempts and payments, and completes no transaction of an
\* attempt, keeps what is said of credits and e-mails.
LEMMA QuietOutcomes ==
  ASSUME TopupInvariant, [LedgerNext]_ledgerVars, AttemptsKept,
         \A j \in TxIds : Started(j) /\ Completed(j)' => Completed(j),
         \A j \in TxIds : checkout[j] = "PAID" => checkout'[j] = "PAID",
         notified' = notified
  PROVE  CreditedOnlyIfPaid' /\ NotifiedOnce'
<1>1. ASSUME NEW j \in TxIds, Started(j)'
      PROVE  /\ Completed(j)' => checkout'[j] = "PAID"
             /\ attempt'[j].status = "SUCCEEDED" => Completed(j)'
  <2>1. Started(j)
    BY <1>1 DEF AttemptsKept
  <2>2. Completed(j)' => checkout'[j] = "PAID"
    BY <2>1 DEF TopupInvariant, CreditedOnlyIfPaid
  <2>3. ASSUME attempt'[j].status = "SUCCEEDED"
        PROVE  Completed(j)'
    <3>1. Succeeded(j)
      BY <1>1, <2>3 DEF AttemptsKept, Succeeded, Started
    <3>2. Completed(j)
      BY <2>1, <3>1 DEF TopupInvariant, CreditedOnlyIfPaid, Succeeded
    <3>. QED  BY <3>2, RowsStay DEF Completed, TopupInvariant
  <2>. QED  BY <2>2, <2>3
<1>2. ASSUME NEW j \in TxIds, notified'[j] = 1
      PROVE  Completed(j)' /\ attempt'[j].status = "SUCCEEDED"
  <2>1. Completed(j) /\ attempt[j].status = "SUCCEEDED" /\ Started(j)
    BY <1>2 DEF TopupInvariant, NotifiedOnce, AttemptsBacked
  <2>2. Completed(j)'
    BY <2>1, RowsStay DEF Completed, TopupInvariant
  <2>. QED
    BY <2>1, <2>2 DEF AttemptsKept, Succeeded, Started
<1>. QED  BY <1>1, <1>2 DEF CreditedOnlyIfPaid, NotifiedOnce, TopupInvariant

\* Reconcilers keep what they know if a step only adds to it.
LEMMA WorkersKept ==
  ASSUME TopupInvariant, [LedgerNext]_ledgerVars,
         \A j \in TxIds : Started(j) => Started(j)',
         \A j \in TxIds : checkout[j] = "PAID" => checkout'[j] = "PAID",
         \A w \in Reconcilers : worker'[w] = worker[w] \/ Informed(worker[w])'
  PROVE  WorkersInformed'
<1>1. ASSUME NEW w \in Reconcilers, worker'[w] = worker[w], worker[w].phase # "IDLE"
      PROVE  /\ worker'[w].top \in TxIds
             /\ Started(worker[w].top)'
             /\ worker'[w].phase \in {"CONFIRMED", "ATTRIBUTED"} => checkout'[worker'[w].top] = "PAID"
             /\ worker'[w].phase = "CREDITED" => Completed(worker[w].top)'
  <2>. DEFINE i == worker[w].top
  <2>1. /\ i \in TxIds /\ Started(i)
        /\ worker[w].phase \in {"CONFIRMED", "ATTRIBUTED"} => checkout[i] = "PAID"
        /\ worker[w].phase = "CREDITED" => Completed(i)
    BY <1>1 DEF TopupInvariant, WorkersInformed, Informed
  <2>2. attempt'[i] # NULL
    BY <2>1 DEF Started
  <2>3. Completed(i) => wtx'[i] # NULL /\ wtx'[i].status = "COMPLETED"
    BY <2>1, RowsStay DEF TopupInvariant, Completed
  <2>. QED  BY <1>1, <2>1, <2>2, <2>3 DEF Started, Completed
<1>. QED  BY <1>1 DEF WorkersInformed, Informed

\* A step that keeps attempts, payments and knowledge keeps the invariant.
LEMMA QuietStep ==
  ASSUME TopupInvariant, [LedgerNext]_ledgerVars, TopupTypeOK', AttemptsKept,
         \A j \in TxIds : Started(j) /\ Completed(j)' => Completed(j),
         \A j \in TxIds : checkout[j] = "PAID" => checkout'[j] = "PAID",
         \A j \in TxIds : opening'[j] # "IDLE" \/ checkout'[j] # "NONE" => Started(j),
         \A w \in Reconcilers : worker'[w] = worker[w] \/ Informed(worker[w])',
         notified' = notified
  PROVE  TopupInvariant'
<1>1. LedgerTypeOK'
  BY TypingStep DEF TopupInvariant
<1>2. AttemptsBacked'
  <2>1. ASSUME NEW j \in TxIds, Started(j)'
        PROVE  wtx'[j] # NULL /\ wtx'[j].type \in TopupTypes
    <3>1. wtx[j] # NULL /\ wtx[j].type \in TopupTypes
      BY <2>1 DEF AttemptsKept, TopupInvariant, AttemptsBacked
    <3>. QED  BY <3>1, RowsStay DEF TopupInvariant
  <2>2. ASSUME NEW j \in TxIds,
               opening'[j] # "IDLE" \/ checkout'[j] # "NONE" \/ notified'[j] # 0
        PROVE  Started(j)'
    BY <2>2 DEF AttemptsKept, TopupInvariant, AttemptsBacked
  <2>. QED  BY <2>1, <2>2 DEF AttemptsBacked
<1>3. \A j \in TxIds : Started(j) => Started(j)'
  BY DEF AttemptsKept
<1>4. WorkersInformed'
  BY <1>3, WorkersKept
<1>5. CreditedOnlyIfPaid' /\ NotifiedOnce'
  BY QuietOutcomes
<1>. QED  BY <1>1, <1>2, <1>4, <1>5 DEF TopupInvariant

\* What a reconciler does with its own record.
LEMMA WorkerMoves ==
  ASSUME TopupTypeOK, NEW w \in Reconcilers, NEW phase \in Phases,
         Goto(w, phase) \/ Leave(w)
  PROVE  /\ worker' \in [Reconcilers -> [phase : Phases, top : TxIds \cup {NULL}]]
         /\ \A v \in Reconcilers \ {w} : worker'[v] = worker[v]
         /\ Goto(w, phase) => worker'[w].phase = phase /\ worker'[w].top = worker[w].top
         /\ Leave(w) => worker'[w].phase = "IDLE"
BY DEF TopupTypeOK, Goto, Leave, Idle, Phases

\* A failed transaction is not completed.
LEMMA FailedIsNotCompleted ==
  ASSUME LedgerTypeOK, NEW i \in TxIds, wtx[i] # NULL, wtx' = wtx \/ Fail(i)
  PROVE  \A j \in TxIds : Completed(j)' => Completed(j)
<1>1. CASE wtx' = wtx
  BY <1>1 DEF Completed
<1>2. CASE Fail(i)
  <2>1. \A j \in TxIds \ {i} : wtx'[j] = wtx[j]
    BY <1>2 DEF Fail, LedgerTypeOK
  <2>2. wtx[i] \in WalletTransactions
    BY DEF LedgerTypeOK
  <2>3. wtx'[i].status = "FAILED"
    BY <1>2, <2>2 DEF Fail, LedgerTypeOK, WalletTransactions
  <2>. QED  BY <2>1, <2>3 DEF Completed
<1>. QED  BY <1>1, <1>2

-----------------------------------------------------------------------------
(* The steps. *)

\* A handler that opens a checkout, and the payer, keep the invariant.
LEMMA OpeningSteps ==
  ASSUME TopupInvariant, NEW i \in TxIds,
         \/ OpenCheckout(i) \/ StoreLink(i) \/ RejectAnswer(i) \/ InitializeUnknown(i)
         \/ InitializeFailed(i) \/ StopOpening(i) \/ AnswerSettled(i)
         \/ \E outcome \in {"PAID", "MISPAID", "DECLINED"} : PayCheckout(i, outcome),
         [LedgerNext]_ledgerVars
  PROVE  TopupInvariant'
<1>1. Started(i)
  BY DEF TopupInvariant, AttemptsBacked, OpenCheckout, StoreLink, RejectAnswer,
     InitializeUnknown, InitializeFailed, StopOpening, AnswerSettled, PayCheckout
<1>2. wtx[i] # NULL
  BY <1>1 DEF TopupInvariant, AttemptsBacked
<1>3. attempt' \in [TxIds -> AttemptRecords \cup {NULL}] /\ AttemptsKept
  <2>1. CASE attempt' = attempt
    BY <2>1 DEF TopupInvariant, TopupTypeOK, AttemptsKept, Started, Succeeded
  <2>2. CASE StoreLink(i)
    BY <2>2, LinkWrite DEF TopupInvariant
  <2>3. CASE RejectAnswer(i) \/ InitializeUnknown(i) \/ InitializeFailed(i)
    <3>1. \/ attempt' = attempt
          \/ \E status \in {"UNKNOWN", "FAILED"} : TryStatus(i, status)
      BY <2>3 DEF RejectAnswer, InitializeUnknown, InitializeFailed, TryStatus
    <3>. QED  BY <1>1, <2>1, <3>1, StatusWrite DEF TopupInvariant
  <2>. QED
    BY <2>1, <2>2, <2>3 DEF OpenCheckout, StopOpening, AnswerSettled, PayCheckout, vars, topupVars
<1>4. wtx' = wtx \/ Fail(i)
  BY DEF OpenCheckout, StoreLink, RejectAnswer, InitializeUnknown, InitializeFailed,
     StopOpening, AnswerSettled, PayCheckout, vars, ledgerVars
<1>5. \A j \in TxIds : Completed(j)' => Completed(j)
  BY <1>2, <1>4, FailedIsNotCompleted DEF TopupInvariant
<1>6. /\ checkout' \in [TxIds -> CheckoutStates]
      /\ \A j \in TxIds : checkout[j] = "PAID" => checkout'[j] = "PAID"
      /\ \A j \in TxIds : checkout'[j] # "NONE" => Started(j)
  BY <1>1 DEF TopupInvariant, TopupTypeOK, AttemptsBacked, CheckoutStates, OpenCheckout,
     StoreLink, RejectAnswer, InitializeUnknown, InitializeFailed, StopOpening,
     AnswerSettled, PayCheckout, vars, topupVars
<1>7. /\ opening' \in [TxIds -> {"IDLE", "CALLING", "ANSWERED"}]
      /\ \A j \in TxIds : opening'[j] # "IDLE" => Started(j)
  BY <1>1 DEF TopupInvariant, TopupTypeOK, AttemptsBacked, OpenCheckout,
     StoreLink, RejectAnswer, InitializeUnknown, InitializeFailed, StopOpening,
     AnswerSettled, PayCheckout, vars, topupVars
<1>8. worker' = worker /\ notified' = notified
  BY DEF OpenCheckout, StoreLink, RejectAnswer, InitializeUnknown, InitializeFailed,
     StopOpening, AnswerSettled, PayCheckout, vars, topupVars
<1>9. crashes' \in 0 .. MaxCrashes /\ faults' \in 0 .. MaxFaults
  BY TopupAssumption DEF TopupInvariant, TopupTypeOK, OpenCheckout, StoreLink, RejectAnswer,
     InitializeUnknown, InitializeFailed, StopOpening, AnswerSettled, PayCheckout, vars, topupVars
<1>10. TopupTypeOK'
  BY <1>3, <1>6, <1>7, <1>8, <1>9 DEF TopupInvariant, TopupTypeOK
<1>. QED
  BY <1>3, <1>5, <1>6, <1>7, <1>8, <1>10, QuietStep

\* What a reconciliation does before it credits, or in place of it.
QuietWork(w) ==
  \/ \E i \in TxIds : BeginReconcile(w, i)
  \/ Verify(w) \/ VerifyFault(w) \/ MarkUnknown(w)
  \/ RefuseStudentTopup(w) \/ RefuseVendorTopup(w) \/ FinishRefusal(w)
  \/ Attribute(w) \/ StopReconciler(w)

\* A reconciler that learns or refuses keeps the invariant.
LEMMA QuietWorkSteps ==
  ASSUME TopupInvariant, NEW w \in Reconcilers, QuietWork(w), [LedgerNext]_ledgerVars
  PROVE  TopupInvariant'
<1>. DEFINE i == worker[w].top
<1>1. worker[w] \in [phase : Phases, top : TxIds \cup {NULL}]
  BY DEF TopupInvariant, TopupTypeOK
<1>2. worker[w].phase # "IDLE" =>
        /\ i \in TxIds /\ Started(i) /\ wtx[i] # NULL
        /\ worker[w].phase \in {"CONFIRMED", "ATTRIBUTED"} => checkout[i] = "PAID"
  BY DEF TopupInvariant, WorkersInformed, Informed, AttemptsBacked
<1>3. attempt' \in [TxIds -> AttemptRecords \cup {NULL}] /\ AttemptsKept
  <2>1. CASE attempt' = attempt
    BY <2>1 DEF TopupInvariant, TopupTypeOK, AttemptsKept, Started, Succeeded
  <2>2. CASE worker[w].phase # "IDLE"
             /\ \E status \in {"UNKNOWN", "FAILED"} : TryStatus(i, status)
    BY <1>2, <2>2, StatusWrite DEF TopupInvariant
  <2>. QED
    BY <2>1, <2>2 DEF QuietWork, BeginReconcile, Verify, VerifyFault, MarkUnknown,
       RefuseStudentTopup, RefuseVendorTopup, FinishRefusal, Attribute, StopReconciler, Working
<1>4. \A j \in TxIds : Completed(j)' => Completed(j)
  <2>1. CASE wtx' = wtx
    BY <2>1 DEF Completed
  <2>2. CASE worker[w].phase # "IDLE" /\ Fail(i)
    BY <1>2, <2>2, FailedIsNotCompleted DEF TopupInvariant
  <2>. QED
    BY <2>1, <2>2 DEF QuietWork, BeginReconcile, Verify, VerifyFault, MarkUnknown,
       RefuseStudentTopup, RefuseVendorTopup, FinishRefusal, Attribute, StopReconciler,
       Working, ledgerVars
<1>5. UNCHANGED <<opening, checkout, notified>>
  BY DEF QuietWork, BeginReconcile, Verify, VerifyFault, MarkUnknown,
     RefuseStudentTopup, RefuseVendorTopup, FinishRefusal, Attribute, StopReconciler
<1>6. crashes' \in 0 .. MaxCrashes /\ faults' \in 0 .. MaxFaults
  BY TopupAssumption DEF TopupInvariant, TopupTypeOK, QuietWork, BeginReconcile, Verify,
     VerifyFault, MarkUnknown, RefuseStudentTopup, RefuseVendorTopup, FinishRefusal,
     Attribute, StopReconciler
<1>7. /\ worker' \in [Reconcilers -> [phase : Phases, top : TxIds \cup {NULL}]]
      /\ \A v \in Reconcilers : worker'[v] = worker[v] \/ Informed(worker[v])'
  <2>1. ASSUME NEW k \in TxIds, BeginReconcile(w, k)
        PROVE  <1>7!1 /\ <1>7!2
    <3>1. wtx[k] \in WalletTransactions /\ Started(k) /\ Started(k)'
      BY <2>1 DEF BeginReconcile, TopupInvariant, AttemptsBacked, LedgerTypeOK, Started
    <3>2. wtx[k].status \in {"PENDING", "COMPLETED", "FAILED"}
      BY <3>1 DEF WalletTransactions
    <3>3. /\ FirstPhase[wtx[k].status] \in {"VERIFYING", "CREDITED", "FAILING"}
          /\ FirstPhase[wtx[k].status] = "CREDITED" => wtx[k].status = "COMPLETED"
      BY <3>2 DEF FirstPhase
    <3>4. /\ worker'[w].top = k
          /\ worker'[w].phase = FirstPhase[wtx[k].status]
          /\ \A v \in Reconcilers \ {w} : worker'[v] = worker[v]
          /\ <1>7!1
      BY <2>1, <3>3 DEF BeginReconcile, TopupInvariant, TopupTypeOK, Phases
    <3>5. wtx' = wtx /\ wtx[k] # NULL
      BY <2>1, <3>1 DEF BeginReconcile, ledgerVars, TopupInvariant, AttemptsBacked
    <3>6. Informed(worker[w])'
      BY <3>1, <3>3, <3>4, <3>5 DEF Informed, Completed
    <3>. QED  BY <3>4, <3>6
  <2>2. CASE \E phase \in {"UNSURE", "REFUSED", "FAILING"} :
               worker[w].phase # "IDLE" /\ Goto(w, phase)
    <3>1. PICK phase \in {"UNSURE", "REFUSED", "FAILING"} :
            worker[w].phase # "IDLE" /\ Goto(w, phase)
      BY <2>2
    <3>2. phase \in Phases
      BY DEF Phases
    <3>3. i \in TxIds /\ attempt'[i] # NULL
      BY <1>2, <1>3, <3>1 DEF AttemptsKept, Started
    <3>4. Informed(worker[w])'
      BY <3>1, <3>2, <3>3, WorkerMoves DEF Informed, TopupInvariant, Started
    <3>. QED  BY <3>1, <3>2, <3>4, WorkerMoves DEF TopupInvariant
  <2>3. CASE \E phase \in {"CONFIRMED", "ATTRIBUTED"} :
               worker[w].phase # "IDLE" /\ checkout[i] = "PAID" /\ Goto(w, phase)
    <3>1. PICK phase \in {"CONFIRMED", "ATTRIBUTED"} :
            worker[w].phase # "IDLE" /\ checkout[i] = "PAID" /\ Goto(w, phase)
      BY <2>3
    <3>2. phase \in Phases
      BY DEF Phases
    <3>3. i \in TxIds /\ attempt'[i] # NULL /\ checkout'[i] = "PAID"
      BY <1>2, <1>3, <1>5, <3>1 DEF AttemptsKept, Started
    <3>4. Informed(worker[w])'
      BY <3>1, <3>2, <3>3, WorkerMoves DEF Informed, TopupInvariant, Started
    <3>. QED  BY <3>1, <3>2, <3>4, WorkerMoves DEF TopupInvariant
  <2>4. CASE Leave(w)
    <3>1. "IDLE" \in Phases
      BY DEF Phases
    <3>2. Informed(worker[w])'
      BY <2>4, <3>1, WorkerMoves DEF Informed, TopupInvariant
    <3>. QED  BY <2>4, <3>1, <3>2, WorkerMoves DEF TopupInvariant
  <2>5. CASE Verify(w)
    <3>1. PICK verdict \in Verdict(i) : Goto(w, verdict)
      BY <2>5 DEF Verify
    <3>2. worker[w].phase # "IDLE" /\ checkout[i] \in CheckoutStates
      BY <1>2, <2>5 DEF Verify, Working, TopupInvariant, TopupTypeOK
    <3>3. /\ verdict \in {"UNSURE", "REFUSED", "CONFIRMED"}
          /\ verdict = "CONFIRMED" => checkout[i] = "PAID"
      BY <3>2 DEF Verdict, VerdictsOf, CheckoutStates
    <3>. QED  BY <2>2, <2>3, <3>1, <3>2, <3>3
  <2>6. CASE Attribute(w)
    BY <1>2, <2>3, <2>4, <2>6 DEF Attribute, Working
  <2>7. CASE VerifyFault(w) \/ MarkUnknown(w) \/ RefuseStudentTopup(w) \/ RefuseVendorTopup(w)
             \/ FinishRefusal(w) \/ StopReconciler(w)
    BY <2>2, <2>4, <2>7 DEF VerifyFault, MarkUnknown, RefuseStudentTopup, RefuseVendorTopup,
       FinishRefusal, StopReconciler, Working
  <2>. QED  BY <2>1, <2>5, <2>6, <2>7 DEF QuietWork
<1>8. TopupTypeOK'
  BY <1>3, <1>5, <1>6, <1>7 DEF TopupInvariant, TopupTypeOK
<1>9. \A j \in TxIds : opening'[j] # "IDLE" \/ checkout'[j] # "NONE" => Started(j)
  BY <1>5 DEF TopupInvariant, AttemptsBacked
<1>10. /\ \A j \in TxIds : Started(j) /\ Completed(j)' => Completed(j)
       /\ \A j \in TxIds : checkout[j] = "PAID" => checkout'[j] = "PAID"
       /\ notified' = notified
  BY <1>4, <1>5
<1>. QED  BY <1>3, <1>7, <1>8, <1>9, <1>10, QuietStep

\* A credit completes the transaction of a captured payment.
LEMMA CreditStep ==
  ASSUME TopupInvariant, NEW w \in Reconcilers, Credit(w), [LedgerNext]_ledgerVars
  PROVE  TopupInvariant'
<1>. DEFINE i == worker[w].top
<1>1. /\ i \in TxIds /\ Started(i) /\ wtx[i] \in WalletTransactions
      /\ checkout[i] = "PAID"
      /\ worker[w].phase # "IDLE"
  BY DEF Credit, Working, TopupInvariant, WorkersInformed, Informed, AttemptsBacked, LedgerTypeOK
<1>2. UNCHANGED <<attempt, opening, checkout, notified, crashes, faults>>
  BY DEF Credit
<1>3. AttemptsKept
  BY <1>2 DEF AttemptsKept, Started, Succeeded
<1>4. \A j \in TxIds \ {i} : wtx'[j] = wtx[j]
  BY DEF Credit, CompleteTopup, ledgerVars, TopupInvariant, LedgerTypeOK
<1>5. /\ worker' \in [Reconcilers -> [phase : Phases, top : TxIds \cup {NULL}]]
      /\ \A v \in Reconcilers : worker'[v] = worker[v] \/ Informed(worker[v])'
  <2>0. "CREDITED" \in Phases
    BY DEF Phases
  <2>1. CASE Leave(w)
    BY <2>0, <2>1, WorkerMoves DEF Informed, TopupInvariant
  <2>2. CASE Goto(w, "CREDITED")
    <3>1. wtx'[i] # NULL /\ wtx'[i].status = "COMPLETED"
      <4>1. CASE CompleteTopup(i)
        <5>1. wtx' = [wtx EXCEPT ![i].status = "COMPLETED"]
          BY <4>1 DEF CompleteTopup
        <5>2. wtx'[i] \in WalletTransactions /\ wtx'[i].status = "COMPLETED"
          BY <1>1, <5>1 DEF WalletTransactions, TopupInvariant, LedgerTypeOK
        <5>. QED  BY <5>2, NullAssumption
      <4>2. CASE wtx[i].status = "COMPLETED" /\ UNCHANGED ledgerVars
        BY <1>1, <4>2, NullAssumption DEF ledgerVars
      <4>3. ~ (wtx[i].status = "FAILED" /\ Leave(w))
        BY <2>0, <2>2, WorkerMoves DEF TopupInvariant
      <4>. QED  BY <4>1, <4>2, <4>3 DEF Credit
    <3>2. worker'[w].phase = "CREDITED" /\ worker'[w].top = i
      BY <2>0, <2>2, WorkerMoves DEF TopupInvariant
    <3>3. Informed(worker[w])'
      BY <1>1, <1>2, <3>1, <3>2 DEF Informed, Completed, Started
    <3>. QED  BY <2>0, <2>2, <3>3, WorkerMoves DEF TopupInvariant
  <2>. QED  BY <2>1, <2>2 DEF Credit
<1>6. LedgerTypeOK'
  BY TypingStep DEF TopupInvariant
<1>7. TopupTypeOK'
  BY <1>2, <1>5 DEF TopupInvariant, TopupTypeOK
<1>8. AttemptsBacked'
  BY <1>2, RowsStay DEF TopupInvariant, AttemptsBacked, Started
<1>9. WorkersInformed'
  <2>1. \A j \in TxIds : Started(j) => Started(j)'
    BY <1>3 DEF AttemptsKept
  <2>2. \A j \in TxIds : checkout[j] = "PAID" => checkout'[j] = "PAID"
    BY <1>2
  <2>. QED  BY <1>5, <2>1, <2>2, WorkersKept
<1>10. \A j \in TxIds : Completed(j) => Completed(j)'
  BY RowsStay DEF TopupInvariant, Completed
<1>11. CreditedOnlyIfPaid'
  BY <1>1, <1>2, <1>4, <1>10 DEF TopupInvariant, CreditedOnlyIfPaid, Completed, Started
<1>12. NotifiedOnce'
  BY <1>2, <1>10 DEF TopupInvariant, NotifiedOnce
<1>. QED  BY <1>6, <1>7, <1>8, <1>9, <1>11, <1>12 DEF TopupInvariant

\* The attempt succeeds, and the e-mail is sent, after the credit.
LEMMA SuccessStep ==
  ASSUME TopupInvariant, NEW w \in Reconcilers, MarkSucceeded(w), [LedgerNext]_ledgerVars
  PROVE  TopupInvariant'
<1>. DEFINE i == worker[w].top
<1>1. i \in TxIds /\ Started(i) /\ Completed(i) /\ attempt[i] \in AttemptRecords
  BY DEF MarkSucceeded, Working, TopupInvariant, WorkersInformed, Informed, TopupTypeOK, Started
<1>2. UNCHANGED <<wtx, opening, checkout, crashes, faults>>
  BY DEF MarkSucceeded, ledgerVars
<1>3. attempt' = [attempt EXCEPT ![i].status = "SUCCEEDED"]
  BY DEF MarkSucceeded, SetStatus
<1>4. /\ attempt'[i] \in AttemptRecords
      /\ attempt'[i].status = "SUCCEEDED"
      /\ \A j \in TxIds \ {i} : attempt'[j] = attempt[j]
      /\ attempt' \in [TxIds -> AttemptRecords \cup {NULL}]
  BY <1>1, <1>3 DEF AttemptRecords, AttemptStatuses, TopupInvariant, TopupTypeOK
<1>5. \A j \in TxIds : Started(j)' <=> Started(j)
  BY <1>1, <1>4, AttemptNullAssumption DEF Started
<1>6. \A j \in TxIds : Completed(j)' <=> Completed(j)
  BY <1>2 DEF Completed
<1>7. Leave(w) /\ "IDLE" \in Phases
  BY DEF MarkSucceeded, Phases
<1>8. /\ worker' \in [Reconcilers -> [phase : Phases, top : TxIds \cup {NULL}]]
      /\ \A v \in Reconcilers : worker'[v] = worker[v] \/ Informed(worker[v])'
  BY <1>7, WorkerMoves DEF Informed, TopupInvariant
<1>9. /\ notified' \in [TxIds -> Nat]
      /\ \A j \in TxIds \ {i} : notified'[j] = notified[j]
      /\ notified'[i] = notified[i] \/ (attempt[i].status # "SUCCEEDED" /\ notified'[i] = notified[i] + 1)
  BY <1>1 DEF MarkSucceeded, TopupInvariant, TopupTypeOK
<1>10. NotifiedOnce'
  <2>1. notified[i] \in Nat /\ notified[i] <= 1 /\ (notified[i] = 1 => attempt[i].status = "SUCCEEDED")
    BY <1>1 DEF TopupInvariant, TopupTypeOK, NotifiedOnce
  <2>2. notified'[i] <= 1
    BY <1>9, <2>1
  <2>. QED
    BY <1>1, <1>4, <1>6, <1>9, <2>2 DEF TopupInvariant, NotifiedOnce
<1>11. CreditedOnlyIfPaid'
  BY <1>1, <1>2, <1>4, <1>5, <1>6 DEF TopupInvariant, CreditedOnlyIfPaid
<1>12. LedgerTypeOK'
  BY TypingStep DEF TopupInvariant
<1>13. TopupTypeOK'
  BY <1>2, <1>4, <1>8, <1>9 DEF TopupInvariant, TopupTypeOK
<1>14. AttemptsBacked'
  BY <1>1, <1>2, <1>5, <1>9 DEF TopupInvariant, AttemptsBacked
<1>15. WorkersInformed'
  <2>1. \A j \in TxIds : Started(j) => Started(j)'
    BY <1>5
  <2>2. \A j \in TxIds : checkout[j] = "PAID" => checkout'[j] = "PAID"
    BY <1>2
  <2>. QED  BY <1>8, <2>1, <2>2, WorkersKept
<1>. QED  BY <1>10, <1>11, <1>12, <1>13, <1>14, <1>15 DEF TopupInvariant

\* A new attempt has a new pending transaction.
LEMMA StartStep ==
  ASSUME TopupInvariant, NEW id \in TxIds, NEW account \in Students \cup Vendors,
         NEW amount \in Amounts, NEW key \in Keys, NEW funded \in BOOLEAN,
         SaveAttempt(id, account, amount, key, funded), [LedgerNext]_ledgerVars
  PROVE  TopupInvariant'
<1>. DEFINE t == TopupSkeleton(account, amount, key)
            r == [status |-> "PENDING", funded |-> funded, link |-> FALSE]
<1>1. UNCHANGED <<checkout, worker, notified, crashes, faults>>
  BY DEF SaveAttempt
<1>2. wtx[id] = NULL /\ wtx' = [wtx EXCEPT ![id] = t]
  BY DEF SaveAttempt, StartTopup, NextRow
<1>3. ~ Started(id)
  BY <1>2 DEF TopupInvariant, AttemptsBacked
<1>4. t \in WalletTransactions /\ t.type \in TopupTypes /\ t.status = "PENDING"
  <2>1. t \in WalletTransactions
    BY PostingsTyped DEF TopupInvariant
  <2>. QED  BY <2>1 DEF TopupSkeleton, TopupTypes
<1>5. /\ wtx'[id] # NULL /\ wtx'[id].type \in TopupTypes /\ wtx'[id].status = "PENDING"
      /\ \A j \in TxIds \ {id} : wtx'[j] = wtx[j]
  BY <1>2, <1>4, NullAssumption DEF TopupInvariant, LedgerTypeOK
<1>6. r \in AttemptRecords /\ r # NULL /\ r.status = "PENDING"
  <2>1. r \in AttemptRecords /\ r.status = "PENDING"
    BY DEF AttemptRecords, AttemptStatuses
  <2>. QED  BY <2>1, AttemptNullAssumption
<1>7. attempt' = [attempt EXCEPT ![id] = r] /\ opening' = [opening EXCEPT ![id] = "CALLING"]
  BY DEF SaveAttempt
<1>. HIDE DEF t, r
<1>8. /\ attempt' \in [TxIds -> AttemptRecords \cup {NULL}]
      /\ attempt'[id] = r
      /\ \A j \in TxIds \ {id} : attempt'[j] = attempt[j] /\ opening'[j] = opening[j]
      /\ opening' \in [TxIds -> {"IDLE", "CALLING", "ANSWERED"}]
  BY <1>6, <1>7 DEF TopupInvariant, TopupTypeOK
<1>9. \A j \in TxIds : Started(j) => Started(j)'
  BY <1>3, <1>8 DEF Started
<1>10. ~ Completed(id)'
  BY <1>5 DEF Completed
<1>11. \A j \in TxIds \ {id} : Completed(j)' <=> Completed(j)
  BY <1>5 DEF Completed
<1>12. notified[id] # 1
  BY <1>3 DEF TopupInvariant, AttemptsBacked
<1>13. LedgerTypeOK'
  BY TypingStep DEF TopupInvariant
<1>14. TopupTypeOK'
  BY <1>1, <1>8 DEF TopupInvariant, TopupTypeOK
<1>15. AttemptsBacked'
  BY <1>1, <1>5, <1>6, <1>8 DEF TopupInvariant, AttemptsBacked, Started
<1>16. WorkersInformed'
  <2>1. \A j \in TxIds : checkout[j] = "PAID" => checkout'[j] = "PAID"
    BY <1>1
  <2>2. \A w \in Reconcilers : worker'[w] = worker[w]
    BY <1>1
  <2>. QED  BY <1>9, <2>1, <2>2, WorkersKept
<1>17. CreditedOnlyIfPaid'
  BY <1>1, <1>6, <1>8, <1>10, <1>11 DEF TopupInvariant, CreditedOnlyIfPaid, Started
<1>18. NotifiedOnce'
  BY <1>1, <1>8, <1>11, <1>12 DEF TopupInvariant, NotifiedOnce
<1>. QED  BY <1>13, <1>14, <1>15, <1>16, <1>17, <1>18 DEF TopupInvariant

\* A payout touches no attempt: its row is new.
LEMMA EnvironmentStep ==
  ASSUME TopupInvariant, LedgerEnvironment, [LedgerNext]_ledgerVars
  PROVE  TopupInvariant'
<1>1. PICK id \in TxIds, v \in Vendors, a \in Amounts, k \in Keys : PostPayout(id, v, a, k)
  BY DEF LedgerEnvironment
<1>2. UNCHANGED topupVars
  BY DEF LedgerEnvironment
<1>3. wtx[id] = NULL /\ \A j \in TxIds \ {id} : wtx'[j] = wtx[j]
  BY <1>1 DEF PostPayout, Post, NextRow, TopupInvariant, LedgerTypeOK
<1>4. \A j \in TxIds : Started(j) /\ Completed(j)' => Completed(j)
  BY <1>3 DEF TopupInvariant, AttemptsBacked, Completed
<1>5. TopupTypeOK' /\ AttemptsKept
  BY <1>2 DEF topupVars, TopupInvariant, TopupTypeOK, AttemptsKept, Started, Succeeded
<1>6. /\ \A j \in TxIds : checkout[j] = "PAID" => checkout'[j] = "PAID"
      /\ \A j \in TxIds : opening'[j] # "IDLE" \/ checkout'[j] # "NONE" => Started(j)
      /\ \A w \in Reconcilers : worker'[w] = worker[w] \/ Informed(worker[w])'
      /\ notified' = notified
  BY <1>2 DEF topupVars, TopupInvariant, AttemptsBacked
<1>. QED  BY <1>4, <1>5, <1>6, QuietStep

\* Every step keeps the invariant.
LEMMA TopupInvariantStep ==
  ASSUME TopupInvariant, [Next]_vars
  PROVE  TopupInvariant'
<1>1. [LedgerNext]_ledgerVars
  BY TopupStepsUseLedger
<1>2. ASSUME NEW id \in TxIds, NEW a \in Amounts, NEW k \in Keys,
             \/ \E s \in Students : CreateWalletTopup(id, s, a, k) \/ CreateFunderTopup(id, s, a, k)
             \/ \E v \in Vendors : CreateVendorWalletTopup(id, v, a, k)
      PROVE  TopupInvariant'
  <2>1. PICK account \in Students \cup Vendors, funded \in BOOLEAN :
          SaveAttempt(id, account, a, k, funded)
    BY <1>2 DEF CreateWalletTopup, CreateFunderTopup, CreateVendorWalletTopup
  <2>. QED  BY <1>1, <2>1, StartStep
<1>3. ASSUME NEW i \in TxIds,
             \/ OpenCheckout(i) \/ StoreLink(i) \/ RejectAnswer(i) \/ InitializeUnknown(i)
             \/ InitializeFailed(i) \/ StopOpening(i) \/ AnswerSettled(i)
             \/ \E outcome \in {"PAID", "MISPAID", "DECLINED"} : PayCheckout(i, outcome)
      PROVE  TopupInvariant'
  BY <1>1, <1>3, OpeningSteps
<1>4. ASSUME NEW w \in Reconcilers, QuietWork(w)
      PROVE  TopupInvariant'
  BY <1>1, <1>4, QuietWorkSteps
<1>5. ASSUME NEW w \in Reconcilers, Credit(w) \/ MarkSucceeded(w)
      PROVE  TopupInvariant'
  BY <1>1, <1>5, CreditStep, SuccessStep
<1>6. ASSUME LedgerEnvironment
      PROVE  TopupInvariant'
  BY <1>1, <1>6, EnvironmentStep
<1>7. ASSUME UNCHANGED vars
      PROVE  TopupInvariant'
  <2>1. /\ TopupTypeOK' /\ AttemptsKept
        /\ \A j \in TxIds : Completed(j)' => Completed(j)
    BY <1>7 DEF vars, ledgerVars, topupVars, TopupInvariant, TopupTypeOK, AttemptsKept, Started,
       Succeeded, Completed
  <2>2. /\ \A j \in TxIds : checkout[j] = "PAID" => checkout'[j] = "PAID"
        /\ \A j \in TxIds : opening'[j] # "IDLE" \/ checkout'[j] # "NONE" => Started(j)
        /\ \A w \in Reconcilers : worker'[w] = worker[w] \/ Informed(worker[w])'
        /\ notified' = notified
    BY <1>7 DEF vars, topupVars, TopupInvariant, AttemptsBacked
  <2>. QED  BY <1>1, <2>1, <2>2, QuietStep
<1>. QED
  BY <1>2, <1>3, <1>4, <1>5, <1>6, <1>7 DEF Next, Work, QuietWork

\* Nothing has been started.
LEMMA TopupInvariantInit ==
  ASSUME Init
  PROVE  TopupInvariant
<1>1. LedgerTypeOK
  BY TypingInit DEF Init
<1>2. TopupTypeOK
  BY TopupAssumption DEF Init, TopupTypeOK, Idle, Phases, CheckoutStates
<1>3. AttemptsBacked /\ CreditedOnlyIfPaid /\ NotifiedOnce
  BY DEF Init, AttemptsBacked, CreditedOnlyIfPaid, NotifiedOnce, Started
<1>4. WorkersInformed
  BY DEF Init, WorkersInformed, Informed, Idle
<1>. QED  BY <1>1, <1>2, <1>3, <1>4 DEF TopupInvariant

-----------------------------------------------------------------------------
(* Theorems. *)

\* The inductive invariant: attempts are backed by transactions, and what a
\* reconciler has learnt stays true while others work on the same attempt.
THEOREM TopupsInvariant == Spec => []TopupInvariant
<1>1. Init => TopupInvariant
  BY TopupInvariantInit
<1>2. TopupInvariant /\ [Next]_vars => TopupInvariant'
  BY TopupInvariantStep
<1>. QED  BY <1>1, <1>2, PTL DEF Spec

\* The state of attempts, checkouts and reconcilers is well-typed.
THEOREM TopupsTyping == Spec => []TopupTypeOK
<1>1. TopupInvariant => TopupTypeOK
  BY DEF TopupInvariant
<1>. QED  BY <1>1, TopupsInvariant, PTL

\* A wallet is credited only for a payment the provider captured, and an
\* attempt succeeds only once it is credited (reconcileWalletTopup).
THEOREM CreditsArePaid == Spec => []CreditedOnlyIfPaid
<1>1. TopupInvariant => CreditedOnlyIfPaid
  BY DEF TopupInvariant
<1>. QED  BY <1>1, TopupsInvariant, PTL

\* However many reconcilers meet, one of them sends the e-mail about a
\* funder's payment (the conditional success of reconcileWalletTopup).
THEOREM OneNotification == Spec => []NotifiedOnce
<1>1. TopupInvariant => NotifiedOnce
  BY DEF TopupInvariant
<1>. QED  BY <1>1, TopupsInvariant, PTL

\* Top-ups move money only by steps of the ledger: what is proved of the
\* ledger holds of them.
THEOREM TopupsUseLedger == Spec => LedgerSpec
<1>1. Init => LedgerInit
  BY DEF Init
<1>2. TopupInvariant /\ [Next]_vars => [LedgerNext]_ledgerVars
  BY TopupStepsUseLedger
<1>. QED  BY <1>1, <1>2, TopupsInvariant, PTL DEF Spec, LedgerSpec
=============================================================================
