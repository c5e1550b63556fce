----------------------------- MODULE WalletTopups -----------------------------
(***************************************************************************)
(* Top-ups of student wallets, by the student or an external funder        *)
(* (src/src/lib/payments/topups.ts), and of overdrawn vendor wallets       *)
(* (src/src/lib/vendors/walletTopups.ts).  An attempt is saved with its    *)
(* pending transaction, a checkout is opened with the provider, the payer  *)
(* pays there, and a reconciler (the payer's return, the webhook or the    *)
(* sweep) verifies the reference and credits the wallet.                   *)
(*                                                                         *)
(* Unlike postings, a reconciliation is a string of separate statements:   *)
(* each is a step, and reconcilers of one attempt interleave.  The         *)
(* provider is external; "checkout" is its own view of an attempt.         *)
(***************************************************************************)
EXTENDS WalletLedger

CONSTANTS
  Reconcilers,  \* reconciliations that may run at once
  MaxCrashes,   \* how often a handler stops
  MaxFaults     \* how often the provider does not answer

ASSUME TopupAssumption == MaxCrashes \in Nat /\ MaxFaults \in Nat

AttemptStatuses == {"PENDING", "SUCCEEDED", "FAILED", "UNKNOWN"}
Unresolved == {"PENDING", "UNKNOWN"}

\* The provider's view; MISPAID is a success that does not match the attempt.
CheckoutStates == {"NONE", "OPEN", "PAID", "MISPAID", "DECLINED"}

AttemptRecords ==
  [status : AttemptStatuses, funded : BOOLEAN, link : BOOLEAN]

Phases ==
  {"IDLE", "VERIFYING", "UNSURE", "REFUSED", "FAILING", "CONFIRMED", "ATTRIBUTED", "CREDITED"}

VARIABLES
  attempt,   \* the attempt of each top-up transaction: [TxIds -> record or NULL]
  opening,   \* the handler that opens the checkout of an attempt
  checkout,  \* the provider's state of it (external)
  worker,    \* the reconcilers
  notified,  \* e-mails sent to the student about a funder's payment
  crashes,
  faults

topupVars == <<attempt, opening, checkout, worker, notified, crashes, faults>>
vars == <<ledgerVars, topupVars>>

ASSUME AttemptNullAssumption == NULL \notin AttemptRecords

TopupTypeOK ==
  /\ attempt \in [TxIds -> AttemptRecords \cup {NULL}]
  /\ opening \in [TxIds -> {"IDLE", "CALLING", "ANSWERED"}]
  /\ checkout \in [TxIds -> CheckoutStates]
  /\ worker \in [Reconcilers -> [phase : Phases, top : TxIds \cup {NULL}]]
  /\ notified \in [TxIds -> Nat]
  /\ crashes \in 0 .. MaxCrashes
  /\ faults \in 0 .. MaxFaults

Idle == [phase |-> "IDLE", top |-> NULL]

Init ==
  /\ LedgerInit
  /\ attempt = [i \in TxIds |-> NULL]
  /\ opening = [i \in TxIds |-> "IDLE"]
  /\ checkout = [i \in TxIds |-> "NONE"]
  /\ worker = [w \in Reconcilers |-> Idle]
  /\ notified = [i \in TxIds |-> 0]
  /\ crashes = 0
  /\ faults = 0

-----------------------------------------------------------------------------

Started(i) == attempt[i] # NULL
OfVendor(i) == wtx[i].credit \in Vendors
UnresolvedOf(account) ==
  {i \in TxIds : Started(i) /\ wtx[i].credit = account /\ attempt[i].status \in Unresolved}

Fail(i) == wtx' = [wtx EXCEPT ![i].status = "FAILED"]

\* What the constraints of the attempt tables let a status write do.  The
\* completion time of a succeeded attempt is never cleared, so terminal_check
\* refuses any other status; one_unresolved keeps a vendor to one open attempt.
Allowed(i, status) ==
  /\ attempt[i].status = "SUCCEEDED" => status = "SUCCEEDED"
  /\ OfVendor(i) /\ status \in Unresolved => UnresolvedOf(wtx[i].credit) \subseteq {i}

SetStatus(i, status) == attempt' = [attempt EXCEPT ![i].status = status]

\* The write, or the error of the constraint that refuses it.
TryStatus(i, status) ==
  IF Allowed(i, status) THEN SetStatus(i, status) ELSE attempt' = attempt

-----------------------------------------------------------------------------
(* Start: phase A saves the attempt, phase B opens the checkout.  The limits on
   the rate of funders' attempts are left out: they only refuse. *)

SaveAttempt(id, account, amount, key, funded) ==
  /\ StartTopup(id, account, amount, key)
  /\ attempt' = [attempt EXCEPT ![id] =
                   [status |-> "PENDING", funded |-> funded, link |-> FALSE]]
  /\ opening' = [opening EXCEPT ![id] = "CALLING"]
  /\ UNCHANGED <<checkout, worker, notified, crashes, faults>>

CreateWalletTopup(id, student, amount, key) ==
  SaveAttempt(id, student, amount, key, FALSE)

CreateFunderTopup(id, student, amount, key) ==
  SaveAttempt(id, student, amount, key, TRUE)

\* T2 is in StartTopup; T3: one unresolved attempt of a vendor.  A vendor that
\* is suspended here is suspended for its overdraft, which T4 allows.
CreateVendorWalletTopup(id, vendor, amount, key) ==
  /\ profile[vendor] \in {"APPROVED", "SUSPENDED"}
  /\ UnresolvedOf(vendor) = {}
  /\ SaveAttempt(id, vendor, amount, key, FALSE)

\* External: the provider opens the checkout.
OpenCheckout(i) ==
  /\ opening[i] = "CALLING"
  /\ checkout[i] = "NONE"
  /\ checkout' = [checkout EXCEPT ![i] = "OPEN"]
  /\ opening' = [opening EXCEPT ![i] = "ANSWERED"]
  /\ UNCHANGED <<ledgerVars, attempt, worker, notified, crashes, faults>>

\* The answer is stored and the payer gets the link.  A student's attempt is
\* set to PENDING again, whatever it has become; a vendor's keeps its status.
StoreLink(i) ==
  LET status == IF OfVendor(i) THEN attempt[i].status ELSE "PENDING"
  IN /\ opening[i] = "ANSWERED"
     /\ opening' = [opening EXCEPT ![i] = "IDLE"]
     /\ attempt' = IF Allowed(i, status)
                   THEN [attempt EXCEPT ![i].status = status, ![i].link = TRUE]
                   ELSE attempt
     /\ UNCHANGED <<ledgerVars, checkout, worker, notified, crashes, faults>>

\* An answer for another reference: the attempt is left to reconciliation.
RejectAnswer(i) ==
  /\ opening[i] = "ANSWERED"
  /\ faults < MaxFaults
  /\ faults' = faults + 1
  /\ opening' = [opening EXCEPT ![i] = "IDLE"]
  /\ TryStatus(i, "UNKNOWN")
  /\ UNCHANGED <<ledgerVars, checkout, worker, notified, crashes>>

\* A timeout or a lost connection.  For a student, the transaction is touched
\* too, which its trigger refuses once it is settled; both writes roll back.
InitializeUnknown(i) ==
  /\ opening[i] # "IDLE"
  /\ faults < MaxFaults
  /\ faults' = faults + 1
  /\ opening' = [opening EXCEPT ![i] = "IDLE"]
  /\ IF OfVendor(i) \/ wtx[i].status = "PENDING"
     THEN TryStatus(i, "UNKNOWN")
     ELSE attempt' = attempt
  /\ UNCHANGED <<ledgerVars, checkout, worker, notified, crashes>>

\* Any other error: attempt and transaction fail together or not at all.
InitializeFailed(i) ==
  /\ opening[i] # "IDLE"
  /\ opening' = [opening EXCEPT ![i] = "IDLE"]
  /\ IF wtx[i].status = "PENDING" /\ Allowed(i, "FAILED")
     THEN SetStatus(i, "FAILED") /\ Fail(i)
     ELSE UNCHANGED <<attempt, wtx>>
  /\ UNCHANGED <<balance, negativeSince, settingsVars, now,
                 checkout, worker, notified, crashes, faults>>

StopOpening(i) ==
  /\ opening[i] # "IDLE"
  /\ crashes < MaxCrashes
  /\ crashes' = crashes + 1
  /\ opening' = [opening EXCEPT ![i] = "IDLE"]
  /\ UNCHANGED <<ledgerVars, attempt, checkout, worker, notified, faults>>

\* External: the payer pays or is declined.  A checkout the payer left, which
\* the provider reports as abandoned, can still be paid.
PayCheckout(i, outcome) ==
  /\ checkout[i] = "OPEN"
  /\ attempt[i].link
  /\ checkout' = [checkout EXCEPT ![i] = outcome]
  /\ UNCHANGED <<ledgerVars, attempt, opening, worker, notified, crashes, faults>>

-----------------------------------------------------------------------------
(* Reconciliation. *)

Working(w, phase) == worker[w].phase = phase
Goto(w, phase) == worker' = [worker EXCEPT ![w].phase = phase]
Leave(w) == worker' = [worker EXCEPT ![w] = Idle]

\* Faulty variant: an uncertain attempt is not taken up again.
SettledIfChecked(i) ==
  \/ attempt[i].status # "PENDING"
  \/ ~ OfVendor(i) /\ wtx[i].status # "PENDING"

\* Faulty variant: the early return of students, copied for vendors.
SettledLikeStudents(i) ==
  \/ attempt[i].status \notin Unresolved
  \/ wtx[i].status # "PENDING"

Settled(i) ==
  \/ attempt[i].status \notin Unresolved
  \/ ~ OfVendor(i) /\ wtx[i].status # "PENDING"

\* The early returns.
AnswerSettled(i) == Started(i) /\ Settled(i) /\ UNCHANGED vars

FirstPhase == [PENDING |-> "VERIFYING", COMPLETED |-> "CREDITED", FAILED |-> "FAILING"]

\* The attempt is read.  A vendor's attempt whose transaction is settled is
\* repaired; otherwise the provider is asked.
BeginReconcile(w, i) ==
  /\ Working(w, "IDLE")
  /\ Started(i)
  /\ ~ Settled(i)
  /\ worker' = [worker EXCEPT ![w] =
       [top |-> i,
        phase |-> FirstPhase[wtx[i].status]]]
  /\ UNCHANGED <<ledgerVars, attempt, opening, checkout, notified, crashes, faults>>

\* What verification can conclude: an unknown reference is an error of the
\* provider, and an open checkout is reported as ongoing or as abandoned.  A
\* mismatch has the same effect as a provider id that another attempt holds.
VerdictsOf ==
  [NONE |-> {"UNSURE"}, OPEN |-> {"UNSURE", "REFUSED"}, MISPAID |-> {"UNSURE"},
   DECLINED |-> {"REFUSED"}, PAID |-> {"CONFIRMED"}]

\* Faulty variant: a success is not compared with the attempt.
VerdictWithoutMatch(i) == [VerdictsOf EXCEPT !.MISPAID = {"CONFIRMED"}][checkout[i]]

Verdict(i) == VerdictsOf[checkout[i]]

Verify(w) ==
  /\ Working(w, "VERIFYING")
  /\ \E verdict \in Verdict(worker[w].top) : Goto(w, verdict)
  /\ UNCHANGED <<ledgerVars, attempt, opening, checkout, notified, crashes, faults>>

VerifyFault(w) ==
  /\ Working(w, "VERIFYING")
  /\ faults < MaxFaults
  /\ faults' = faults + 1
  /\ Goto(w, "UNSURE")
  /\ UNCHANGED <<ledgerVars, attempt, opening, checkout, notified, crashes>>

MarkUnknown(w) ==
  /\ Working(w, "UNSURE")
  /\ TryStatus(worker[w].top, "UNKNOWN")
  /\ Leave(w)
  /\ UNCHANGED <<ledgerVars, opening, checkout, notified, crashes, faults>>

\* A refusal takes two writes: a student's attempt fails first, a vendor's
\* transaction first.  An error in the first leaves out the second.
RefuseStudentTopup(w) ==
  LET i == worker[w].top
  IN /\ Working(w, "REFUSED")
     /\ ~ OfVendor(i)
     /\ TryStatus(i, "FAILED")
     /\ IF Allowed(i, "FAILED") THEN Goto(w, "FAILING") ELSE Leave(w)
     /\ UNCHANGED <<ledgerVars, opening, checkout, notified, crashes, faults>>

RefuseVendorTopup(w) ==
  LET i == worker[w].top
  IN /\ Working(w, "REFUSED")
     /\ OfVendor(i)
     /\ IF wtx[i].status = "PENDING"
        THEN Fail(i) /\ Goto(w, "FAILING")
        ELSE wtx' = wtx /\ Leave(w)
     /\ UNCHANGED <<balance, negativeSince, settingsVars, now,
                    attempt, opening, checkout, notified, crashes, faults>>

FinishRefusal(w) ==
  LET i == worker[w].top
  IN /\ Working(w, "FAILING")
     /\ IF OfVendor(i)
        THEN TryStatus(i, "FAILED") /\ wtx' = wtx
        ELSE /\ attempt' = attempt
             /\ IF wtx[i].status = "PENDING" THEN Fail(i) ELSE wtx' = wtx
     /\ Leave(w)
     /\ UNCHANGED <<balance, negativeSince, settingsVars, now,
                    opening, checkout, notified, crashes, faults>>

\* The provider's id is stored, which a settled transaction refuses.
Attribute(w) ==
  /\ Working(w, "CONFIRMED")
  /\ IF wtx[worker[w].top].status = "PENDING" THEN Goto(w, "ATTRIBUTED") ELSE Leave(w)
  /\ UNCHANGED <<ledgerVars, attempt, opening, checkout, notified, crashes, faults>>

\* Faulty variant: completePendingCredit does not reread the status.
CreditAgain(w) ==
  LET i == worker[w].top
  IN /\ Working(w, "ATTRIBUTED")
     /\ wtx' = [wtx EXCEPT ![i].status = "COMPLETED"]
     /\ ApplyEntries(wtx[i])
     /\ Goto(w, "CREDITED")
     /\ UNCHANGED <<settingsVars, now, attempt, opening, checkout, notified, crashes, faults>>

\* completePendingCredit: once, and never after a failure.
Credit(w) ==
  LET i == worker[w].top
  IN /\ Working(w, "ATTRIBUTED")
     /\ \/ CompleteTopup(i) /\ Goto(w, "CREDITED")
        \/ wtx[i].status = "COMPLETED" /\ Goto(w, "CREDITED") /\ UNCHANGED ledgerVars
        \/ wtx[i].status = "FAILED" /\ Leave(w) /\ UNCHANGED ledgerVars
     /\ UNCHANGED <<attempt, opening, checkout, notified, crashes, faults>>

\* The reconciler that changes the status sends the e-mail.  (A vendor's
\* reinstatement follows here: module VendorOverdraft.)
MarkSucceeded(w) ==
  LET i == worker[w].top
  IN /\ Working(w, "CREDITED")
     /\ SetStatus(i, "SUCCEEDED")
     /\ notified' = IF attempt[i].funded /\ attempt[i].status # "SUCCEEDED"
                    THEN [notified EXCEPT ![i] = @ + 1] ELSE notified
     /\ Leave(w)
     /\ UNCHANGED <<ledgerVars, opening, checkout, crashes, faults>>

StopReconciler(w) ==
  /\ ~ Working(w, "IDLE")
  /\ crashes < MaxCrashes
  /\ crashes' = crashes + 1
  /\ Leave(w)
  /\ UNCHANGED <<ledgerVars, attempt, opening, checkout, notified, faults>>

-----------------------------------------------------------------------------
(* The rest of the system: a payout overdraws a vendor. *)

LedgerEnvironment ==
  /\ \E id \in TxIds, v \in Vendors, a \in Amounts, k \in Keys : PostPayout(id, v, a, k)
  /\ UNCHANGED topupVars

Work(w) ==
  \/ Verify(w)
  \/ VerifyFault(w)
  \/ MarkUnknown(w)
  \/ RefuseStudentTopup(w)
  \/ RefuseVendorTopup(w)
  \/ FinishRefusal(w)
  \/ Attribute(w)
  \/ Credit(w)
  \/ MarkSucceeded(w)

Next ==
  \/ \E id \in TxIds, a \in Amounts, k \in Keys :
       \/ \E s \in Students : CreateWalletTopup(id, s, a, k) \/ CreateFunderTopup(id, s, a, k)
       \/ \E v \in Vendors : CreateVendorWalletTopup(id, v, a, k)
  \/ \E i \in TxIds :
       \/ OpenCheckout(i)
       \/ StoreLink(i)
       \/ RejectAnswer(i)
       \/ InitializeUnknown(i)
       \/ InitializeFailed(i)
       \/ StopOpening(i)
       \/ \E outcome \in {"PAID", "MISPAID", "DECLINED"} : PayCheckout(i, outcome)
       \/ AnswerSettled(i)
       \/ \E w \in Reconcilers : BeginReconcile(w, i)
  \/ \E w \in Reconcilers : Work(w) \/ StopReconciler(w)
  \/ LedgerEnvironment

\* The sweeps take the unresolved attempts they left alone longest first, so
\* none is passed over for good while fewer than a batch of them are stuck.
\* The payer, the provider's opening of a checkout and its errors are not fair.
SweepStep(i) ==
  \E w \in Reconcilers : BeginReconcile(w, i) \/ (worker[w].top = i /\ Work(w))

Spec == Init /\ [][Next]_vars /\ \A i \in TxIds : SF_vars(SweepStep(i))

-----------------------------------------------------------------------------
(* Properties. *)

\* Money is credited only for a payment the provider captured, in full; an
\* attempt is reported as succeeded only once it is credited.
CreditedOnlyIfPaid ==
  \A i \in TxIds : Started(i) =>
    /\ Completed(i) => checkout[i] = "PAID"
    /\ attempt[i].status = "SUCCEEDED" => Completed(i)

\* The student is told of a funder's payment at most once, and only of one
\* that was credited, however many reconcilers meet.
NotifiedOnce ==
  \A i \in TxIds :
    /\ notified[i] <= 1
    /\ notified[i] = 1 => Completed(i) /\ attempt[i].status = "SUCCEEDED"

\* A captured payment is credited in the end, whatever answers were lost and
\* handlers stopped, unless its attempt or transaction was failed.
PaidIsCredited ==
  \A i \in TxIds :
    Started(i) /\ checkout[i] = "PAID" ~>
      \/ Completed(i)
      \/ Started(i) /\ "FAILED" \in {wtx[i].status, attempt[i].status}

\* An unresolved attempt of a vendor whose transaction is settled does not
\* stay so: it would block the vendor's next top-up for good.
VendorAttemptIsRepaired ==
  \A i \in TxIds :
    Started(i) /\ OfVendor(i) /\ wtx[i].status # "PENDING" ~>
      Started(i) /\ attempt[i].status \notin Unresolved
=============================================================================
