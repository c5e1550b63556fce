------------------------ MODULE InvoicePaymentsProofs ------------------------
(***************************************************************************)
(* Theorems about InvoicePayments, for every set of invoices, attempts and *)
(* confirmations and every number of crashes: an invoice is settled by one *)
(* payment, and the code implements InvoiceLifecycle; and about            *)
(* InvoiceGeneration, for every number of charges, runs and months: what   *)
(* an invoice bills is final; and about CredentialRenewals, for every      *)
(* number of workers, offers and troubles: a cancellation is final.        *)
(***************************************************************************)
EXTENDS InvoicePayments, InvoiceGeneration, CredentialRenewals, WellFoundedInduction, TLAPS

\* Only a saved attempt of an issued invoice is opened, paid or has an event.
AttemptsBacked ==
  \A a \in Attempts :
    /\ Started(a) => invoice[InvoiceOf(a)].status # "NONE"
    /\ opening[a] # "IDLE" \/ checkout[a] # "NONE" \/ event[a] # "NONE" => Started(a)

\* What a confirmation has learnt of its attempt, or done with it, stays true.
Informed(r) ==
  r.phase # "IDLE" =>
    /\ r.attempt \in Attempts
    /\ Started(r.attempt)
    /\ r.phase \in {"PAID", "RECEIPTED", "SUCCEEDED", "ALLOCATING", "SETTLING", "EXCESS"}
         => checkout[r.attempt] = "PAID"
    /\ r.phase \in {"RECEIPTED", "SUCCEEDED", "ALLOCATING", "SETTLING", "EXCESS"}
         => r.attempt \in receipt
    /\ r.phase \in {"SUCCEEDED", "ALLOCATING", "SETTLING", "EXCESS"}
         => attempt[r.attempt].status = "SUCCEEDED"
    /\ r.phase = "SETTLING" => allocation[InvoiceOf(r.attempt)] = r.attempt
    /\ r.phase = "EXCESS" => allocation[InvoiceOf(r.attempt)] \notin {r.attempt, NULL}

HandlersInformed == \A h \in Handlers : Informed(handler[h])

PaymentInvariant == SettledOnce /\ AttemptsBacked /\ HandlersInformed

-----------------------------------------------------------------------------
(* The model's operators. *)

\* A set of numbers up to a bound that is not empty has a greatest one.
LEMMA LatestOf ==
  ASSUME NEW n \in Nat, NEW S, S \subseteq 1 .. n, S # {}
  PROVE  Max(S) \in S
<1>. DEFINE T == {n - a : a \in S}
<1>1. T \subseteq Nat /\ T # {}
  <2>1. \A a \in S : n - a \in Nat
    OBVIOUS
  <2>. QED  BY <2>1
<1>2. PICK x \in T : \A y \in T : <<y, x>> \notin OpToRel(<, Nat)
  BY <1>1, NatLessThanWellFounded, WFMin, Zenon
<1>3. \A y \in T : y >= x
  <2>. SUFFICES ASSUME NEW y \in T  PROVE y >= x
    OBVIOUS
  <2>1. x \in Nat /\ y \in Nat
    BY <1>1
  <2>. HIDE DEF T
  <2>2. ~ (y < x)
    BY <1>2, <2>1 DEF OpToRel
  <2>. QED  BY <2>1, <2>2
<1>4. PICK m \in S : x = n - m
  BY <1>2
<1>5. \A a \in S : m >= a
  <2>. SUFFICES ASSUME NEW a \in S  PROVE m >= a
    OBVIOUS
  <2>1. n - a >= x
    BY <1>3
  <2>. QED  BY <1>4, <2>1
<1>. QED
  BY <1>5 DEF Max

\* A set of attempts that is not empty has a latest one.
LEMMA LatestAttempt ==
  ASSUME NEW S, S \subseteq Attempts, S # {}
  PROVE  Max(S) \in S
BY LatestOf, PaymentAssumption DEF Attempts

\* The guard of the table: a success is not overwritten.
LEMMA GuardKeepsSuccess ==
  ASSUME NEW a \in Attempts, attempt[a] \in AttemptRecords,
         attempt[a].status = "SUCCEEDED",
         NEW status \in AttemptStatuses, CanBecome(a, status)
  PROVE  status = "SUCCEEDED"
  BY DEF CanBecome, Transitions

\* What a step takes back from nobody: a saved attempt keeps its invoice and a
\* success, a payment made in full, its receipt and an allocation stay, and an
\* issued or paid invoice stays so.
Keeps ==
  /\ \A a \in Attempts :
       Started(a) => /\ attempt'[a] # NULL
                     /\ attempt'[a].invoice = attempt[a].invoice
                     /\ attempt[a].status = "SUCCEEDED" => attempt'[a].status = "SUCCEEDED"
  /\ \A a \in Attempts : checkout[a] = "PAID" => checkout'[a] = "PAID"
  /\ receipt \subseteq receipt'
  /\ \A i \in Invoices : allocation[i] # NULL => allocation'[i] = allocation[i]
  /\ \A i \in Invoices : invoice[i].status # "NONE" => invoice'[i].status # "NONE"

\* Giving up the latest attempt of an invoice for a new one changes no other,
\* and not one that succeeded.
LEMMA PreparedAttempt ==
  ASSUME PaymentTypeOK, NEW i \in Invoices, NEW a \in Attempts, PrepareAttempt(i, a)
  PROVE  /\ attempt' \in [Attempts -> AttemptRecords \cup {NULL}]
         /\ attempt'[a] = [invoice |-> i, status |-> "PREPARING", link |-> FALSE]
         /\ \A b \in Attempts \ {a} :
              /\ attempt'[b] # attempt[b] => Started(b)
              /\ Started(b) => /\ attempt'[b] # NULL
                               /\ attempt'[b].invoice = attempt[b].invoice
                               /\ attempt'[b].status = "SUCCEEDED" <=> attempt[b].status = "SUCCEEDED"
<1>. DEFINE earlier == AttemptsOf(i)
            latest == IF earlier = {} THEN NULL ELSE Max(earlier)
            retired == IF latest # NULL /\ attempt[latest].status \in Unresolved
                       THEN [attempt EXCEPT ![latest].status = "FAILED"]
                       ELSE attempt
            new == [invoice |-> i, status |-> "PREPARING", link |-> FALSE]
<1>1. attempt' = [retired EXCEPT ![a] = new]
  BY DEF PrepareAttempt
<1>2. latest # NULL => latest \in Attempts /\ attempt[latest] \in AttemptRecords
  <2>1. earlier \subseteq Attempts
    BY DEF AttemptsOf
  <2>2. CASE earlier = {}
    BY <2>2
  <2>3. CASE earlier # {}
    <3>1. latest \in earlier
      BY <2>1, <2>3, LatestAttempt
    <3>. QED  BY <3>1 DEF AttemptsOf, Started, PaymentTypeOK
  <2>. QED  BY <2>2, <2>3
<1>. HIDE DEF earlier, latest
<1>3. new \in AttemptRecords
  BY DEF AttemptRecords, AttemptStatuses
<1>4. retired \in [Attempts -> AttemptRecords \cup {NULL}]
  BY <1>2 DEF PaymentTypeOK, AttemptRecords, AttemptStatuses
<1>5. ASSUME NEW b \in Attempts, retired[b] # attempt[b]
      PROVE  /\ Started(b)
             /\ retired[b] \in AttemptRecords
             /\ retired[b].invoice = attempt[b].invoice
             /\ retired[b].status # "SUCCEEDED" /\ attempt[b].status # "SUCCEEDED"
  <2>1. /\ b = latest /\ attempt[b].status \in Unresolved
        /\ retired[b] = [attempt[b] EXCEPT !.status = "FAILED"]
    BY <1>5 DEF PaymentTypeOK
  <2>2. latest # NULL
    BY <2>1, PaymentNullAssumption
  <2>3. attempt[b] \in AttemptRecords
    BY <1>2, <2>1, <2>2
  <2>. QED
    BY <2>1, <2>3, PaymentNullAssumption
    DEF AttemptRecords, AttemptStatuses, Unresolved, Sweepable, Started
<1>. HIDE DEF retired, new
<1>6. attempt'[a] = new /\ attempt' \in [Attempts -> AttemptRecords \cup {NULL}]
  BY <1>1, <1>3, <1>4
<1>7. \A b \in Attempts \ {a} : attempt'[b] = retired[b]
  BY <1>1, <1>4
<1>. QED
  BY <1>5, <1>6, <1>7, PaymentNullAssumption DEF new, Started

-----------------------------------------------------------------------------
(* Every step keeps what was recorded. *)

\* The table is written by openings and confirmations: each respects the guard.
LEMMA StatusWrite ==
  ASSUME PaymentTypeOK, NEW a \in Attempts, Started(a),
         NEW status \in AttemptStatuses, NEW link \in BOOLEAN, CanBecome(a, status),
         \/ attempt' = [attempt EXCEPT ![a].status = status]
         \/ attempt' = [attempt EXCEPT ![a].status = status, ![a].link = link]
  PROVE  /\ attempt' \in [Attempts -> AttemptRecords \cup {NULL}]
         /\ attempt'[a].status = status
         /\ \A b \in Attempts :
              Started(b) => /\ attempt'[b] # NULL
                            /\ attempt'[b].invoice = attempt[b].invoice
                            /\ attempt[b].status = "SUCCEEDED" => attempt'[b].status = "SUCCEEDED"
                            /\ b # a => attempt'[b].status = attempt[b].status
         /\ \A b \in Attempts : ~ Started(b) => attempt'[b] = NULL
<1>1. attempt[a] \in AttemptRecords
  BY DEF Started, PaymentTypeOK
<1>2. /\ attempt'[a] \in AttemptRecords
      /\ attempt'[a].status = status
      /\ attempt'[a].invoice = attempt[a].invoice
      /\ \A b \in Attempts \ {a} : attempt'[b] = attempt[b]
      /\ attempt' \in [Attempts -> AttemptRecords \cup {NULL}]
  <2>1. ASSUME NEW new \in AttemptRecords, attempt' = [attempt EXCEPT ![a] = new]
        PROVE  /\ attempt'[a] = new
               /\ \A b \in Attempts \ {a} : attempt'[b] = attempt[b]
               /\ attempt' \in [Attempts -> AttemptRecords \cup {NULL}]
    BY <2>1 DEF PaymentTypeOK
  <2>2. CASE attempt' = [attempt EXCEPT ![a].status = status]
    <3>. DEFINE new == [attempt[a] EXCEPT !.status = status]
    <3>1. attempt' = [attempt EXCEPT ![a] = new]
      BY <2>2
    <3>2. /\ new \in AttemptRecords /\ new.status = status
          /\ new.invoice = attempt[a].invoice
      BY <1>1 DEF AttemptRecords
    <3>. HIDE DEF new
    <3>. QED  BY <2>1, <3>1, <3>2
  <2>3. CASE attempt' = [attempt EXCEPT ![a].status = status, ![a].link = link]
    <3>. DEFINE new == [attempt[a] EXCEPT !.status = status, !.link = link]
    <3>1. attempt' = [attempt EXCEPT ![a] = new]
      BY <2>3 DEF PaymentTypeOK
    <3>2. /\ new \in AttemptRecords /\ new.status = status
          /\ new.invoice = attempt[a].invoice
      BY <1>1 DEF AttemptRecords
    <3>. HIDE DEF new
    <3>. QED  BY <2>1, <3>1, <3>2
  <2>. QED  BY <2>2, <2>3
<1>3. attempt[a].status = "SUCCEEDED" => status = "SUCCEEDED"
  BY <1>1, GuardKeepsSuccess
<1>4. attempt'[a] # NULL
  BY <1>2, PaymentNullAssumption
<1>. QED
  BY <1>2, <1>3, <1>4 DEF Started

\* How a step may change the table of attempts: an attempt is prepared, the
\* status of a saved one is written as the guard allows, or nothing.
AttemptWrite ==
  \/ \E i \in Invoices, a \in Attempts : PrepareAttempt(i, a)
  \/ \E a \in Attempts, status \in AttemptStatuses :
       /\ Started(a)
       /\ CanBecome(a, status)
       /\ status = "SUCCEEDED" => a \in receipt
       /\ \/ attempt' = [attempt EXCEPT ![a].status = status]
          \/ attempt' = [attempt EXCEPT ![a].status = status, ![a].link = TRUE]
       /\ UNCHANGED <<receipt, allocation>>
  \/ UNCHANGED attempt

\* A step saves one attempt or changes the status of one, under the guard of the table.
LEMMA AttemptWrites ==
  ASSUME PaymentInvariant, PaymentNext
  PROVE  AttemptWrite
<1>. USE DEF PaymentInvariant, AttemptWrite
<1>1. ASSUME NEW a \in Attempts, StoreAnswer(a)  PROVE AttemptWrite
  BY <1>1 DEF StoreAnswer, AttemptsBacked, AttemptStatuses
<1>2. ASSUME NEW a \in Attempts, NEW status \in {"UNKNOWN", "FAILED"}, FailOpening(a, status)
      PROVE  AttemptWrite
  BY <1>2 DEF FailOpening, AttemptsBacked, AttemptStatuses
<1>3. ASSUME NEW h \in Handlers, FailAttempt(h) \/ MarkSucceeded(h)
      PROVE  AttemptWrite
  BY <1>3 DEF FailAttempt, MarkSucceeded, SetStatus, HandlersInformed, Informed, AttemptStatuses
<1>. QED
  BY <1>1, <1>2, <1>3
  DEF PaymentNext, Trigger, Confirm, IssueInvoice, OpenCheckout, Pay, Begin, ReceiveEvent,
      RetryEvent, SweepAttempt, ReconcileInvoice, VerifyTransaction, VerifyFails, ReadAttempt,
      CreateReceipt, FindAllocation, CreateAllocation, SettleInvoice, RecordExcessPayment,
      StoreOutcome, Crash

\* What any write of the table leaves in place.
LEMMA AttemptsStay ==
  ASSUME PaymentTypeOK, AttemptWrite
  PROVE  /\ attempt' \in [Attempts -> AttemptRecords \cup {NULL}]
         /\ \A a \in Attempts :
              Started(a) => /\ attempt'[a] # NULL
                            /\ attempt'[a].invoice = attempt[a].invoice
                            /\ attempt[a].status = "SUCCEEDED" => attempt'[a].status = "SUCCEEDED"
<1>. DEFINE Stays ==
       /\ attempt' \in [Attempts -> AttemptRecords \cup {NULL}]
       /\ \A b \in Attempts :
            Started(b) => /\ attempt'[b] # NULL
                          /\ attempt'[b].invoice = attempt[b].invoice
                          /\ attempt[b].status = "SUCCEEDED" => attempt'[b].status = "SUCCEEDED"
<1>1. ASSUME NEW i \in Invoices, NEW a \in Attempts, PrepareAttempt(i, a)
      PROVE  Stays
  <2>1. ~ Started(a)
    BY <1>1 DEF PrepareAttempt
  <2>. QED  BY <1>1, <2>1, PreparedAttempt
<1>2. ASSUME NEW a \in Attempts, NEW status \in AttemptStatuses, Started(a), CanBecome(a, status),
             \/ attempt' = [attempt EXCEPT ![a].status = status]
             \/ attempt' = [attempt EXCEPT ![a].status = status, ![a].link = TRUE]
      PROVE  Stays
  BY <1>2, StatusWrite
<1>3. ASSUME UNCHANGED attempt  PROVE Stays
  BY <1>3 DEF PaymentTypeOK, Started
<1>. QED
  BY <1>1, <1>2, <1>3 DEF AttemptWrite

\* Which steps write the other tables.
LEMMA Writers ==
  ASSUME PaymentNext
  PROVE  /\ \/ UNCHANGED checkout
            \/ \E a \in Attempts : OpenCheckout(a)
            \/ \E a \in Attempts, outcome \in {"PAID", "MISPAID"} : Pay(a, outcome)
         /\ UNCHANGED receipt \/ \E h \in Handlers : CreateReceipt(h)
         /\ UNCHANGED allocation \/ \E h \in Handlers : CreateAllocation(h)
         /\ UNCHANGED excess \/ \E h \in Handlers : RecordExcessPayment(h)
         /\ \/ UNCHANGED invoice
            \/ \E i \in Invoices : IssueInvoice(i)
            \/ \E h \in Handlers, split \in BOOLEAN : SettleInvoice(h, split)
            \/ \E h \in Handlers : RecordExcessPayment(h)
         /\ \/ UNCHANGED event
            \/ \E h \in Handlers, a \in Attempts : ReceiveEvent(h, a)
            \/ \E h \in Handlers : StoreOutcome(h)
         /\ \/ UNCHANGED opening
            \/ \E i \in Invoices, a \in Attempts : PrepareAttempt(i, a)
            \/ \E a \in Attempts : OpenCheckout(a)
            \/ \E a \in Attempts : opening' = [opening EXCEPT ![a] = "IDLE"]
         /\ \/ UNCHANGED crashes
            \/ crashes < MaxCrashes /\ crashes' = crashes + 1
<1>. USE DEF PaymentNext, Trigger, Confirm, Begin, ReceiveEvent, RetryEvent, SweepAttempt,
             ReconcileInvoice
<1>1. \/ UNCHANGED checkout
      \/ \E a \in Attempts : OpenCheckout(a)
      \/ \E a \in Attempts, outcome \in {"PAID", "MISPAID"} : Pay(a, outcome)
  BY DEF IssueInvoice, PrepareAttempt, StoreAnswer, FailOpening, VerifyTransaction, VerifyFails,
      ReadAttempt, FailAttempt, CreateReceipt, MarkSucceeded, FindAllocation, CreateAllocation,
      SettleInvoice, RecordExcessPayment, StoreOutcome, Crash
<1>2. UNCHANGED receipt \/ \E h \in Handlers : CreateReceipt(h)
  BY DEF IssueInvoice, PrepareAttempt, StoreAnswer, FailOpening, VerifyTransaction, VerifyFails,
      ReadAttempt, FailAttempt, OpenCheckout, Pay, MarkSucceeded, FindAllocation,
      CreateAllocation, SettleInvoice, RecordExcessPayment, StoreOutcome, Crash
<1>3. UNCHANGED allocation \/ \E h \in Handlers : CreateAllocation(h)
  BY DEF IssueInvoice, PrepareAttempt, StoreAnswer, FailOpening, VerifyTransaction, VerifyFails,
      ReadAttempt, FailAttempt, OpenCheckout, Pay, CreateReceipt, MarkSucceeded,
      FindAllocation, SettleInvoice, RecordExcessPayment, StoreOutcome, Crash
<1>4. UNCHANGED excess \/ \E h \in Handlers : RecordExcessPayment(h)
  BY DEF IssueInvoice, PrepareAttempt, StoreAnswer, FailOpening, VerifyTransaction, VerifyFails,
      ReadAttempt, FailAttempt, OpenCheckout, Pay, CreateReceipt, MarkSucceeded,
      FindAllocation, CreateAllocation, SettleInvoice, StoreOutcome, Crash
<1>5. \/ UNCHANGED invoice
      \/ \E i \in Invoices : IssueInvoice(i)
      \/ \E h \in Handlers, split \in BOOLEAN : SettleInvoice(h, split)
      \/ \E h \in Handlers : RecordExcessPayment(h)
  BY DEF PrepareAttempt, StoreAnswer, FailOpening, VerifyTransaction, VerifyFails, ReadAttempt,
      FailAttempt, OpenCheckout, Pay, CreateReceipt, MarkSucceeded, FindAllocation,
      CreateAllocation, StoreOutcome, Crash
<1>6. \/ UNCHANGED event
      \/ \E h \in Handlers, a \in Attempts : ReceiveEvent(h, a)
      \/ \E h \in Handlers : StoreOutcome(h)
  BY DEF IssueInvoice, PrepareAttempt, StoreAnswer, FailOpening, VerifyTransaction, VerifyFails,
      ReadAttempt, FailAttempt, OpenCheckout, Pay, CreateReceipt, MarkSucceeded,
      FindAllocation, CreateAllocation, SettleInvoice, RecordExcessPayment, Crash
<1>7. \/ UNCHANGED opening
      \/ \E i \in Invoices, a \in Attempts : PrepareAttempt(i, a)
      \/ \E a \in Attempts : OpenCheckout(a)
      \/ \E a \in Attempts : opening' = [opening EXCEPT ![a] = "IDLE"]
  BY DEF IssueInvoice, StoreAnswer, FailOpening, VerifyTransaction, VerifyFails, ReadAttempt,
      FailAttempt, Pay, CreateReceipt, MarkSucceeded, FindAllocation, CreateAllocation,
      SettleInvoice, RecordExcessPayment, StoreOutcome, Crash
<1>8. \/ UNCHANGED crashes
      \/ crashes < MaxCrashes /\ crashes' = crashes + 1
  BY DEF IssueInvoice, PrepareAttempt, OpenCheckout, StoreAnswer, FailOpening, Pay,
      VerifyTransaction, VerifyFails, ReadAttempt, FailAttempt, CreateReceipt, MarkSucceeded,
      FindAllocation, CreateAllocation, SettleInvoice, RecordExcessPayment, StoreOutcome, Crash
<1>. QED
  BY <1>1, <1>2, <1>3, <1>4, <1>5, <1>6, <1>7, <1>8, Zenon

\* No step takes back what a confirmation relies on.
LEMMA StepKeeps ==
  ASSUME PaymentInvariant, PaymentNext
  PROVE  Keeps
<1>. USE DEF PaymentInvariant, SettledOnce
<1>1. \A a \in Attempts : checkout[a] = "PAID" => checkout'[a] = "PAID"
  BY Writers DEF PaymentTypeOK, OpenCheckout, Pay
<1>2. receipt \subseteq receipt'
  BY Writers DEF CreateReceipt
<1>3. \A i \in Invoices : allocation[i] # NULL => allocation'[i] = allocation[i]
  <2>1. ASSUME NEW h \in Handlers, CreateAllocation(h)
        PROVE  \A i \in Invoices : allocation[i] # NULL => allocation'[i] = allocation[i]
    BY <2>1 DEF PaymentTypeOK, CreateAllocation
  <2>. QED  BY <2>1, Writers
<1>4. \A i \in Invoices : invoice[i].status # "NONE" => invoice'[i].status # "NONE"
  <2>1. ASSUME NEW i \in Invoices, IssueInvoice(i)
        PROVE  \A j \in Invoices : invoice[j].status # "NONE" => invoice'[j].status # "NONE"
    BY <2>1 DEF PaymentTypeOK, IssueInvoice
  <2>2. ASSUME NEW h \in Handlers, NEW split \in BOOLEAN, SettleInvoice(h, split)
        PROVE  \A j \in Invoices : invoice[j].status # "NONE" => invoice'[j].status # "NONE"
    BY <2>2 DEF PaymentTypeOK, SettleInvoice
  <2>3. ASSUME NEW h \in Handlers, RecordExcessPayment(h)
        PROVE  \A j \in Invoices : invoice[j].status # "NONE" => invoice'[j].status # "NONE"
    BY <2>3 DEF PaymentTypeOK, RecordExcessPayment
  <2>. QED  BY <2>1, <2>2, <2>3, Writers
<1>. QED
  BY <1>1, <1>2, <1>3, <1>4, AttemptWrites, AttemptsStay DEF Keeps

-----------------------------------------------------------------------------
(* The confirmations. *)

HandlerRecords ==
  [phase : Phases, attempt : Attempts \cup {NULL}, source : Sources, fresh : BOOLEAN]

\* An external trigger starts a confirmation of a saved attempt; otherwise a
\* confirmation takes a step of its own, fails or stops.
LEMMA HandlerMoves ==
  ASSUME PaymentInvariant, PaymentNext, NEW h \in Handlers
  PROVE  \/ handler'[h] = handler[h]
         \/ handler'[h] = Idle
         \/ \E a \in Attempts, source \in Sources :
              /\ Started(a)
              /\ handler'[h] = [phase |-> "VERIFYING", attempt |-> a, source |-> source,
                                fresh |-> FALSE]
         \/ Confirm(h) \/ VerifyFails(h)
<1>. USE DEF PaymentInvariant, SettledOnce
<1>. DEFINE Moves(g) ==
       \/ handler'[g] = handler[g]
       \/ handler'[g] = Idle
       \/ \E a \in Attempts, source \in Sources :
            /\ Started(a)
            /\ handler'[g] = [phase |-> "VERIFYING", attempt |-> a, source |-> source,
                              fresh |-> FALSE]
       \/ Confirm(g) \/ VerifyFails(g)
<1>1. ASSUME UNCHANGED handler  PROVE Moves(h)
  BY <1>1
<1>2. ASSUME NEW g \in Handlers, NEW a \in Attempts, NEW source \in Sources, Started(a),
             Begin(g, a, source)
      PROVE  Moves(h)
  BY <1>2 DEF Begin, PaymentTypeOK
<1>3. ASSUME NEW g \in Handlers, Trigger(g)  PROVE Moves(h)
  <2>1. ASSUME NEW a \in Attempts, ReceiveEvent(g, a) \/ RetryEvent(g, a) \/ SweepAttempt(g, a)
        PROVE  Moves(h)
    <3>1. Started(a)
      BY <2>1 DEF ReceiveEvent, RetryEvent, SweepAttempt, AttemptsBacked
    <3>2. Begin(g, a, "EVENT") \/ Begin(g, a, "CALL")
      BY <2>1 DEF ReceiveEvent, RetryEvent, SweepAttempt
    <3>. QED  BY <1>2, <3>1, <3>2 DEF Sources
  <2>2. ASSUME NEW i \in Invoices, ReconcileInvoice(g, i)  PROVE Moves(h)
    <3>. DEFINE open == {a \in AttemptsOf(i) : attempt[a].status \in Sweepable}
    <3>1. Begin(g, Max(open), "CALL") /\ open # {}
      BY <2>2 DEF ReconcileInvoice
    <3>2. open \subseteq Attempts /\ \A a \in open : Started(a)
      BY DEF AttemptsOf
    <3>3. Max(open) \in open
      BY <3>1, <3>2, LatestAttempt
    <3>. QED  BY <1>2, <3>1, <3>2, <3>3 DEF Sources
  <2>. QED  BY <1>3, <2>1, <2>2 DEF Trigger
<1>4. ASSUME NEW g \in Handlers, Confirm(g) \/ VerifyFails(g) \/ Crash(g)  PROVE Moves(h)
  <2>1. CASE g = h
    BY <1>4, <2>1 DEF Crash, PaymentTypeOK
  <2>2. CASE g # h
    <3>1. handler'[h] = handler[h]
      BY <1>4, <2>2
      DEF PaymentTypeOK, Confirm, VerifyFails, Crash, Goto, End, VerifyTransaction, ReadAttempt,
          FailAttempt, CreateReceipt, MarkSucceeded, FindAllocation, CreateAllocation,
          SettleInvoice, RecordExcessPayment, StoreOutcome
    <3>. QED  BY <3>1
  <2>. QED  BY <2>1, <2>2
<1>. QED
  BY <1>1, <1>3, <1>4
  DEF PaymentNext, IssueInvoice, PrepareAttempt, OpenCheckout, StoreAnswer, FailOpening, Pay

\* What a confirmation has learnt cannot be taken back by another step.
LEMMA InformedStays ==
  ASSUME PaymentTypeOK, Keeps, NEW r \in HandlerRecords, Informed(r)
  PROVE  Informed(r)'
<1>1. CASE r.phase = "IDLE"
  BY <1>1 DEF Informed
<1>2. CASE r.phase # "IDLE"
  <2>1. /\ r.attempt \in Attempts /\ Started(r.attempt)
        /\ attempt[r.attempt] \in AttemptRecords
    BY <1>2 DEF Informed, PaymentTypeOK, Started
  <2>2. /\ InvoiceOf(r.attempt) \in Invoices
        /\ Started(r.attempt)'
        /\ InvoiceOf(r.attempt)' = InvoiceOf(r.attempt)
    BY <2>1 DEF Keeps, Started, InvoiceOf, AttemptRecords
  <2>3. r.phase \in {"SETTLING", "EXCESS"}
          => allocation'[InvoiceOf(r.attempt)'] = allocation[InvoiceOf(r.attempt)]
    BY <1>2, <2>1, <2>2, PaymentNullAssumption DEF Informed, Keeps
  <2>. QED  BY <1>2, <2>1, <2>2, <2>3 DEF Informed, Keeps
<1>. QED  BY <1>1, <1>2

\* A step of a confirmation, described by where it goes.
LEMMA ConfirmMoves ==
  ASSUME PaymentTypeOK, NEW h \in Handlers, Confirm(h) \/ VerifyFails(h)
  PROVE  \/ handler'[h] = Idle
         \/ /\ handler'[h].attempt = handler[h].attempt
            /\ handler[h].phase # "IDLE"
            /\ \/ handler'[h].phase \in {"DECLINED", "FAILING", "DONE", "ERROR"}
               \/ /\ handler'[h].phase = "PAID"
                  /\ checkout[handler[h].attempt] = "PAID"
               \/ /\ handler'[h].phase = "RECEIPTED" /\ handler[h].phase = "PAID"
                  /\ handler[h].attempt \in receipt'
               \/ /\ handler'[h].phase \in {"SUCCEEDED", "ALLOCATING"}
                  /\ handler[h].phase = "RECEIPTED"
                  /\ CanBecome(handler[h].attempt, "SUCCEEDED")
                  /\ SetStatus(handler[h].attempt, "SUCCEEDED")
               \/ /\ handler'[h].phase \in {"ALLOCATING", "EXCESS", "SETTLING"}
                  /\ handler[h].phase \in {"SUCCEEDED", "ALLOCATING"}
                  /\ UNCHANGED attempt
                  /\ handler'[h].phase = "SETTLING"
                       => \/ allocation[InvoiceOf(handler[h].attempt)] = handler[h].attempt
                          \/ allocation' = [allocation EXCEPT
                               ![InvoiceOf(handler[h].attempt)] = handler[h].attempt]
                  /\ handler'[h].phase = "EXCESS"
                       => allocation[InvoiceOf(handler[h].attempt)]
                            \notin {handler[h].attempt, NULL}
<1>. USE DEF Goto, End, PaymentTypeOK
<1>1. CASE VerifyTransaction(h)
  BY <1>1 DEF VerifyTransaction
<1>2. CASE VerifyFails(h)
  BY <1>2 DEF VerifyFails
<1>3. CASE ReadAttempt(h)
  BY <1>3 DEF ReadAttempt
<1>4. CASE FailAttempt(h)
  BY <1>4 DEF FailAttempt
<1>5. CASE CreateReceipt(h)
  BY <1>5 DEF CreateReceipt
<1>6. CASE MarkSucceeded(h)
  BY <1>6 DEF MarkSucceeded
<1>7. CASE FindAllocation(h)
  BY <1>7 DEF FindAllocation
<1>8. CASE CreateAllocation(h)
  BY <1>8 DEF CreateAllocation
<1>9. CASE \E split \in BOOLEAN : SettleInvoice(h, split)
  BY <1>9 DEF SettleInvoice
<1>10. CASE RecordExcessPayment(h)
  BY <1>10 DEF RecordExcessPayment
<1>11. CASE StoreOutcome(h)
  BY <1>11 DEF StoreOutcome
<1>. QED
  BY <1>1, <1>2, <1>3, <1>4, <1>5, <1>6, <1>7, <1>8, <1>9, <1>10, <1>11 DEF Confirm

\* What a confirmation has learnt stays true while the others go on.
LEMMA HandlersStayInformed ==
  ASSUME PaymentInvariant, PaymentNext, NEW h \in Handlers
  PROVE  Informed(handler[h])'
<1>. USE DEF PaymentInvariant, SettledOnce
<1>1. Keeps
  BY StepKeeps
<1>2. handler[h] \in HandlerRecords /\ Informed(handler[h])
  BY DEF PaymentTypeOK, HandlerRecords, HandlersInformed
<1>3. CASE handler'[h] = handler[h]
  <2>1. \A r \in HandlerRecords : Informed(r) => Informed(r)'
    BY <1>1, InformedStays
  <2>. QED  BY <1>2, <1>3, <2>1 DEF Informed
<1>4. CASE handler'[h] = Idle
  BY <1>4 DEF Idle, Informed
<1>5. ASSUME NEW a \in Attempts, NEW source \in Sources, Started(a),
             handler'[h] = [phase |-> "VERIFYING", attempt |-> a, source |-> source,
                            fresh |-> FALSE]
      PROVE  Informed(handler[h])'
  BY <1>1, <1>5 DEF Informed, Keeps, Started
<1>6. CASE (Confirm(h) \/ VerifyFails(h)) /\ handler'[h] # Idle
  <2>1. /\ handler[h].phase # "IDLE"
        /\ handler'[h].attempt = handler[h].attempt
    BY <1>6, ConfirmMoves
  <2>2. PICK a \in Attempts : a = handler[h].attempt /\ Started(a)
    BY <1>2, <2>1 DEF Informed
  <2>3. attempt[a] \in AttemptRecords
    BY <2>2 DEF PaymentTypeOK, Started
  <2>4. /\ Started(a)' /\ InvoiceOf(a)' = InvoiceOf(a) /\ InvoiceOf(a) \in Invoices
        /\ attempt[a].status = "SUCCEEDED" => attempt'[a].status = "SUCCEEDED"
    BY <1>1, <2>2, <2>3 DEF Keeps, Started, InvoiceOf, AttemptRecords
  <2>5. handler'[h].attempt = a
    BY <2>1, <2>2
  <2>6. CASE handler'[h].phase \in {"DECLINED", "FAILING", "DONE", "ERROR"}
    BY <2>4, <2>5, <2>6 DEF Informed
  <2>7. CASE handler'[h].phase = "PAID" /\ checkout[a] = "PAID"
    BY <1>1, <2>4, <2>5, <2>7 DEF Informed, Keeps
  <2>8. CASE handler'[h].phase = "RECEIPTED" /\ handler[h].phase = "PAID" /\ a \in receipt'
    <3>1. checkout'[a] = "PAID"
      BY <1>1, <1>2, <2>2, <2>8 DEF Informed, Keeps
    <3>. QED  BY <2>4, <2>5, <2>8, <3>1 DEF Informed
  <2>9. CASE /\ handler'[h].phase \in {"SUCCEEDED", "ALLOCATING"}
             /\ handler[h].phase = "RECEIPTED"
             /\ CanBecome(a, "SUCCEEDED")
             /\ SetStatus(a, "SUCCEEDED")
    <3>1. attempt'[a].status = "SUCCEEDED"
      BY <2>2, <2>3, <2>9 DEF SetStatus, PaymentTypeOK, AttemptRecords
    <3>2. checkout'[a] = "PAID" /\ a \in receipt'
      BY <1>1, <1>2, <2>2, <2>9 DEF Informed, Keeps
    <3>. QED  BY <2>4, <2>5, <2>9, <3>1, <3>2 DEF Informed
  <2>10. CASE /\ handler'[h].phase \in {"ALLOCATING", "EXCESS", "SETTLING"}
              /\ handler[h].phase \in {"SUCCEEDED", "ALLOCATING"}
              /\ UNCHANGED attempt
              /\ handler'[h].phase = "SETTLING"
                   => \/ allocation[InvoiceOf(a)] = a
                      \/ allocation' = [allocation EXCEPT ![InvoiceOf(a)] = a]
              /\ handler'[h].phase = "EXCESS" => allocation[InvoiceOf(a)] \notin {a, NULL}
    <3>1. checkout'[a] = "PAID" /\ a \in receipt' /\ attempt'[a].status = "SUCCEEDED"
      BY <1>1, <1>2, <2>2, <2>4, <2>10 DEF Informed, Keeps
    <3>2. handler'[h].phase = "SETTLING" => allocation'[InvoiceOf(a)] = a
      BY <1>1, <2>4, <2>10, PaymentNullAssumption DEF Keeps, PaymentTypeOK
    <3>3. handler'[h].phase = "EXCESS" => allocation'[InvoiceOf(a)] \notin {a, NULL}
      BY <1>1, <2>4, <2>10 DEF Keeps
    <3>. QED  BY <2>4, <2>5, <2>10, <3>1, <3>2, <3>3 DEF Informed
  <2>. QED  BY <1>6, <2>2, <2>6, <2>7, <2>8, <2>9, <2>10, ConfirmMoves
<1>. QED
  BY <1>3, <1>4, <1>5, <1>6, HandlerMoves

-----------------------------------------------------------------------------
(* The invariant. *)

\* Nothing is paid or confirmed at first.
LEMMA InitInvariant == PaymentInit => PaymentInvariant
<1>. SUFFICES ASSUME PaymentInit  PROVE PaymentInvariant
  OBVIOUS
<1>. USE DEF PaymentInit
<1>1. PaymentTypeOK
  BY PaymentAssumption DEF PaymentTypeOK, Idle, Phases, Sources
<1>2. ReceiptsArePaid /\ SucceededIsReceipted /\ AllocationsAreReceipts /\ ExcessIsSecond
  BY DEF ReceiptsArePaid, SucceededIsReceipted, AllocationsAreReceipts, ExcessIsSecond, Started
<1>3. PaidIsAllocated
  BY DEF PaidIsAllocated
<1>4. AttemptsBacked
  BY DEF AttemptsBacked, Started
<1>5. HandlersInformed
  BY DEF HandlersInformed, Informed, Idle
<1>. QED
  BY <1>1, <1>2, <1>3, <1>4, <1>5 DEF PaymentInvariant, SettledOnce

\* Every step leaves records of their types.
LEMMA TypeStep ==
  ASSUME PaymentInvariant, PaymentNext
  PROVE  PaymentTypeOK'
<1>. USE DEF PaymentInvariant, SettledOnce
<1>1. attempt' \in [Attempts -> AttemptRecords \cup {NULL}]
  BY AttemptWrites, AttemptsStay
<1>2. checkout' \in [Attempts -> {"NONE", "OPEN", "PAID", "MISPAID"}]
  BY Writers DEF PaymentTypeOK, OpenCheckout, Pay
<1>3. opening' \in [Attempts -> {"IDLE", "CALLING", "ANSWERED"}]
  <2>1. ASSUME NEW a \in Attempts,
               NEW value \in {"IDLE", "CALLING", "ANSWERED"},
               opening' = [opening EXCEPT ![a] = value]
        PROVE  opening' \in [Attempts -> {"IDLE", "CALLING", "ANSWERED"}]
    BY <2>1 DEF PaymentTypeOK
  <2>. QED  BY <2>1, Writers DEF PaymentTypeOK, OpenCheckout, PrepareAttempt
<1>4. /\ receipt' \in SUBSET Attempts /\ excess' \in SUBSET Attempts
      /\ allocation' \in [Invoices -> Attempts \cup {NULL}]
  <2>1. \A h \in Handlers : handler[h].phase # "IDLE" => handler[h].attempt \in Attempts
    BY DEF HandlersInformed, Informed
  <2>2. receipt' \in SUBSET Attempts /\ excess' \in SUBSET Attempts
    BY <2>1, Writers DEF PaymentTypeOK, CreateReceipt, RecordExcessPayment
  <2>3. ASSUME NEW h \in Handlers, CreateAllocation(h)
        PROVE  allocation' \in [Invoices -> Attempts \cup {NULL}]
    BY <2>1, <2>3 DEF PaymentTypeOK, CreateAllocation
  <2>. QED  BY <2>2, <2>3, Writers DEF PaymentTypeOK
<1>5. invoice' \in [Invoices -> [status : {"NONE", "UNPAID", "PAID"}, exception : BOOLEAN]]
  <2>1. ASSUME NEW i \in Invoices, IssueInvoice(i)
        PROVE  invoice' \in [Invoices -> [status : {"NONE", "UNPAID", "PAID"}, exception : BOOLEAN]]
    BY <2>1 DEF IssueInvoice, PaymentTypeOK
  <2>2. ASSUME NEW h \in Handlers, NEW split \in BOOLEAN, SettleInvoice(h, split)
        PROVE  invoice' \in [Invoices -> [status : {"NONE", "UNPAID", "PAID"}, exception : BOOLEAN]]
    BY <2>2 DEF SettleInvoice, PaymentTypeOK
  <2>3. ASSUME NEW h \in Handlers, RecordExcessPayment(h)
        PROVE  invoice' \in [Invoices -> [status : {"NONE", "UNPAID", "PAID"}, exception : BOOLEAN]]
    <3>1. PICK x : invoice' = [invoice EXCEPT ![x].exception = TRUE]
      BY <2>3 DEF RecordExcessPayment
    <3>2. \A i \in Invoices : invoice[i] \in [status : {"NONE", "UNPAID", "PAID"}, exception : BOOLEAN]
      BY DEF PaymentTypeOK
    <3>3. \A i \in Invoices :
            invoice'[i] = IF i = x THEN [invoice[i] EXCEPT !.exception = TRUE] ELSE invoice[i]
      BY <3>1 DEF PaymentTypeOK
    <3>4. \A i \in Invoices : invoice'[i] \in [status : {"NONE", "UNPAID", "PAID"}, exception : BOOLEAN]
      BY <3>2, <3>3
    <3>. QED  BY <3>1, <3>4 DEF PaymentTypeOK
  <2>4. UNCHANGED invoice
          => invoice' \in [Invoices -> [status : {"NONE", "UNPAID", "PAID"}, exception : BOOLEAN]]
    BY DEF PaymentTypeOK
  <2>5. \/ UNCHANGED invoice
        \/ \E i \in Invoices : IssueInvoice(i)
        \/ \E h \in Handlers, split \in BOOLEAN : SettleInvoice(h, split)
        \/ \E h \in Handlers : RecordExcessPayment(h)
    BY Writers
  <2>. QED  BY <2>1, <2>2, <2>3, <2>4, <2>5
<1>6. event' \in [Attempts -> {"NONE", "RECEIVED", "PROCESSED", "FAILED"}]
  BY Writers DEF PaymentTypeOK, ReceiveEvent, StoreOutcome
<1>7. handler' \in [Handlers -> HandlerRecords]
  <2>1. \A h \in Handlers : handler'[h] \in HandlerRecords
    <3>. SUFFICES ASSUME NEW h \in Handlers  PROVE handler'[h] \in HandlerRecords
      OBVIOUS
    <3>1. Idle \in HandlerRecords /\ handler[h] \in HandlerRecords
      BY DEF Idle, HandlerRecords, Phases, Sources, PaymentTypeOK
    <3>2. ASSUME Confirm(h) \/ VerifyFails(h)  PROVE handler'[h] \in HandlerRecords
      <4>1. \/ handler'[h] = Idle
            \/ \E phase \in Phases : handler'[h] = [handler[h] EXCEPT !.phase = phase]
            \/ \E fresh \in BOOLEAN :
                 handler'[h] = [handler[h] EXCEPT !.phase = "RECEIPTED", !.fresh = fresh]
        BY <3>2
        DEF PaymentTypeOK, Confirm, VerifyFails, Goto, End, VerifyTransaction, ReadAttempt,
            FailAttempt, CreateReceipt, MarkSucceeded, FindAllocation, CreateAllocation,
            SettleInvoice, RecordExcessPayment, StoreOutcome, Phases
      <4>. QED  BY <3>1, <4>1 DEF HandlerRecords, Phases
    <3>3. ASSUME NEW a \in Attempts, NEW source \in Sources,
                 handler'[h] = [phase |-> "VERIFYING", attempt |-> a, source |-> source,
                                fresh |-> FALSE]
          PROVE  handler'[h] \in HandlerRecords
      BY <3>3 DEF HandlerRecords, Phases
    <3>. QED  BY <3>1, <3>2, <3>3, HandlerMoves
  <2>2. handler' = [h \in Handlers |-> handler'[h]]
    <3>. DEFINE IsTable == handler' = [h \in Handlers |-> handler'[h]]
    <3>1. ASSUME NEW g, NEW a, NEW source, Begin(g, a, source)  PROVE IsTable
      BY <3>1 DEF Begin, PaymentTypeOK
    <3>2. ASSUME NEW g, NEW outcome, Goto(g, outcome) \/ End(g, outcome)  PROVE IsTable
      BY <3>2 DEF Goto, End, PaymentTypeOK
    <3>3. ASSUME NEW g, CreateReceipt(g) \/ StoreOutcome(g) \/ Crash(g)  PROVE IsTable
      BY <3>3 DEF CreateReceipt, StoreOutcome, Crash, PaymentTypeOK
    <3>4. ASSUME UNCHANGED handler  PROVE IsTable
      BY <3>4 DEF PaymentTypeOK
    <3>. HIDE DEF IsTable
    <3>5. ASSUME NEW g, Trigger(g)  PROVE IsTable
      BY <3>1, <3>5 DEF Trigger, ReceiveEvent, RetryEvent, SweepAttempt, ReconcileInvoice
    <3>6. ASSUME NEW g, Confirm(g) \/ VerifyFails(g)  PROVE IsTable
      <4>1. CreateReceipt(g) \/ StoreOutcome(g) \/ \E outcome : Goto(g, outcome) \/ End(g, outcome)
        BY <3>6
        DEF Confirm, VerifyFails, VerifyTransaction, ReadAttempt, FailAttempt, MarkSucceeded,
            FindAllocation, CreateAllocation, SettleInvoice, RecordExcessPayment
      <4>2. CASE \E outcome : Goto(g, outcome) \/ End(g, outcome)
        BY <3>2, <4>2
      <4>3. CASE CreateReceipt(g) \/ StoreOutcome(g)
        BY <3>3, <4>3
      <4>. QED  BY <4>1, <4>2, <4>3
    <3>7. UNCHANGED handler \/ \E g : Trigger(g) \/ Confirm(g) \/ VerifyFails(g) \/ Crash(g)
      BY DEF PaymentNext, IssueInvoice, PrepareAttempt, OpenCheckout, StoreAnswer, FailOpening, Pay
    <3>8. ASSUME NEW g, Trigger(g) \/ Confirm(g) \/ VerifyFails(g) \/ Crash(g)  PROVE IsTable
      BY <3>3, <3>5, <3>6, <3>8
    <3>9. IsTable
      BY <3>4, <3>7, <3>8
    <3>. QED  BY <3>9 DEF IsTable
  <2>. QED  BY <2>1, <2>2
<1>8. crashes' \in 0 .. MaxCrashes
  BY Writers, PaymentAssumption DEF PaymentTypeOK
<1>. QED
  BY <1>1, <1>2, <1>3, <1>4, <1>5, <1>6, <1>7, <1>8 DEF PaymentTypeOK, HandlerRecords

\* A receipt is only written for a checkout that was paid in full.
LEMMA ReceiptsStayPaid ==
  ASSUME PaymentInvariant, PaymentNext
  PROVE  ReceiptsArePaid'
<1>. USE DEF PaymentInvariant, SettledOnce
<1>1. Keeps
  BY StepKeeps
<1>2. ASSUME NEW a \in receipt  PROVE Started(a)' /\ checkout'[a] = "PAID"
  BY <1>1 DEF Keeps, ReceiptsArePaid, PaymentTypeOK, Started
<1>3. ASSUME NEW h \in Handlers, CreateReceipt(h)
      PROVE  attempt'[handler[h].attempt] # NULL /\ checkout'[handler[h].attempt] = "PAID"
  BY <1>1, <1>3 DEF Keeps, CreateReceipt, HandlersInformed, Informed, Started
<1>. QED
  <2>1. ASSUME NEW a \in receipt', a \notin receipt
        PROVE  attempt'[a] # NULL /\ checkout'[a] = "PAID"
    BY <1>3, <2>1, Writers DEF CreateReceipt
  <2>. QED  BY <1>2, <2>1 DEF ReceiptsArePaid, Started

\* An attempt succeeds only after its receipt.
LEMMA SuccessStaysReceipted ==
  ASSUME PaymentInvariant, PaymentNext
  PROVE  SucceededIsReceipted'
<1>. USE DEF PaymentInvariant, SettledOnce
<1>. SUFFICES ASSUME NEW b \in Attempts, attempt'[b] # NULL, attempt'[b].status = "SUCCEEDED"
              PROVE  b \in receipt'
  BY DEF SucceededIsReceipted, Started
<1>1. receipt \subseteq receipt'
  BY StepKeeps DEF Keeps
<1>2. ASSUME NEW i \in Invoices, NEW a \in Attempts, PrepareAttempt(i, a)  PROVE b \in receipt'
  <2>1. attempt'[a].status = "PREPARING"
    <3>1. attempt'[a] = [invoice |-> i, status |-> "PREPARING", link |-> FALSE]
      BY <1>2, PreparedAttempt
    <3>. QED  BY <3>1
  <2>2. Started(b)
    BY <1>2, <2>1, PreparedAttempt DEF Started
  <2>. QED  BY <1>1, <1>2, <2>1, <2>2, PreparedAttempt DEF SucceededIsReceipted
<1>3. ASSUME NEW a \in Attempts, NEW status \in AttemptStatuses, Started(a), CanBecome(a, status),
             status = "SUCCEEDED" => a \in receipt,
             \/ attempt' = [attempt EXCEPT ![a].status = status]
             \/ attempt' = [attempt EXCEPT ![a].status = status, ![a].link = TRUE]
      PROVE  b \in receipt'
  <2>1. Started(b)
    BY <1>3, StatusWrite
  <2>2. b # a => attempt[b].status = "SUCCEEDED"
    BY <1>3, <2>1, StatusWrite
  <2>3. attempt'[a].status = status
    BY <1>3, StatusWrite
  <2>. QED  BY <1>1, <1>3, <2>1, <2>2, <2>3 DEF SucceededIsReceipted
<1>4. CASE UNCHANGED attempt
  BY <1>1, <1>4 DEF SucceededIsReceipted, Started
<1>. QED
  BY <1>2, <1>3, <1>4, AttemptWrites DEF AttemptWrite

\* An invoice is only allocated to a payment with a receipt.
LEMMA AllocationsStayReceipts ==
  ASSUME PaymentInvariant, PaymentNext
  PROVE  AllocationsAreReceipts'
<1>. USE DEF PaymentInvariant, SettledOnce
<1>. SUFFICES ASSUME NEW i \in Invoices, allocation'[i] # NULL
              PROVE  /\ allocation'[i] \in receipt'
                     /\ attempt'[allocation'[i]].invoice = i
                     /\ attempt'[allocation'[i]].status = "SUCCEEDED"
  BY DEF AllocationsAreReceipts, InvoiceOf
<1>1. Keeps
  BY StepKeeps
<1>2. ASSUME NEW a \in Attempts, a \in receipt, attempt[a].invoice = i,
             attempt[a].status = "SUCCEEDED", allocation'[i] = a
      PROVE  /\ allocation'[i] \in receipt'
             /\ attempt'[allocation'[i]].invoice = i
             /\ attempt'[allocation'[i]].status = "SUCCEEDED"
  BY <1>1, <1>2 DEF Keeps, ReceiptsArePaid
<1>3. CASE allocation'[i] = allocation[i]
  BY <1>2, <1>3 DEF AllocationsAreReceipts, InvoiceOf, PaymentTypeOK
<1>4. CASE allocation'[i] # allocation[i]
  <2>1. PICK h \in Handlers : CreateAllocation(h)
    BY <1>4, Writers
  <2>2. handler[h].attempt \in Attempts /\ InvoiceOf(handler[h].attempt) = i
        /\ allocation'[i] = handler[h].attempt
    BY <1>4, <2>1 DEF CreateAllocation, PaymentTypeOK, HandlersInformed, Informed
  <2>. QED  BY <1>2, <2>1, <2>2 DEF CreateAllocation, HandlersInformed, Informed, InvoiceOf
<1>. QED
  BY <1>3, <1>4

\* An invoice is only paid after its allocation.
LEMMA PaidStaysAllocated ==
  ASSUME PaymentInvariant, PaymentNext
  PROVE  PaidIsAllocated'
<1>. USE DEF PaymentInvariant, SettledOnce
<1>. SUFFICES ASSUME NEW i \in Invoices, invoice'[i].status = "PAID"
              PROVE  allocation'[i] # NULL
  BY DEF PaidIsAllocated
<1>1. Keeps
  BY StepKeeps
<1>2. CASE invoice[i].status = "PAID"
  BY <1>1, <1>2 DEF Keeps, PaidIsAllocated
<1>3. CASE invoice[i].status # "PAID"
  <2>1. PICK h \in Handlers, split \in BOOLEAN : SettleInvoice(h, split)
    BY <1>3, Writers DEF IssueInvoice, RecordExcessPayment, PaymentTypeOK
  <2>2. InvoiceOf(handler[h].attempt) = i
    BY <1>3, <2>1 DEF SettleInvoice, PaymentTypeOK
  <2>3. allocation[i] = handler[h].attempt /\ handler[h].attempt \in Attempts
    BY <2>1, <2>2 DEF SettleInvoice, HandlersInformed, Informed
  <2>. QED  BY <1>1, <2>3, PaymentNullAssumption DEF Keeps
<1>. QED
  BY <1>2, <1>3

\* A payment is only an excess of an invoice that another one settles.
LEMMA ExcessStaysSecond ==
  ASSUME PaymentInvariant, PaymentNext
  PROVE  ExcessIsSecond'
<1>. USE DEF PaymentInvariant, SettledOnce
<1>. SUFFICES ASSUME NEW a \in excess'
              PROVE  a \in receipt' /\ allocation'[attempt'[a].invoice] \notin {a, NULL}
  BY DEF ExcessIsSecond, InvoiceOf
<1>1. Keeps
  BY StepKeeps
<1>2. a \in receipt /\ allocation[attempt[a].invoice] \notin {a, NULL}
  <2>1. CASE a \in excess
    BY <2>1 DEF ExcessIsSecond, InvoiceOf
  <2>2. CASE a \notin excess
    <3>1. PICK h \in Handlers : RecordExcessPayment(h)
      BY <2>2, Writers
    <3>2. handler[h].phase = "EXCESS" /\ handler[h].attempt = a
      BY <2>2, <3>1 DEF RecordExcessPayment
    <3>. QED  BY <3>2 DEF HandlersInformed, Informed, InvoiceOf
  <2>. QED  BY <2>1, <2>2
<1>3. a \in Attempts /\ Started(a) /\ attempt[a].invoice \in Invoices
  BY <1>2 DEF ReceiptsArePaid, PaymentTypeOK, Started, AttemptRecords
<1>. QED
  BY <1>1, <1>2, <1>3 DEF Keeps

\* A checkout is only opened for a saved attempt of an issued invoice.
LEMMA AttemptsStayBacked ==
  ASSUME PaymentInvariant, PaymentNext
  PROVE  AttemptsBacked'
<1>. USE DEF PaymentInvariant, SettledOnce
<1>. SUFFICES ASSUME NEW a \in Attempts
              PROVE  /\ attempt'[a] # NULL => invoice'[attempt'[a].invoice].status # "NONE"
                     /\ opening'[a] # "IDLE" \/ checkout'[a] # "NONE" \/ event'[a] # "NONE"
                          => attempt'[a] # NULL
  BY DEF AttemptsBacked, Started, InvoiceOf
<1>1. Keeps
  BY StepKeeps
<1>2. CASE Started(a)
  <2>1. attempt[a].invoice \in Invoices
    BY <1>2 DEF Started, PaymentTypeOK, AttemptRecords
  <2>. QED  BY <1>1, <1>2, <2>1 DEF Keeps, AttemptsBacked, InvoiceOf
<1>3. CASE ~ Started(a)
  <2>1. ASSUME attempt'[a] # NULL
        PROVE  \E i \in Invoices : PrepareAttempt(i, a)
    <3>1. ~ UNCHANGED attempt
      BY <1>3, <2>1 DEF Started
    <3>2. ASSUME NEW i \in Invoices, NEW b \in Attempts, PrepareAttempt(i, b)  PROVE b = a
      BY <1>3, <2>1, <3>2, PreparedAttempt DEF Started
    <3>3. ASSUME NEW b \in Attempts, NEW status \in AttemptStatuses, Started(b),
                 CanBecome(b, status),
                 \/ attempt' = [attempt EXCEPT ![b].status = status]
                 \/ attempt' = [attempt EXCEPT ![b].status = status, ![b].link = TRUE]
          PROVE  FALSE
      BY <1>3, <2>1, <3>3, StatusWrite
    <3>. QED  BY <3>1, <3>2, <3>3, AttemptWrites DEF AttemptWrite
  <2>2. attempt'[a] # NULL => invoice'[attempt'[a].invoice].status # "NONE"
    <3>1. ASSUME NEW i \in Invoices, PrepareAttempt(i, a)
          PROVE  invoice'[attempt'[a].invoice].status # "NONE"
      <4>1. attempt'[a].invoice = i
        <5>1. attempt'[a] = [invoice |-> i, status |-> "PREPARING", link |-> FALSE]
          BY <3>1, PreparedAttempt
        <5>. QED  BY <5>1
      <4>. QED  BY <3>1, <4>1 DEF PrepareAttempt
    <3>. QED  BY <2>1, <3>1
  <2>3. opening[a] = "IDLE" /\ checkout[a] = "NONE" /\ event[a] = "NONE"
    BY <1>3 DEF AttemptsBacked
  <2>4. checkout'[a] = "NONE"
    BY <2>3, Writers DEF OpenCheckout, Pay, PaymentTypeOK
  <2>5. event'[a] = "NONE"
    <3>1. \A h \in Handlers : handler[h].phase # "IDLE" => handler[h].attempt # a
      BY <1>3 DEF HandlersInformed, Informed
    <3>. QED  BY <2>3, <3>1, Writers DEF ReceiveEvent, StoreOutcome, PaymentTypeOK
  <2>6. opening'[a] # "IDLE" => attempt'[a] # NULL
    <3>1. ASSUME NEW i \in Invoices, NEW b \in Attempts, PrepareAttempt(i, b)
          PROVE  opening'[a] # "IDLE" => attempt'[a] # NULL
      <4>1. attempt'[b] # NULL
        <5>1. [invoice |-> i, status |-> "PREPARING", link |-> FALSE] \in AttemptRecords
          BY DEF AttemptRecords, AttemptStatuses
        <5>. QED  BY <3>1, <5>1, PreparedAttempt, PaymentNullAssumption
      <4>. QED  BY <2>3, <3>1, <4>1 DEF PrepareAttempt, PaymentTypeOK
    <3>. QED  BY <2>3, <3>1, Writers DEF OpenCheckout, PaymentTypeOK
  <2>. QED  BY <2>2, <2>4, <2>5, <2>6
<1>. QED
  BY <1>2, <1>3

\* Every step keeps the invariant.
LEMMA InvariantStep == PaymentInvariant /\ [PaymentNext]_paymentVars => PaymentInvariant'
<1>1. ASSUME PaymentInvariant, PaymentNext  PROVE PaymentInvariant'
  BY <1>1, TypeStep, ReceiptsStayPaid, SuccessStaysReceipted, AllocationsStayReceipts,
     PaidStaysAllocated, ExcessStaysSecond, AttemptsStayBacked, HandlersStayInformed
  DEF PaymentInvariant, SettledOnce, HandlersInformed
<1>2. ASSUME PaymentInvariant, UNCHANGED paymentVars  PROVE PaymentInvariant'
  BY <1>2
  DEF paymentVars, PaymentInvariant, SettledOnce, PaymentTypeOK, ReceiptsArePaid,
      SucceededIsReceipted, AllocationsAreReceipts, PaidIsAllocated, ExcessIsSecond,
      AttemptsBacked, HandlersInformed, Informed, Started, InvoiceOf
<1>. QED
  BY <1>1, <1>2

\* In every reachable state an attempt that is used was saved for an issued
\* invoice, and what a confirmation read or wrote earlier still holds.
THEOREM PaymentInvariantHolds == PaymentSpec => []PaymentInvariant
<1>. QED
  BY InitInvariant, InvariantStep, PTL DEF PaymentSpec

\* An invoice is settled by one payment, made in full and received for it; a
\* second one is only ever reported as excess, and no late observation takes a
\* success back (confirmInvoicePayment, for any number of confirmations at once).
THEOREM InvoiceSettledOnce == PaymentSpec => []SettledOnce
<1>1. PaymentInvariant => SettledOnce
  BY DEF PaymentInvariant
<1>. QED
  BY <1>1, PaymentInvariantHolds, PTL

\* No step of any actor takes back what another one recorded: a success is not
\* overwritten by a failure that was observed earlier, and a receipt, an
\* allocation and an issued invoice stay.
THEOREM NothingTakenBack == PaymentSpec => [][Keeps]_paymentVars
<1>1. PaymentInvariant /\ [PaymentNext]_paymentVars => [Keeps]_paymentVars
  BY StepKeeps
<1>. QED
  BY <1>1, PaymentInvariantHolds, PTL DEF PaymentSpec

-----------------------------------------------------------------------------
(* The refinement: every step of the code is a step of InvoiceLifecycle or    *)
(* changes nothing that InvoiceLifecycle speaks of.                           *)

paidFor == [a \in Attempts |-> IF checkout[a] = "PAID" THEN InvoiceOf(a) ELSE NULL]

\* The abstract invoice starts as the portal's does.
LEMMA InitImplemented == PaymentInit => Lifecycle!LifecycleInit
  BY DEF PaymentInit, Lifecycle!LifecycleInit

\* Without a payment, what was paid for stays the same in the abstract invoice.
LEMMA PaidForStays ==
  ASSUME PaymentInvariant, PaymentNext, UNCHANGED checkout
  PROVE  paidFor' = paidFor
<1>1. ASSUME NEW a \in Attempts, checkout[a] = "PAID"
      PROVE  attempt'[a].invoice = attempt[a].invoice
  BY <1>1, StepKeeps DEF Keeps, PaymentInvariant, AttemptsBacked
<1>. QED
  BY <1>1 DEF paidFor, InvoiceOf

\* Every statement of a confirmation is a step of the abstract invoice or leaves it.
LEMMA StepImplemented ==
  ASSUME PaymentInvariant, PaymentNext
  PROVE  [Lifecycle!LifecycleNext]_(Lifecycle!lifecycleVars)
<1>. USE DEF PaymentInvariant, SettledOnce
<1>1. ASSUME NEW a \in Attempts, Pay(a, "PAID")
      PROVE  \E i \in Invoices : Lifecycle!Receive(a, i)
  <2>1. Started(a) /\ InvoiceOf(a) \in Invoices /\ invoice[InvoiceOf(a)].status # "NONE"
    BY <1>1 DEF Pay, AttemptsBacked, PaymentTypeOK, Started, InvoiceOf, AttemptRecords
  <2>2. paidFor[a] = NULL
    BY <1>1 DEF Pay, paidFor
  <2>3. paidFor' = [paidFor EXCEPT ![a] = InvoiceOf(a)]
    BY <1>1, <2>1 DEF Pay, paidFor, InvoiceOf, PaymentTypeOK
  <2>4. UNCHANGED <<invoice, allocation>>
    BY <1>1 DEF Pay
  <2>. QED  BY <2>1, <2>2, <2>3, <2>4 DEF Lifecycle!Receive, paidFor
<1>2. ASSUME NEW a \in Attempts, Pay(a, "MISPAID") \/ OpenCheckout(a)
      PROVE  UNCHANGED Lifecycle!lifecycleVars
  <2>1. paidFor' = paidFor
    BY <1>2 DEF Pay, OpenCheckout, paidFor, InvoiceOf, PaymentTypeOK
  <2>. QED  BY <1>2, <2>1 DEF Pay, OpenCheckout, Lifecycle!lifecycleVars, paidFor
<1>3. ASSUME NEW i \in Invoices, IssueInvoice(i)  PROVE Lifecycle!Issue(i)
  BY <1>3, PaidForStays DEF IssueInvoice, Lifecycle!Issue, paidFor
<1>4. ASSUME NEW h \in Handlers, NEW split \in BOOLEAN, SettleInvoice(h, split)
      PROVE  \E i \in Invoices : Lifecycle!Settle(i, split)
  <2>1. /\ InvoiceOf(handler[h].attempt) \in Invoices
        /\ allocation[InvoiceOf(handler[h].attempt)] # NULL
    BY <1>4, PaymentNullAssumption
    DEF SettleInvoice, HandlersInformed, Informed, InvoiceOf, Started, PaymentTypeOK, AttemptRecords
  <2>. QED  BY <1>4, <2>1, PaidForStays DEF SettleInvoice, Lifecycle!Settle, paidFor
<1>5. ASSUME NEW h \in Handlers, CreateAllocation(h)
      PROVE  \/ UNCHANGED Lifecycle!lifecycleVars
             \/ \E i \in Invoices, a \in Attempts : Lifecycle!Allocate(i, a)
  <2>1. PICK a \in Attempts : a = handler[h].attempt /\ checkout[a] = "PAID"
                              /\ InvoiceOf(a) \in Invoices
    BY <1>5
    DEF CreateAllocation, HandlersInformed, Informed, InvoiceOf, Started, PaymentTypeOK,
        AttemptRecords
  <2>2. UNCHANGED <<invoice, paidFor>>
    BY <1>5, PaidForStays DEF CreateAllocation
  <2>3. CASE UNCHANGED allocation
    BY <2>2, <2>3 DEF Lifecycle!lifecycleVars, paidFor
  <2>4. CASE allocation[InvoiceOf(a)] = NULL
             /\ allocation' = [allocation EXCEPT ![InvoiceOf(a)] = a]
    BY <2>1, <2>2, <2>4 DEF Lifecycle!Allocate, paidFor
  <2>. QED  BY <1>5, <2>1, <2>3, <2>4 DEF CreateAllocation
<1>6. ASSUME NEW h \in Handlers, RecordExcessPayment(h)
      PROVE  \E i \in Invoices, a \in Attempts : Lifecycle!FlagExcess(i, a)
  <2>1. PICK a \in Attempts : /\ a = handler[h].attempt /\ checkout[a] = "PAID"
                              /\ InvoiceOf(a) \in Invoices
                              /\ allocation[InvoiceOf(a)] \notin {a, NULL}
    BY <1>6
    DEF RecordExcessPayment, HandlersInformed, Informed, InvoiceOf, Started, PaymentTypeOK,
        AttemptRecords
  <2>2. UNCHANGED <<allocation, paidFor>>
    BY <1>6, PaidForStays DEF RecordExcessPayment
  <2>3. invoice' = [invoice EXCEPT ![InvoiceOf(a)].exception = TRUE]
    BY <1>6, <2>1 DEF RecordExcessPayment
  <2>. QED  BY <2>1, <2>2, <2>3 DEF Lifecycle!FlagExcess, paidFor
<1>7. CASE UNCHANGED <<invoice, checkout, allocation>>
  BY <1>7, PaidForStays DEF Lifecycle!lifecycleVars, paidFor
<1>8. \/ UNCHANGED <<invoice, checkout, allocation>>
      \/ \E i \in Invoices : IssueInvoice(i)
      \/ \E a \in Attempts : OpenCheckout(a) \/ Pay(a, "PAID") \/ Pay(a, "MISPAID")
      \/ \E h \in Handlers : CreateAllocation(h) \/ RecordExcessPayment(h)
      \/ \E h \in Handlers, split \in BOOLEAN : SettleInvoice(h, split)
  BY Writers
<1>. QED
  BY <1>1, <1>2, <1>3, <1>4, <1>5, <1>6, <1>7, <1>8 DEF Lifecycle!LifecycleNext

\* Webhook, sweep, owner and administrator together do no more to an invoice
\* than InvoiceLifecycle promises: it is issued, settled once for a payment
\* made for it, and flagged for a second one.
THEOREM LifecycleImplemented == PaymentSpec => ImplementsLifecycle
<1>1. PaymentInvariant /\ [PaymentNext]_paymentVars
        => [Lifecycle!LifecycleNext]_(Lifecycle!lifecycleVars)
  <2>1. ASSUME UNCHANGED paymentVars  PROVE UNCHANGED Lifecycle!lifecycleVars
    BY <2>1 DEF paymentVars, Lifecycle!lifecycleVars, InvoiceOf
  <2>. QED  BY <2>1, StepImplemented
<1>. QED
  BY <1>1, InitImplemented, PaymentInvariantHolds, PTL
  DEF PaymentSpec, ImplementsLifecycle, Lifecycle!LifecycleSpec

-----------------------------------------------------------------------------
(* The monthly invoices. *)

\* A run was sent to a month that is over; a claimed charge is on an invoice that
\* was issued, and an invoice has charges, none for a later month.
GenerationInvariant ==
  /\ GenerationTypeOK
  /\ \A r \in Runs : target[r] # 0 => target[r] < month
  /\ \A c \in Charges : claim[c] # 0 => claim[c] \in issued /\ service[c] # 0
  /\ \A m \in issued :
       /\ m < month /\ Claimed(m) # {}
       /\ \A c \in Claimed(m) : service[c] <= m

\* What a step of the generation may do to the invoices.
ContentsStay ==
  \A m \in issued' :
    /\ Claimed(m)' # {}
    /\ m < month
    /\ \A c \in Claimed(m)' : service'[c] <= m
    /\ m \in issued => Claimed(m)' = Claimed(m)

\* Nothing is claimed or issued at first.
LEMMA GenerationInitially == GenerationInit => GenerationInvariant
BY GenerationAssumption
DEF GenerationInit, GenerationInvariant, GenerationTypeOK, Months, Claimed

\* The month that a run is sent to is over, whichever of the two it is.
LEMMA TargetIsClosed ==
  ASSUME GenerationInvariant, NEW r \in Runs, ResolvePeriod(r)
  PROVE  \E m \in 0 .. MaxMonths : m < month /\ target' = [target EXCEPT ![r] = m]
<1>. DEFINE services == {service[c] : c \in Unclaimed}
            earliest == Min(services)
            afterLast == IF issued = {} THEN 0 ELSE Max(issued) + 1
            candidate == Max({earliest, afterLast})
<1>. USE GenerationAssumption DEF GenerationInvariant, GenerationTypeOK
<1>1. services \subseteq Nat /\ services # {}
  BY DEF ResolvePeriod, Unclaimed
<1>2. earliest \in Nat
  <2>1. PICK x \in services : \A y \in services : <<y, x>> \notin OpToRel(<, Nat)
    BY <1>1, NatLessThanWellFounded, WFMin, Zenon
  <2>. HIDE DEF services
  <2>2. ASSUME NEW y \in services  PROVE x <= y
    <3>1. x \in Nat /\ y \in Nat
      BY <1>1
    <3>2. ~ (y < x)
      BY <2>1, <3>1 DEF OpToRel
    <3>. QED  BY <3>1, <3>2
  <2>3. earliest \in services
    BY <2>2 DEF Min
  <2>. QED  BY <1>1, <2>3
<1>3. afterLast \in Nat
  <2>1. CASE issued = {}
    BY <2>1
  <2>2. CASE issued # {}
    <3>1. issued \subseteq 1 .. MaxMonths /\ MaxMonths \in Nat
      BY DEF Months
    <3>2. Max(issued) \in issued
      BY <2>2, <3>1, LatestOf
    <3>3. PICK m \in 1 .. MaxMonths : m = Max(issued)
      BY <3>1, <3>2
    <3>4. afterLast = m + 1
      BY <2>2, <3>3
    <3>. QED  BY <3>3, <3>4
  <2>. QED  BY <2>1, <2>2
<1>4. candidate < month /\ target' = [target EXCEPT ![r] = candidate]
  BY DEF ResolvePeriod, IsClosed
<1>. HIDE DEF earliest, afterLast
<1>5. candidate \in Nat
  BY <1>2, <1>3 DEF Max
<1>6. month \in 1 .. MaxMonths + 1 /\ MaxMonths \in Nat
  OBVIOUS
<1>. HIDE DEF candidate
<1>7. candidate \in 0 .. MaxMonths
  BY <1>4, <1>5, <1>6
<1>. QED  BY <1>4, <1>7

\* A step that claims nothing leaves every invoice with the charges it has, and
\* a charge that is claimed with its month.
LEMMA ClaimsStand ==
  ASSUME GenerationInvariant, UNCHANGED <<claim, issued>>, month' \in {month, month + 1},
         \A c \in Charges : service[c] # 0 => service'[c] = service[c]
  PROVE  /\ ContentsStay
         /\ \A c \in Charges : claim'[c] # 0 => claim'[c] \in issued' /\ service'[c] # 0
         /\ \A m \in issued' :
              /\ m < month' /\ Claimed(m)' # {}
              /\ \A c \in Claimed(m)' : service'[c] <= m
<1>. USE DEF GenerationInvariant, GenerationTypeOK, Months
<1>1. ASSUME NEW m  PROVE Claimed(m)' = Claimed(m)
  BY DEF Claimed
<1>2. ASSUME NEW m \in issued  PROVE m < month /\ m < month' /\ Claimed(m) # {}
  OBVIOUS
<1>3. ASSUME NEW m \in issued, NEW c \in Claimed(m)  PROVE service'[c] <= m
  <2>1. c \in Charges /\ claim[c] = m /\ m # 0 /\ service[c] <= m
    BY DEF Claimed
  <2>. QED  BY <2>1
<1>4. ASSUME NEW c \in Charges, claim[c] # 0  PROVE claim[c] \in issued /\ service'[c] # 0
  BY <1>4
<1>. QED
  BY <1>1, <1>2, <1>3, <1>4 DEF ContentsStay

\* Every step keeps the invariant, and the invoices as they are.
LEMMA GenerationStep ==
  ASSUME GenerationInvariant, [GenerationNext]_generationVars
  PROVE  GenerationInvariant' /\ ContentsStay
<1>. USE GenerationAssumption
<1>1. CASE UNCHANGED generationVars
  <2>1. UNCHANGED <<month, service, claim, issued, target>>
    BY <1>1 DEF generationVars
  <2>2. GenerationTypeOK' /\ \A r \in Runs : target'[r] # 0 => target'[r] < month'
    BY <2>1 DEF GenerationInvariant, GenerationTypeOK
  <2>3. month \in Nat
    BY DEF GenerationInvariant, GenerationTypeOK
  <2>. QED  BY <2>1, <2>2, <2>3, ClaimsStand DEF GenerationInvariant
<1>2. CASE NextMonth
  <2>1. GenerationTypeOK' /\ \A r \in Runs : target'[r] # 0 => target'[r] < month'
    BY <1>2 DEF GenerationInvariant, GenerationTypeOK, NextMonth, Months
  <2>. QED  BY <1>2, <2>1, ClaimsStand DEF GenerationInvariant, NextMonth
<1>3. ASSUME NEW c \in Charges, NEW m \in Months, CreateCharge(c, m)
      PROVE  GenerationInvariant' /\ ContentsStay
  <2>1. GenerationTypeOK' /\ \A r \in Runs : target'[r] # 0 => target'[r] < month'
    BY <1>3 DEF GenerationInvariant, GenerationTypeOK, CreateCharge, Months
  <2>2. \A d \in Charges : service[d] # 0 => service'[d] = service[d]
    BY <1>3 DEF GenerationInvariant, GenerationTypeOK, CreateCharge
  <2>. QED  BY <1>3, <2>1, <2>2, ClaimsStand DEF GenerationInvariant, CreateCharge
<1>4. ASSUME NEW r \in Runs, ResolvePeriod(r)
      PROVE  GenerationInvariant' /\ ContentsStay
  <2>1. PICK m \in 0 .. MaxMonths : m < month /\ target' = [target EXCEPT ![r] = m]
    BY <1>4, TargetIsClosed
  <2>2. UNCHANGED <<month, service, claim, issued>>
    BY <1>4 DEF ResolvePeriod
  <2>3. GenerationTypeOK' /\ \A q \in Runs : target'[q] # 0 => target'[q] < month'
    BY <2>1, <2>2 DEF GenerationInvariant, GenerationTypeOK
  <2>. QED  BY <2>2, <2>3, ClaimsStand DEF GenerationInvariant
<1>5. ASSUME NEW r \in Runs, IssuePeriod(r)
      PROVE  GenerationInvariant' /\ ContentsStay
  <2>1. PICK t \in Months : /\ t = target[r] /\ t < month
                            /\ UNCHANGED <<month, service>>
                            /\ target' = [target EXCEPT ![r] = 0]
    BY <1>5 DEF IssuePeriod, GenerationInvariant, GenerationTypeOK, Months
  <2>. DEFINE claimable == {c \in Unclaimed : service[c] <= t}
  <2>2. CASE UNCHANGED <<claim, issued>>
    <3>1. GenerationTypeOK' /\ \A q \in Runs : target'[q] # 0 => target'[q] < month'
      BY <2>1, <2>2 DEF GenerationInvariant, GenerationTypeOK
    <3>. QED  BY <2>1, <2>2, <3>1, ClaimsStand DEF GenerationInvariant
  <2>3. CASE /\ claimable # {} /\ t \notin issued
             /\ claim' = [c \in Charges |-> IF c \in claimable THEN t ELSE claim[c]]
             /\ issued' = issued \cup {t}
    <3>1. claimable \subseteq Charges
          /\ \A c \in claimable : claim[c] = 0 /\ service[c] # 0 /\ service[c] <= t
      BY DEF Unclaimed
    <3>. HIDE DEF claimable
    <3>2. Claimed(t) = {}
      BY <2>1, <2>3 DEF GenerationInvariant, Claimed, Months
    <3>3. Claimed(t)' = claimable
      BY <2>1, <2>3, <3>1, <3>2 DEF Claimed
    <3>4. ASSUME NEW m \in issued  PROVE Claimed(m)' = Claimed(m)
      BY <2>3, <3>1, <3>4 DEF GenerationInvariant, GenerationTypeOK, Claimed, Months
    <3>5. GenerationTypeOK' /\ \A q \in Runs : target'[q] # 0 => target'[q] < month'
      <4>1. claim' \in [Charges -> 0 .. MaxMonths] /\ issued' \subseteq Months
        BY <2>1, <2>3 DEF GenerationInvariant, GenerationTypeOK, Months
      <4>2. target' \in [Runs -> 0 .. MaxMonths]
            /\ \A q \in Runs : target'[q] # 0 => target'[q] < month'
        BY <2>1 DEF GenerationInvariant, GenerationTypeOK, Months
      <4>. QED  BY <2>1, <4>1, <4>2 DEF GenerationInvariant, GenerationTypeOK
    <3>6. \A c \in Charges : claim'[c] # 0 => claim'[c] \in issued' /\ service'[c] # 0
      BY <2>1, <2>3, <3>1 DEF GenerationInvariant
    <3>7. \A m \in issued' :
            /\ m < month /\ m < month' /\ Claimed(m)' # {}
            /\ \A c \in Claimed(m)' : service'[c] <= m
      BY <2>1, <2>3, <3>1, <3>3, <3>4 DEF GenerationInvariant
    <3>8. ContentsStay
      BY <2>3, <3>4, <3>7 DEF ContentsStay
    <3>. QED  BY <3>5, <3>6, <3>7, <3>8 DEF GenerationInvariant
  <2>. QED  BY <1>5, <2>1, <2>2, <2>3 DEF IssuePeriod
<1>. QED
  BY <1>1, <1>2, <1>3, <1>4, <1>5 DEF GenerationNext, Generate

\* Every claimed charge is on one issued invoice, every invoice has charges, and
\* no run is on its way to a month that is not over.
THEOREM GenerationInvariantHolds == GenerationSpec => []GenerationInvariant
BY GenerationInitially, GenerationStep, PTL DEF GenerationSpec

\* An invoice is issued once and for all, whatever runs overlap and however late
\* a charge arrives: none is added to it or taken away, and it bills no month
\* that is not over and no service after its month.
THEOREM InvoicesAreFinal == GenerationSpec => InvoiceContentsFinal
<1>1. GenerationInvariant /\ [GenerationNext]_generationVars => [ContentsStay]_generationVars
  BY GenerationStep
<1>. QED
  BY <1>1, GenerationInvariantHolds, PTL DEF GenerationSpec, InvoiceContentsFinal, ContentsStay

-----------------------------------------------------------------------------
(* CredentialRenewals. *)

\* A claim counts as an attempt, and a renewal that failed has no worker.
LeaseIsCounted ==
  /\ record.token # NULL => record.tries # 0
  /\ record.status = "FAILED" => record.token = NULL

\* As long as no offer is prepared nothing of the renewal is under way but
\* claims and decisions to prepare, and a cancelled enrolment has cancelled it.
NothingUnderWay ==
  /\ record.replacement = 0 /\ revocations = {} /\ replacing = NULL
  /\ \A o \in Offers \ {0} : offer[o] = NoOffer
  /\ offer[0].agent = "ACCEPTED" /\ offer[0].event = "DONE"
  /\ offer[0].status \in {"ISSUED", "REVOKED"}
  /\ \A w \in Workers :
       worker[w].phase \in {"IDLE", "CHECKING", "PREPARING"} /\ worker[w].offer = 0
  /\ enrolment = "CANCELLED" => record.status = "CANCELLED"

RenewalInvariant ==
  /\ RenewalTypeOK
  /\ LeaseIsCounted
  /\ offer[0].key = "INITIAL"
  /\ replacing # NULL => Prepared /\ Unused # {}
  /\ ~ Prepared => NothingUnderWay

\* A set of numbers that is not empty has a smallest one.
LEMMA EarliestOf ==
  ASSUME NEW S, S \subseteq Nat, S # {}
  PROVE  Min(S) \in S
<1>1. PICK x \in S : \A y \in S : <<y, x>> \notin OpToRel(<, Nat)
  BY NatLessThanWellFounded, WFMin, Zenon
<1>2. \A y \in S : x <= y
  <2>. SUFFICES ASSUME NEW y \in S  PROVE x <= y
    OBVIOUS
  <2>1. x \in Nat /\ y \in Nat /\ ~ (y < x)
    BY <1>1 DEF OpToRel
  <2>. QED  BY <2>1
<1>. QED  BY <1>2 DEF Min

\* An attempt is counted, up to the one that is too many.
LEMMA TriesCounted ==
  ASSUME NEW n \in 0 .. MaxTries + 1, RenewalAssumption
  PROVE  Min({n + 1, MaxTries + 1}) \in 1 .. MaxTries + 1
<1>1. /\ MaxTries \in Nat /\ n + 1 \in Nat /\ MaxTries + 1 \in Nat
      /\ {n + 1, MaxTries + 1} \subseteq Nat
  BY RenewalAssumption
<1>2. Min({n + 1, MaxTries + 1}) \in {n + 1, MaxTries + 1}
  BY <1>1, EarliestOf
<1>3. \A m \in {n + 1, MaxTries + 1} : m \in 1 .. MaxTries + 1 \/ m = MaxTries + 2
  BY <1>1
<1>4. CASE n = MaxTries + 1
  <2>1. Min({n + 1, MaxTries + 1}) = CHOOSE x \in {n + 1, MaxTries + 1} :
           \A y \in {n + 1, MaxTries + 1} : x <= y
    BY DEF Min
  <2>2. \A y \in {n + 1, MaxTries + 1} : MaxTries + 1 <= y
    BY <1>1, <1>4
  <2>3. \A y \in {n + 1, MaxTries + 1} : Min({n + 1, MaxTries + 1}) <= y
    BY <2>1, <2>2
  <2>. QED  BY <1>1, <1>2, <2>3
<1>. QED  BY <1>1, <1>2, <1>4

\* What LeaseIsCounted says of a record.
RecordSound(rec) ==
  /\ rec \in Records
  /\ rec.token # NULL => rec.tries # 0
  /\ rec.status = "FAILED" => rec.token = NULL

\* A sound record is released soundly, and keeps its offers.
LEMMA ReleasedSound ==
  ASSUME NEW rec, RecordSound(rec), NEW status \in RecordStatuses
  PROVE  /\ RecordSound(Released(rec, status))
         /\ Released(rec, status).active = rec.active
         /\ Released(rec, status).replacement = rec.replacement
         /\ Released(rec, status).status = status
BY DEF RecordSound, Released, Records

\* An attempt that ends leaves the record as it is or releases it.
LEMMA FailedReleases ==
  ASSUME NEW w, NEW expired, Failed(w, expired)
  PROVE  \/ record' = record
         \/ \E status \in RecordStatuses : record' = Released(record, status)
BY DEF Failed, Finish, RecordStatuses, Schedulable

\* So does an activation.
LEMMA ReconcileReleases ==
  ASSUME NEW o, NEW offers, ReconcileActivation(o, offers)
  PROVE  \/ record' = record
         \/ \E status \in RecordStatuses : record' = Released(record, status)
BY DEF ReconcileActivation, RecordStatuses

\* The steps that do more to the record than to release it.
LEMMA RecordWriters ==
  ASSUME RenewalNext
  PROVE  \/ record' = record
         \/ \E status \in RecordStatuses : record' = Released(record, status)
         \/ \E w \in Workers : TakeRecord(w) \/ Check(w) \/ Prepare(w) \/ LinkOffer(w)
         \/ ObserveActivation \/ RetryRenewal \/ PrepareReplacement
         \/ record' = [record EXCEPT !.leased = FALSE]
<1>1. ASSUME NEW w \in Workers, FinishRenewal(w)
      PROVE  \/ record' = record
             \/ \E status \in RecordStatuses : record' = Released(record, status)
  BY <1>1 DEF FinishRenewal, RecordStatuses
<1>2. ASSUME NEW w \in Workers, WorkerStep(w)
      PROVE  \/ record' = record
             \/ \E status \in RecordStatuses : record' = Released(record, status)
             \/ Check(w) \/ Prepare(w) \/ LinkOffer(w)
  BY <1>1, <1>2, FailedReleases, ReconcileReleases
  DEF WorkerStep, LoseLease, AskAgent, StoreOffer, Reconcile, MailExpired, SendMail, RecordMail
<1>3. ASSUME NEW o \in Offers, EventStep(o) \/ RunRevocation(o) \/ Accept(o) \/ ExpireOffer(o)
      PROVE  \/ record' = record
             \/ \E status \in RecordStatuses : record' = Released(record, status)
  BY <1>3, ReconcileReleases
  DEF EventStep, LogEvent, ApplyEvent, ReconcileEvent, RunRevocation, Accept, ExpireOffer
<1>4. ASSUME NEW w \in Workers,
             \/ Claim(w) \/ RenewManually(w)
             \/ AgentFails(w) \/ MailFails(w) \/ WorkerStops(w)
      PROVE  \/ record' = record
             \/ \E status \in RecordStatuses : record' = Released(record, status)
             \/ TakeRecord(w)
  BY <1>4, FailedReleases DEF Claim, RenewManually, AgentFails, MailFails, WorkerStops
<1>5. ASSUME SkipElapsed \/ CancelEnrolment
      PROVE  \/ record' = record
             \/ \E status \in RecordStatuses : record' = Released(record, status)
  BY <1>5 DEF SkipElapsed, CancelEnrolment, Cancelled, RecordStatuses
<1>6. ASSUME \/ CompleteEnrolment \/ StartReplacement \/ SuspendOrReactivate \/ RevokeOld
             \/ YearPasses \/ ExpireLease \/ Overrun
      PROVE  record' = record \/ record' = [record EXCEPT !.leased = FALSE]
  BY <1>6 DEF CompleteEnrolment, StartReplacement, SuspendOrReactivate, RevokeOld,
     YearPasses, ExpireLease, Overrun
<1>. QED  BY <1>2, <1>3, <1>4, <1>5, <1>6 DEF RenewalNext

\* An offer changes, but not its key.
OfferMoves ==
  \E o \in Offers, r \in OfferRecords :
    r.key = offer[o].key /\ offer' = [offer EXCEPT ![o] = r]

\* A worker's step changes the offer it works on.
LEMMA WorkerMovesOffer ==
  ASSUME RenewalTypeOK, NEW w \in Workers,
         \/ AskAgent(w) \/ StoreOffer(w) \/ LinkOffer(w) \/ Reconcile(w)
         \/ SendMail(w) \/ MailFails(w) \/ RecordMail(w)
  PROVE  OfferMoves
<1>1. worker[w].offer \in Offers
  BY DEF RenewalTypeOK, WorkerRecords
<1>2. PICK o \in Offers : o = worker[w].offer
  BY <1>1
<1>3. offer \in [Offers -> OfferRecords] /\ offer[o] \in OfferRecords
  BY DEF RenewalTypeOK
<1>4. CASE AskAgent(w)
  <2>. DEFINE r == [offer[o] EXCEPT !.agent = IF @ = "NONE" THEN "OFFERED" ELSE @]
  <2>1. r \in OfferRecords /\ r.key = offer[o].key
    BY <1>3 DEF OfferRecords
  <2>2. offer' = [offer EXCEPT ![o] = r]
    BY <1>2, <1>4 DEF AskAgent
  <2>. QED  BY <2>1, <2>2 DEF OfferMoves
<1>5. CASE StoreOffer(w)
  <2>. DEFINE r == [offer[o] EXCEPT !.delivery = "PENDING",
                      !.status = IF @ = "NONE" THEN "OFFER_SENT" ELSE @]
  <2>1. r \in OfferRecords /\ r.key = offer[o].key
    BY <1>3 DEF OfferRecords
  <2>2. offer' = [offer EXCEPT ![o] = r]
    BY <1>2, <1>3, <1>5 DEF StoreOffer, OfferRecords
  <2>. QED  BY <2>1, <2>2 DEF OfferMoves
<1>6. CASE LinkOffer(w)
  <2>. DEFINE r == [offer[o] EXCEPT !.linked = TRUE]
  <2>1. r \in OfferRecords /\ r.key = offer[o].key
    BY <1>3 DEF OfferRecords
  <2>2. offer' = [offer EXCEPT ![o] = r]
    BY <1>2, <1>6 DEF LinkOffer
  <2>. QED  BY <2>1, <2>2 DEF OfferMoves
<1>7. CASE Reconcile(w)
  <2>1. PICK status : /\ status \in {"ISSUED", "REVOKED", offer[o].status}
                      /\ offer' = [offer EXCEPT ![o].status = status]
    BY <1>2, <1>7 DEF Reconcile, Written
  <2>. DEFINE r == [offer[o] EXCEPT !.status = status]
  <2>2. r \in OfferRecords /\ r.key = offer[o].key
    BY <1>3, <2>1 DEF OfferRecords
  <2>. QED  BY <2>1, <2>2 DEF OfferMoves
<1>8. CASE SendMail(w)
  <2>. DEFINE r == [offer[o] EXCEPT !.mailed = TRUE]
  <2>1. r \in OfferRecords /\ r.key = offer[o].key
    BY <1>3 DEF OfferRecords
  <2>2. offer' = [offer EXCEPT ![o] = r]
    BY <1>2, <1>8 DEF SendMail
  <2>. QED  BY <2>1, <2>2 DEF OfferMoves
<1>9. CASE MailFails(w)
  <2>1. PICK arrived \in BOOLEAN :
          offer' = [offer EXCEPT ![o].mailed = @ \/ arrived, ![o].mailFailed = TRUE,
                      ![o].delivery = "FAILED",
                      ![o].status = IF @ = "OFFER_SENT" THEN "FAILED" ELSE @]
    BY <1>2, <1>9 DEF MailFails
  <2>. DEFINE r == [offer[o] EXCEPT !.mailed = @ \/ arrived, !.mailFailed = TRUE,
                      !.delivery = "FAILED",
                      !.status = IF @ = "OFFER_SENT" THEN "FAILED" ELSE @]
  <2>2. r \in OfferRecords /\ r.key = offer[o].key
    BY <1>3 DEF OfferRecords
  <2>3. offer' = [offer EXCEPT ![o] = r]
    BY <1>3, <2>1 DEF OfferRecords
  <2>. QED  BY <2>2, <2>3 DEF OfferMoves
<1>10. CASE RecordMail(w)
  <2>1. PICK status : /\ status \in {"OFFER_SENT", "REVOKED", offer[o].status}
                      /\ offer' = [offer EXCEPT ![o].delivery = "DELIVERED", ![o].status = status]
    BY <1>2, <1>3, <1>10 DEF RecordMail, Written, OfferRecords
  <2>. DEFINE r == [offer[o] EXCEPT !.delivery = "DELIVERED", !.status = status]
  <2>2. r \in OfferRecords /\ r.key = offer[o].key
    BY <1>3, <2>1 DEF OfferRecords
  <2>3. offer' = [offer EXCEPT ![o] = r]
    BY <1>3, <2>1 DEF OfferRecords
  <2>. QED  BY <2>2, <2>3 DEF OfferMoves
<1>. QED  BY <1>4, <1>5, <1>6, <1>7, <1>8, <1>9, <1>10

\* An event, a revocation, the student and time move one offer.
LEMMA SystemMovesOffer ==
  ASSUME RenewalTypeOK, NEW o \in Offers,
         \/ LogEvent(o) \/ ApplyEvent(o) \/ ReconcileEvent(o) \/ RunRevocation(o)
         \/ Accept(o) \/ ExpireOffer(o)
  PROVE  OfferMoves
<1>1. offer \in [Offers -> OfferRecords] /\ offer[o] \in OfferRecords
  BY DEF RenewalTypeOK
<1>2. CASE LogEvent(o) \/ ReconcileEvent(o)
  <2>1. PICK stage \in {"LOGGED", "DONE"} : offer' = [offer EXCEPT ![o].event = stage]
    BY <1>2 DEF LogEvent, ReconcileEvent
  <2>. DEFINE r == [offer[o] EXCEPT !.event = stage]
  <2>2. r \in OfferRecords /\ r.key = offer[o].key
    BY <1>1, <2>1 DEF OfferRecords
  <2>. QED  BY <2>1, <2>2 DEF OfferMoves
<1>3. CASE ApplyEvent(o)
  <2>1. PICK status \in {"ISSUED", "REVOKED"} :
          offer' = [offer EXCEPT ![o].event = "WRITTEN", ![o].status = status]
    BY <1>3 DEF ApplyEvent, Written
  <2>. DEFINE r == [offer[o] EXCEPT !.event = "WRITTEN", !.status = status]
  <2>2. r \in OfferRecords /\ r.key = offer[o].key
    BY <1>1, <2>1 DEF OfferRecords
  <2>3. offer' = [offer EXCEPT ![o] = r]
    BY <1>1, <2>1 DEF OfferRecords
  <2>. QED  BY <2>2, <2>3 DEF OfferMoves
<1>4. CASE RunRevocation(o)
  <2>1. PICK status : /\ status \in {"REVOKED", offer[o].status}
                      /\ offer' = [offer EXCEPT ![o].revoked = TRUE, ![o].status = status]
    BY <1>1, <1>4 DEF RunRevocation, OfferRecords
  <2>. DEFINE r == [offer[o] EXCEPT !.revoked = TRUE, !.status = status]
  <2>2. r \in OfferRecords /\ r.key = offer[o].key
    BY <1>1, <2>1 DEF OfferRecords
  <2>3. offer' = [offer EXCEPT ![o] = r]
    BY <1>1, <2>1 DEF OfferRecords
  <2>. QED  BY <2>2, <2>3 DEF OfferMoves
<1>5. CASE Accept(o)
  <2>. DEFINE r == [offer[o] EXCEPT !.agent = "ACCEPTED", !.event = "SENT"]
  <2>1. r \in OfferRecords /\ r.key = offer[o].key
    BY <1>1 DEF OfferRecords
  <2>2. offer' = [offer EXCEPT ![o] = r]
    BY <1>1, <1>5 DEF Accept, OfferRecords
  <2>. QED  BY <2>1, <2>2 DEF OfferMoves
<1>6. CASE ExpireOffer(o)
  <2>. DEFINE r == [offer[o] EXCEPT !.expired = TRUE]
  <2>1. r \in OfferRecords /\ r.key = offer[o].key
    BY <1>1 DEF OfferRecords
  <2>2. offer' = [offer EXCEPT ![o] = r]
    BY <1>6 DEF ExpireOffer
  <2>. QED  BY <2>1, <2>2 DEF OfferMoves
<1>. QED  BY <1>2, <1>3, <1>4, <1>5, <1>6

\* An administrator revokes at most one offer.
LEMMA AdministratorMovesOffer ==
  ASSUME RenewalTypeOK, RenewalAssumption, StartReplacement \/ RevokeOld
  PROVE  offer' = offer \/ OfferMoves
<1>1. PICK o \in Offers :
        \/ offer' = offer
        \/ offer' = [offer EXCEPT ![o].revoked = TRUE, ![o].status = "REVOKED"]
  <2>1. record.active \in Offers /\ 0 \in Offers
    BY RenewalAssumption DEF RenewalTypeOK, Records, Offers
  <2>. QED  BY <2>1 DEF StartReplacement, RevokeOld
<1>2. offer \in [Offers -> OfferRecords] /\ offer[o] \in OfferRecords
  BY DEF RenewalTypeOK
<1>. DEFINE r == [offer[o] EXCEPT !.revoked = TRUE, !.status = "REVOKED"]
<1>3. r \in OfferRecords /\ r.key = offer[o].key
  BY <1>2 DEF OfferRecords
<1>4. offer' = offer \/ offer' = [offer EXCEPT ![o] = r]
  BY <1>1, <1>2 DEF OfferRecords
<1>. QED  BY <1>3, <1>4 DEF OfferMoves

\* Only a preparation names an offer.
LEMMA OfferWriters ==
  ASSUME RenewalTypeOK, RenewalAssumption, RenewalNext
  PROVE  \/ offer' = offer \/ OfferMoves
         \/ \E w \in Workers : Prepare(w)
         \/ PrepareReplacement
<1>1. ASSUME NEW w \in Workers,
             \/ Claim(w) \/ RenewManually(w) \/ WorkerStep(w)
             \/ AgentFails(w) \/ MailFails(w) \/ WorkerStops(w)
      PROVE  offer' = offer \/ OfferMoves \/ Prepare(w)
  <2>1. CASE \/ AskAgent(w) \/ StoreOffer(w) \/ LinkOffer(w) \/ Reconcile(w)
             \/ SendMail(w) \/ MailFails(w) \/ RecordMail(w)
    BY <2>1, WorkerMovesOffer
  <2>2. CASE \/ Claim(w) \/ RenewManually(w) \/ Check(w) \/ LoseLease(w) \/ MailExpired(w)
             \/ FinishRenewal(w) \/ AgentFails(w) \/ WorkerStops(w)
    BY <2>2 DEF Claim, TakeRecord, RenewManually, Check, LoseLease, MailExpired, FinishRenewal,
       AgentFails, WorkerStops
  <2>. QED  BY <1>1, <2>1, <2>2 DEF WorkerStep
<1>2. ASSUME NEW o \in Offers, EventStep(o) \/ RunRevocation(o) \/ Accept(o) \/ ExpireOffer(o)
      PROVE  OfferMoves
  BY <1>2, SystemMovesOffer DEF EventStep
<1>3. ASSUME \/ SkipElapsed \/ ObserveActivation \/ CompleteEnrolment \/ CancelEnrolment
             \/ RetryRenewal \/ SuspendOrReactivate \/ YearPasses \/ ExpireLease \/ Overrun
      PROVE  offer' = offer
  BY <1>3 DEF SkipElapsed, ObserveActivation, CompleteEnrolment, CancelEnrolment, RetryRenewal,
     SuspendOrReactivate, YearPasses, ExpireLease, Overrun
<1>. QED  BY <1>1, <1>2, <1>3, AdministratorMovesOffer DEF RenewalNext

\* The next offer of the renewal is a new one.
LEMMA NextOfferIsNew ==
  ASSUME RenewalAssumption, Unused # {}, offer[0].key = "INITIAL"
  PROVE  NextOffer \in Offers \ {0} /\ NextOffer \in Unused
<1>1. Unused \subseteq Nat
  BY RenewalAssumption DEF Unused, Offers
<1>2. NextOffer \in Unused
  BY <1>1, EarliestOf DEF NextOffer
<1>3. 0 \notin Unused
  BY RenewalAssumption DEF Unused, OfferKeys
<1>. QED  BY <1>2, <1>3 DEF Unused

\* What a preparation does: it ends, or it names an offer, a new one only for an
\* active enrolment without an offer.
LEMMA PreparationNames ==
  ASSUME RenewalInvariant, RenewalAssumption, NEW w \in Workers, Prepare(w)
  PROVE  \/ /\ offer' = offer
            /\ \/ enrolment = "ACTIVE" /\ ~ Prepared /\ Failed(w, FALSE)
               \/ record' = record /\ Become(w, Resting)
         \/ \E o \in Offers \ {0} :
              /\ offer' = [offer EXCEPT ![o].key = KeyOf(w)]
              /\ \E phase \in {"RECONCILING", "ASKING"} :
                   Become(w, [worker[w] EXCEPT !.phase = phase, !.offer = o])
              /\ \/ record' = record /\ offer[o].key = KeyOf(w)
                 \/ /\ enrolment = "ACTIVE" /\ ~ Prepared
                    /\ \/ record' = [record EXCEPT !.active = o]
                       \/ record' = [record EXCEPT !.active = o, !.status = "PROCESSING",
                                                   !.leased = TRUE]
<1>1. PICK known : known = {o \in Offers : offer[o].key = KeyOf(w)}
  OBVIOUS
<1>2. PICK o : o = IF known # {} THEN Min(known) ELSE NextOffer
  OBVIOUS
<1>3. CASE known # {}
  <2>1. known \subseteq Nat /\ known \subseteq Offers
    BY <1>1, RenewalAssumption DEF Offers
  <2>2. o \in known
    BY <1>2, <1>3, <2>1, EarliestOf
  <2>3. o \in Offers \ {0} /\ offer[o].key = KeyOf(w)
    BY <1>1, <2>1, <2>2 DEF RenewalInvariant, KeyOf
  <2>4. /\ offer' = [offer EXCEPT ![o].key = KeyOf(w)] /\ record' = record
        /\ Become(w, [worker[w] EXCEPT
             !.phase = IF offer[o].linked THEN "RECONCILING" ELSE "ASKING", !.offer = o])
    BY <1>1, <1>2, <1>3 DEF Prepare
  <2>. QED  BY <2>3, <2>4
<1>4. CASE known = {}
  <2>1. CASE enrolment # "ACTIVE" \/ Prepared \/ period = "OVER"
    BY <1>1, <1>4, <2>1 DEF Prepare
  <2>2. CASE ~ (enrolment # "ACTIVE" \/ Prepared \/ period = "OVER")
    <3>1. Unused # {} /\ offer[0].key = "INITIAL"
      <4>1. 1 \in Offers \ {0}
        BY RenewalAssumption DEF Offers
      <4>2. offer[1] = NoOffer
        BY <2>2, <4>1 DEF RenewalInvariant, NothingUnderWay
      <4>. QED  BY <4>1, <4>2 DEF RenewalInvariant, Unused, NoOffer
    <3>2. o \in Offers \ {0}
      BY <1>2, <1>4, <3>1, NextOfferIsNew
    <3>3. /\ offer' = [offer EXCEPT ![o].key = KeyOf(w)]
          /\ \/ record' = [record EXCEPT !.active = o]
             \/ record' = [record EXCEPT !.active = o, !.status = "PROCESSING",
                                         !.leased = TRUE]
          /\ Become(w, [worker[w] EXCEPT
               !.phase = IF offer[o].linked THEN "RECONCILING" ELSE "ASKING", !.offer = o])
      BY <1>1, <1>2, <1>4, <2>2 DEF Prepare
    <3>. QED  BY <2>2, <3>2, <3>3
  <2>. QED  BY <2>1, <2>2
<1>. QED  BY <1>3, <1>4

\* The record stays sound, and its offer is never taken back.
LEMMA RecordStaysSound ==
  ASSUME RenewalInvariant, RenewalAssumption, RenewalNext
  PROVE  RecordSound(record') /\ (Prepared => Prepared')
<1>1. /\ RecordSound(record) /\ record \in Records /\ record.active \in Offers
      /\ \A w \in Workers : worker[w].offer \in Offers
  BY DEF RenewalInvariant, RenewalTypeOK, LeaseIsCounted, RecordSound, Records, WorkerRecords
<1>2. /\ \A status \in RecordStatuses :
           /\ RecordSound(Released(record, status))
           /\ Released(record, status).active = record.active
      /\ \A status \in RecordStatuses : record' = Released(record, status) =>
           RecordSound(record') /\ (Prepared => Prepared')
  BY <1>1, ReleasedSound DEF Prepared
<1>3. record' = record => RecordSound(record') /\ (Prepared => Prepared')
  BY <1>1 DEF Prepared
<1>4. ASSUME NEW w \in Workers, TakeRecord(w)
      PROVE  RecordSound(record') /\ (Prepared => Prepared')
  <2>1. PICK n : n = Min({record.tries + 1, MaxTries + 1})
    OBVIOUS
  <2>2. n \in 1 .. MaxTries + 1
    BY <1>1, <2>1, TriesCounted DEF Records
  <2>3. n \in 0 .. MaxTries + 1 /\ n # 0
    BY <2>2, RenewalAssumption
  <2>4. record' = [record EXCEPT !.status = "PROCESSING", !.token = w, !.leased = TRUE,
                                 !.tries = n]
    BY <1>4, <2>1 DEF TakeRecord
  <2>. QED  BY <1>1, <2>3, <2>4 DEF RecordSound, Records, RecordStatuses, Schedulable, Prepared
<1>5. ASSUME NEW w \in Workers, Check(w)
      PROVE  RecordSound(record') /\ (Prepared => Prepared')
  <2>1. CASE record' = [Released(record, "DEFERRED") EXCEPT !.tries = @ - 1]
             /\ HoldsLease(w)
    <3>1. record.token # NULL
      BY <2>1, RenewalAssumption DEF HoldsLease
    <3>2. record.tries \in 0 .. MaxTries + 1 /\ record.tries # 0
      BY <1>1, <3>1 DEF RecordSound, Records
    <3>3. record.tries - 1 \in 0 .. MaxTries + 1
      BY <3>2, RenewalAssumption
    <3>4. record' = [record EXCEPT !.status = "DEFERRED", !.token = NULL, !.leased = FALSE,
                                   !.tries = record.tries - 1]
      BY <1>1, <2>1 DEF Released, Records
    <3>. QED  BY <1>1, <3>3, <3>4 DEF RecordSound, Records, RecordStatuses, Schedulable, Prepared
  <2>2. \/ record' = record
        \/ \E status \in RecordStatuses : record' = Released(record, status)
        \/ record' = [Released(record, "DEFERRED") EXCEPT !.tries = @ - 1] /\ HoldsLease(w)
    BY <1>5 DEF Check, Finish, Cancelled, RecordStatuses
  <2>. QED  BY <1>2, <1>3, <2>1, <2>2
<1>6. ASSUME NEW w \in Workers, Prepare(w)
      PROVE  RecordSound(record') /\ (Prepared => Prepared')
  <2>1. ASSUME NEW o \in Offers \ {0},
               \/ record' = [record EXCEPT !.active = o]
               \/ record' = [record EXCEPT !.active = o, !.status = "PROCESSING",
                                           !.leased = TRUE]
        PROVE  RecordSound(record') /\ (Prepared => Prepared')
    BY <1>1, <2>1 DEF RecordSound, Records, RecordStatuses, Schedulable, Prepared
  <2>2. \/ record' = record
        \/ \E status \in RecordStatuses : record' = Released(record, status)
        \/ \E o \in Offers \ {0} :
             \/ record' = [record EXCEPT !.active = o]
             \/ record' = [record EXCEPT !.active = o, !.status = "PROCESSING",
                                         !.leased = TRUE]
    BY <1>6, PreparationNames, FailedReleases
  <2>. QED  BY <1>2, <1>3, <2>1, <2>2
<1>7. ASSUME NEW w \in Workers, LinkOffer(w)
      PROVE  RecordSound(record') /\ (Prepared => Prepared')
  <2>1. record' = [record EXCEPT !.replacement = worker[w].offer]
    BY <1>7 DEF LinkOffer
  <2>. QED  BY <1>1, <2>1 DEF RecordSound, Records, Prepared
<1>8. ASSUME ObserveActivation
      PROVE  RecordSound(record') /\ (Prepared => Prepared')
  <2>1. PICK status \in {"ACTIVATED", "NEEDS_ATTENTION"} :
          record' = [record EXCEPT !.status = status]
    BY <1>8 DEF ObserveActivation
  <2>. QED  BY <1>1, <2>1 DEF RecordSound, Records, RecordStatuses, Prepared
<1>9. ASSUME RetryRenewal
      PROVE  RecordSound(record') /\ (Prepared => Prepared')
  <2>1. record' = [record EXCEPT !.status = "RETRYING", !.tries = 0] /\ record.token = NULL
    BY <1>1, <1>9 DEF RetryRenewal, RecordSound
  <2>2. 0 \in 0 .. MaxTries + 1
    BY RenewalAssumption
  <2>. QED  BY <1>1, <2>1, <2>2 DEF RecordSound, Records, RecordStatuses, Schedulable, Prepared
<1>10. ASSUME PrepareReplacement
       PROVE  RecordSound(record') /\ (Prepared => Prepared')
  <2>1. CASE record' = record
    BY <1>3, <2>1
  <2>2. CASE record' # record
    <3>1. NextOffer \in Offers \ {0}
      BY <1>10, NextOfferIsNew DEF PrepareReplacement, RenewalInvariant
    <3>2. PICK o \in Offers \ {0} : o = NextOffer
      BY <3>1
    <3>3. record' = [record EXCEPT !.status = "RETRYING", !.token = NULL, !.leased = FALSE,
                       !.active = o, !.replacement = 0, !.tries = 0]
      BY <1>1, <1>10, <2>2, <3>2 DEF PrepareReplacement, Released, Records
    <3>4. 0 \in 0 .. MaxTries + 1 /\ 0 \in Offers
      BY RenewalAssumption DEF Offers
    <3>. QED  BY <1>1, <3>3, <3>4 DEF RecordSound, Records, RecordStatuses, Schedulable, Prepared
  <2>. QED  BY <2>1, <2>2
<1>11. ASSUME record' = [record EXCEPT !.leased = FALSE]
       PROVE  RecordSound(record') /\ (Prepared => Prepared')
  BY <1>1, <1>11 DEF RecordSound, Records, Prepared
<1>. QED  BY <1>2, <1>3, <1>4, <1>5, <1>6, <1>7, <1>8, <1>9, <1>10, <1>11, RecordWriters

\* An offer that moves keeps its key.
LEMMA KeysOfMovedOffer ==
  ASSUME RenewalTypeOK, RenewalAssumption, offer' = offer \/ OfferMoves
  PROVE  /\ offer' \in [Offers -> OfferRecords]
         /\ \A o \in Offers : offer'[o].key = offer[o].key
         /\ 0 \in Offers
<1>1. offer \in [Offers -> OfferRecords] /\ 0 \in Offers
  BY RenewalAssumption DEF RenewalTypeOK, Offers
<1>2. CASE offer' = offer
  BY <1>1, <1>2
<1>3. CASE OfferMoves
  <2>1. PICK o \in Offers, r \in OfferRecords :
          r.key = offer[o].key /\ offer' = [offer EXCEPT ![o] = r]
    BY <1>3 DEF OfferMoves
  <2>. QED  BY <1>1, <2>1
<1>. QED  BY <1>2, <1>3

\* The first credential keeps its key, and the offers their type.
LEMMA OffersStaySound ==
  ASSUME RenewalInvariant, RenewalAssumption, RenewalNext
  PROVE  /\ offer' \in [Offers -> OfferRecords]
         /\ offer'[0].key = "INITIAL"
<1>1. /\ RenewalTypeOK /\ offer \in [Offers -> OfferRecords] /\ 0 \in Offers
      /\ offer[0].key = "INITIAL"
  BY RenewalAssumption DEF RenewalInvariant, RenewalTypeOK, Offers
<1>2. CASE offer' = offer \/ OfferMoves
  BY <1>1, <1>2, KeysOfMovedOffer
<1>3. ASSUME NEW o \in Offers \ {0}, NEW key \in OfferKeys,
             offer' = [offer EXCEPT ![o].key = key]
      PROVE  /\ offer' \in [Offers -> OfferRecords]
             /\ offer'[0].key = "INITIAL"
  <2>. DEFINE r == [offer[o] EXCEPT !.key = key]
  <2>1. r \in OfferRecords
    BY <1>1 DEF OfferRecords
  <2>2. offer' = [offer EXCEPT ![o] = r]
    BY <1>3
  <2>. HIDE DEF r
  <2>. QED  BY <1>1, <2>1, <2>2
<1>4. ASSUME NEW w \in Workers, Prepare(w)
      PROVE  \/ offer' = offer
             \/ \E o \in Offers \ {0}, key \in OfferKeys : offer' = [offer EXCEPT ![o].key = key]
  BY <1>4, PreparationNames DEF KeyOf, OfferKeys
<1>5. ASSUME PrepareReplacement
      PROVE  \/ offer' = offer
             \/ \E o \in Offers \ {0}, key \in OfferKeys : offer' = [offer EXCEPT ![o].key = key]
  <2>1. NextOffer \in Offers \ {0}
    BY <1>5, NextOfferIsNew DEF PrepareReplacement, RenewalInvariant
  <2>. QED  BY <1>5, <2>1 DEF PrepareReplacement, OfferKeys
<1>. QED  BY <1>1, <1>2, <1>3, <1>4, <1>5, OfferWriters

\* An administrator starts to replace an offer only if there is another one, and
\* nobody else takes it.
LEMMA ReplacementHasOffer ==
  ASSUME RenewalInvariant, RenewalAssumption, RenewalNext
  PROVE  /\ replacing' \in Offers \cup {NULL}
         /\ replacing' # NULL => Prepared' /\ Unused' # {}
<1>1. /\ RenewalTypeOK /\ replacing \in Offers \cup {NULL} /\ record.active \in Offers
      /\ Prepared => Prepared'
  BY RecordStaysSound DEF RenewalInvariant, RenewalTypeOK, Records
<1>2. \/ replacing' = replacing
      \/ StartReplacement
      \/ PrepareReplacement
  BY DEF RenewalNext, Claim, TakeRecord, RenewManually, WorkerStep, Check, Prepare, LoseLease,
     AskAgent, StoreOffer, LinkOffer, Reconcile, MailExpired, SendMail, RecordMail,
     FinishRenewal, AgentFails, MailFails, WorkerStops, EventStep, LogEvent, ApplyEvent,
     ReconcileEvent, RunRevocation, Accept, ExpireOffer, SkipElapsed, ObserveActivation,
     CompleteEnrolment, CancelEnrolment, RetryRenewal, SuspendOrReactivate, RevokeOld,
     YearPasses, ExpireLease, Overrun
<1>3. (\A o \in Offers : offer'[o].key = offer[o].key) /\ Unused # {} => Unused' # {}
  BY DEF Unused
<1>4. CASE StartReplacement
  <2>1. replacing' = record.active /\ Prepared /\ Unused # {}
    BY <1>4 DEF StartReplacement
  <2>. QED  BY <1>1, <1>3, <1>4, <2>1, AdministratorMovesOffer, KeysOfMovedOffer
<1>5. CASE PrepareReplacement
  BY <1>5 DEF PrepareReplacement
<1>6. CASE replacing' = replacing /\ replacing # NULL
  <2>1. Prepared /\ Unused # {}
    BY <1>6 DEF RenewalInvariant
  <2>2. CASE offer' = offer \/ OfferMoves
    BY <1>1, <1>3, <1>6, <2>1, <2>2, KeysOfMovedOffer
  <2>3. ASSUME NEW w \in Workers, Prepare(w)
        PROVE  \A o \in Offers : offer'[o].key = offer[o].key
    <3>1. CASE offer' = offer
      BY <3>1
    <3>2. CASE offer' # offer
      <4>1. PICK o \in Offers :
              offer' = [offer EXCEPT ![o].key = KeyOf(w)] /\ offer[o].key = KeyOf(w)
        BY <2>1, <2>3, <3>2, PreparationNames
      <4>2. offer \in [Offers -> OfferRecords] /\ offer[o] \in OfferRecords
        BY <1>1 DEF RenewalTypeOK
      <4>. QED  BY <4>1, <4>2 DEF OfferRecords
    <3>. QED  BY <3>1, <3>2
  <2>. QED  BY <1>1, <1>3, <1>5, <1>6, <2>1, <2>2, <2>3, OfferWriters
<1>. QED  BY <1>1, <1>2, <1>4, <1>5, <1>6

\* A worker's step leaves a record of its type.
LEMMA WorkersStayTyped ==
  ASSUME RenewalInvariant, RenewalAssumption, RenewalNext
  PROVE  worker' \in [Workers -> WorkerRecords]
<1>1. /\ worker \in [Workers -> WorkerRecords] /\ record.active \in Offers
      /\ Resting \in WorkerRecords /\ 0 \in Offers
  BY RenewalAssumption
  DEF RenewalInvariant, RenewalTypeOK, Records, Resting, WorkerRecords, Offers
<1>. DEFINE Stages == {"IDLE", "CHECKING", "PREPARING", "ASKING", "STORING", "LINKING",
                       "RECONCILING", "MAILING", "RECORDING", "FINISHING"}
<1>2. ASSUME NEW w \in Workers
      PROVE  /\ worker[w] \in WorkerRecords
             /\ \A phase \in Stages : [worker[w] EXCEPT !.phase = phase] \in WorkerRecords
             /\ \A phase \in Stages, o \in Offers :
                  [worker[w] EXCEPT !.phase = phase, !.offer = o] \in WorkerRecords
             /\ \A phase \in Stages, before \in BOOLEAN :
                  [worker[w] EXCEPT !.phase = phase, !.failedBefore = before] \in WorkerRecords
             /\ \A o \in Offers :
                  [Resting EXCEPT !.phase = "CHECKING", !.offer = o] \in WorkerRecords
             /\ [Resting EXCEPT !.phase = "PREPARING", !.manual = TRUE] \in WorkerRecords
  BY <1>1 DEF WorkerRecords
<1>3. ASSUME NEW w \in Workers, NEW rec \in WorkerRecords, Become(w, rec)
      PROVE  worker' \in [Workers -> WorkerRecords]
  BY <1>1, <1>3 DEF Become
<1>4. ASSUME NEW w \in Workers, NEW phase \in Stages, Proceed(w, phase)
      PROVE  worker' \in [Workers -> WorkerRecords]
  BY <1>2, <1>3, <1>4 DEF Proceed
<1>5. ASSUME NEW w \in Workers, NEW expired, Failed(w, expired)
      PROVE  worker' \in [Workers -> WorkerRecords]
  BY <1>1, <1>3, <1>5 DEF Failed
<1>6. ASSUME NEW w \in Workers, Check(w)
      PROVE  worker' \in [Workers -> WorkerRecords]
  <2>1. \/ Become(w, Resting)
        \/ Proceed(w, "PREPARING")
        \/ \E phase \in {"RECONCILING", "ASKING"} : Proceed(w, phase)
    BY <1>6 DEF Check
  <2>. QED  BY <1>1, <1>3, <1>4, <2>1
<1>7. ASSUME NEW w \in Workers, Prepare(w)
      PROVE  worker' \in [Workers -> WorkerRecords]
  <2>1. \/ Failed(w, FALSE) \/ Become(w, Resting)
        \/ \E o \in Offers, phase \in {"RECONCILING", "ASKING"} :
             Become(w, [worker[w] EXCEPT !.phase = phase, !.offer = o])
    BY <1>7, PreparationNames
  <2>2. ASSUME NEW o \in Offers, NEW phase \in {"RECONCILING", "ASKING"},
               Become(w, [worker[w] EXCEPT !.phase = phase, !.offer = o])
        PROVE  worker' \in [Workers -> WorkerRecords]
    BY <1>2, <1>3, <2>2
  <2>. QED  BY <1>1, <1>3, <1>5, <2>1, <2>2
<1>8. ASSUME NEW w \in Workers, SendMail(w) \/ RecordMail(w)
      PROVE  worker' \in [Workers -> WorkerRecords]
  <2>1. PICK phase \in {"RECORDING", "FINISHING"}, before \in BOOLEAN :
          Become(w, [worker[w] EXCEPT !.phase = phase, !.failedBefore = before])
    BY <1>8 DEF SendMail, RecordMail
  <2>. QED  BY <1>2, <1>3, <2>1
<1>9. ASSUME NEW w \in Workers, Claim(w) \/ RenewManually(w)
      PROVE  worker' \in [Workers -> WorkerRecords]
  <2>1. \/ Become(w, [Resting EXCEPT !.phase = "CHECKING", !.offer = record.active])
        \/ Become(w, [Resting EXCEPT !.phase = "PREPARING", !.manual = TRUE])
    BY <1>9 DEF Claim, TakeRecord, RenewManually
  <2>. QED  BY <1>1, <1>2, <1>3, <2>1
<1>10. ASSUME NEW w \in Workers, AskAgent(w) \/ StoreOffer(w) \/ LinkOffer(w) \/ Reconcile(w)
       PROVE  worker' \in [Workers -> WorkerRecords]
  BY <1>4, <1>10 DEF AskAgent, StoreOffer, LinkOffer, Reconcile
<1>11. ASSUME NEW w \in Workers,
              \/ LoseLease(w) \/ MailExpired(w) \/ FinishRenewal(w) \/ AgentFails(w)
              \/ MailFails(w) \/ WorkerStops(w)
       PROVE  worker' \in [Workers -> WorkerRecords]
  BY <1>1, <1>3, <1>5, <1>11 DEF LoseLease, MailExpired, FinishRenewal, AgentFails, MailFails,
     WorkerStops
<1>12. ASSUME \/ \E o \in Offers : EventStep(o) \/ RunRevocation(o) \/ Accept(o) \/ ExpireOffer(o)
              \/ SkipElapsed \/ ObserveActivation \/ CompleteEnrolment
              \/ CancelEnrolment \/ RetryRenewal \/ StartReplacement \/ PrepareReplacement
              \/ SuspendOrReactivate \/ RevokeOld \/ YearPasses \/ ExpireLease \/ Overrun
       PROVE  worker' = worker
  BY <1>12 DEF EventStep, LogEvent, ApplyEvent, ReconcileEvent, RunRevocation, Accept,
     ExpireOffer, SkipElapsed, ObserveActivation, CompleteEnrolment, CancelEnrolment,
     RetryRenewal, StartReplacement, PrepareReplacement, SuspendOrReactivate, RevokeOld,
     YearPasses, ExpireLease, Overrun
<1>. QED
  BY <1>1, <1>6, <1>7, <1>8, <1>9, <1>10, <1>11, <1>12 DEF RenewalNext, WorkerStep

\* Every table keeps its type.
LEMMA RenewalStaysTyped ==
  ASSUME RenewalInvariant, RenewalAssumption, RenewalNext
  PROVE  RenewalTypeOK'
<1>1. RenewalTypeOK
  BY DEF RenewalInvariant
<1>2. record' \in Records
  BY RecordStaysSound DEF RecordSound
<1>3. period' \in {"BEFORE", "DUE", "OVER"} /\ old' \in {"ACTIVE", "SUSPENDED"}
  <2>1. period' = period \/ period' \in {"DUE", "OVER"}
    BY DEF RenewalNext, Claim, TakeRecord, RenewManually, WorkerStep, Check, Prepare, LoseLease,
       AskAgent, StoreOffer, LinkOffer, Reconcile, MailExpired, SendMail, RecordMail,
       FinishRenewal, AgentFails, MailFails, WorkerStops, EventStep, LogEvent, ApplyEvent,
       ReconcileEvent, RunRevocation, Accept, ExpireOffer, SkipElapsed, ObserveActivation,
       CompleteEnrolment, CancelEnrolment, RetryRenewal, StartReplacement, PrepareReplacement,
       SuspendOrReactivate, RevokeOld, YearPasses, ExpireLease, Overrun
  <2>2. old' = old \/ old' \in {"ACTIVE", "SUSPENDED"}
    BY DEF RenewalNext, Claim, TakeRecord, RenewManually, WorkerStep, Check, Prepare, LoseLease,
       AskAgent, StoreOffer, LinkOffer, Reconcile, MailExpired, SendMail, RecordMail,
       FinishRenewal, AgentFails, MailFails, WorkerStops, EventStep, LogEvent, ApplyEvent,
       ReconcileEvent, RunRevocation, Accept, ExpireOffer, SkipElapsed, ObserveActivation,
       CompleteEnrolment, CancelEnrolment, RetryRenewal, StartReplacement, PrepareReplacement,
       SuspendOrReactivate, RevokeOld, YearPasses, ExpireLease, Overrun
  <2>. QED  BY <1>1, <2>1, <2>2 DEF RenewalTypeOK
<1>4. enrolment' \in {"ACTIVE", "CANCELLED", "COMPLETED"}
  <2>1. enrolment' = enrolment \/ enrolment' \in {"CANCELLED", "COMPLETED"}
    BY DEF RenewalNext, Claim, TakeRecord, RenewManually, WorkerStep, Check, Prepare, LoseLease,
       AskAgent, StoreOffer, LinkOffer, Reconcile, MailExpired, SendMail, RecordMail,
       FinishRenewal, AgentFails, MailFails, WorkerStops, EventStep, LogEvent, ApplyEvent,
       ReconcileEvent, RunRevocation, Accept, ExpireOffer, SkipElapsed, ObserveActivation,
       CompleteEnrolment, CancelEnrolment, RetryRenewal, StartReplacement, PrepareReplacement,
       SuspendOrReactivate, RevokeOld, YearPasses, ExpireLease, Overrun
  <2>. QED  BY <1>1, <2>1 DEF RenewalTypeOK
<1>5. revocations' \in SUBSET Offers
  <2>1. /\ revocations \in SUBSET Offers /\ 0 \in Offers
        /\ \A w \in Workers : worker[w].offer \in Offers
    BY <1>1, RenewalAssumption DEF RenewalTypeOK, WorkerRecords, Offers
  <2>2. ASSUME NEW o, NEW offers, ReconcileActivation(o, offers)
        PROVE  revocations' \in SUBSET Offers
    BY <2>1, <2>2 DEF ReconcileActivation
  <2>3. \/ revocations' = revocations
        \/ \E w \in Workers : Reconcile(w)
        \/ \E o \in Offers : RunRevocation(o) \/ ApplyEvent(o) \/ ReconcileEvent(o)
    BY DEF RenewalNext, Claim, TakeRecord, RenewManually, WorkerStep, Check, Prepare, LoseLease,
       AskAgent, StoreOffer, LinkOffer, MailExpired, SendMail, RecordMail,
       FinishRenewal, AgentFails, MailFails, WorkerStops, EventStep, LogEvent,
       Accept, ExpireOffer, SkipElapsed, ObserveActivation,
       CompleteEnrolment, CancelEnrolment, RetryRenewal, StartReplacement, PrepareReplacement,
       SuspendOrReactivate, RevokeOld, YearPasses, ExpireLease, Overrun
  <2>. QED
    BY <2>1, <2>2, <2>3 DEF Reconcile, RunRevocation, ApplyEvent, ReconcileEvent
<1>6. troubles' \in 0 .. MaxTroubles
  <2>1. \/ troubles' = troubles
        \/ \E w \in Workers : AgentFails(w) \/ MailFails(w) \/ WorkerStops(w)
        \/ StartReplacement \/ Overrun
    BY DEF RenewalNext, Claim, TakeRecord, RenewManually, WorkerStep, Check, Prepare, LoseLease,
       AskAgent, StoreOffer, LinkOffer, Reconcile, MailExpired, SendMail, RecordMail,
       FinishRenewal, EventStep, LogEvent, ApplyEvent,
       ReconcileEvent, RunRevocation, Accept, ExpireOffer, SkipElapsed, ObserveActivation,
       CompleteEnrolment, CancelEnrolment, RetryRenewal, PrepareReplacement,
       SuspendOrReactivate, RevokeOld, YearPasses, ExpireLease
  <2>2. troubles \in 0 .. MaxTroubles
    BY <1>1 DEF RenewalTypeOK
  <2>3. troubles' = troubles \/ (troubles < MaxTroubles /\ troubles' = troubles + 1)
    BY <2>1 DEF AgentFails, MailFails, WorkerStops, StartReplacement, Overrun
  <2>. QED  BY <2>2, <2>3, RenewalAssumption
<1>. QED
  BY <1>2, <1>3, <1>4, <1>5, <1>6, WorkersStayTyped, OffersStaySound, ReplacementHasOffer
  DEF RenewalTypeOK

\* As long as no offer is prepared, only these steps are taken.
LEMMA UnpreparedSteps ==
  ASSUME RenewalInvariant, RenewalAssumption, RenewalNext, ~ Prepared
  PROVE  \/ \E w \in Workers :
              Claim(w) \/ RenewManually(w) \/ Check(w) \/ Prepare(w) \/ WorkerStops(w)
         \/ SkipElapsed \/ CompleteEnrolment \/ CancelEnrolment \/ SuspendOrReactivate
         \/ RevokeOld \/ YearPasses \/ ExpireLease \/ Overrun
<1>1. /\ NothingUnderWay /\ RenewalTypeOK
      /\ \A w \in Workers : worker[w].phase \in {"IDLE", "CHECKING", "PREPARING"}
  BY DEF RenewalInvariant, NothingUnderWay
<1>2. ASSUME NEW w \in Workers
      PROVE  /\ ~ LoseLease(w) /\ ~ AskAgent(w) /\ ~ StoreOffer(w) /\ ~ LinkOffer(w)
             /\ ~ Reconcile(w) /\ ~ MailExpired(w) /\ ~ SendMail(w) /\ ~ RecordMail(w)
             /\ ~ FinishRenewal(w) /\ ~ AgentFails(w) /\ ~ MailFails(w)
  BY <1>1 DEF LoseLease, AskAgent, StoreOffer, LinkOffer, Reconcile, MailExpired, SendMail,
     MustMail, RecordMail, FinishRenewal, AgentFails, MailFails
<1>3. ASSUME NEW o \in Offers
      PROVE  /\ ~ EventStep(o) /\ ~ RunRevocation(o) /\ ~ Accept(o) /\ ~ ExpireOffer(o)
  <2>1. /\ offer[o].event \in {"NONE", "DONE"} /\ offer[o].agent \in {"NONE", "ACCEPTED"}
        /\ offer[o].status \in {"NONE", "ISSUED", "REVOKED"} /\ revocations = {}
    BY <1>1 DEF NothingUnderWay, NoOffer
  <2>. QED
    BY <2>1 DEF EventStep, LogEvent, ApplyEvent, ReconcileEvent, RunRevocation, Accept, ExpireOffer
<1>4. ~ ObserveActivation /\ ~ RetryRenewal /\ ~ StartReplacement /\ ~ PrepareReplacement
  BY <1>1 DEF NothingUnderWay, ObserveActivation, RetryRenewal, StartReplacement,
     PrepareReplacement
<1>. QED  BY <1>2, <1>3, <1>4 DEF RenewalNext, WorkerStep

\* A step that prepares nothing leaves nothing under way.
LEMMA StaysUnprepared ==
  ASSUME RenewalInvariant, RenewalAssumption, RenewalNext, ~ Prepared'
  PROVE  NothingUnderWay'
<1>1. /\ ~ Prepared /\ NothingUnderWay /\ RenewalTypeOK /\ record \in Records
      /\ worker \in [Workers -> WorkerRecords] /\ record.active = 0
      /\ offer \in [Offers -> OfferRecords] /\ 0 \in Offers
  BY RecordStaysSound, RenewalAssumption
  DEF RenewalInvariant, RenewalTypeOK, Prepared, Offers
<1>. DEFINE Calm(rec) == rec.phase \in {"IDLE", "CHECKING", "PREPARING"} /\ rec.offer = 0
<1>2. /\ Calm(Resting)
      /\ Calm([Resting EXCEPT !.phase = "CHECKING", !.offer = record.active])
      /\ Calm([Resting EXCEPT !.phase = "PREPARING", !.manual = TRUE])
      /\ \A w \in Workers : Calm(worker[w])
      /\ \A w \in Workers : Calm([worker[w] EXCEPT !.phase = "PREPARING"])
  BY <1>1 DEF Resting, NothingUnderWay, WorkerRecords
<1>3. ASSUME NEW w \in Workers, NEW rec, Calm(rec), Become(w, rec)
      PROVE  \A v \in Workers : Calm(worker'[v])
  BY <1>1, <1>2, <1>3 DEF Become
<1>4. ASSUME offer' = offer, revocations' = revocations, replacing' = replacing,
             \A v \in Workers : Calm(worker'[v]),
             record'.replacement = record.replacement,
             enrolment' = "CANCELLED" => record'.status = "CANCELLED"
      PROVE  NothingUnderWay'
  BY <1>1, <1>4 DEF NothingUnderWay
<1>. HIDE DEF Calm
<1>5. \A status : Released(record, status).replacement = record.replacement
                  /\ Released(record, status).status = status
  BY <1>1 DEF Released, Records
<1>6. ASSUME NEW w \in Workers, Claim(w)
      PROVE  NothingUnderWay'
  <2>1. /\ enrolment = "ACTIVE" /\ UNCHANGED <<enrolment, offer, revocations, replacing>>
        /\ Become(w, [Resting EXCEPT !.phase = "CHECKING", !.offer = record.active])
        /\ record'.replacement = record.replacement
    BY <1>1, <1>6 DEF Claim, Claimable, TakeRecord, Records
  <2>. QED  BY <1>2, <1>3, <1>4, <2>1
<1>7. ASSUME NEW w \in Workers, RenewManually(w) \/ WorkerStops(w)
      PROVE  NothingUnderWay'
  <2>1. /\ UNCHANGED <<enrolment, record, offer, revocations, replacing>>
        /\ \/ Become(w, Resting)
           \/ Become(w, [Resting EXCEPT !.phase = "PREPARING", !.manual = TRUE])
    BY <1>7 DEF RenewManually, WorkerStops
  <2>. QED  BY <1>1, <1>2, <1>3, <1>4, <2>1 DEF NothingUnderWay
<1>8. ASSUME NEW w \in Workers, Check(w)
      PROVE  NothingUnderWay'
  <2>1. /\ worker[w].offer = 0
        /\ enrolment = "CANCELLED" => record.status = "CANCELLED"
    BY <1>1 DEF NothingUnderWay
  <2>2. /\ UNCHANGED <<offer, revocations, replacing>>
        /\ Become(w, Resting) \/ Proceed(w, "PREPARING")
    BY <1>8, <2>1 DEF Check
  <2>3. /\ record'.replacement = record.replacement
        /\ enrolment' = "CANCELLED" => record'.status = "CANCELLED"
    <3>1. CASE record' = record /\ enrolment' = enrolment
      BY <2>1, <3>1
    <3>2. CASE record.status # "CANCELLED" /\ enrolment' = enrolment /\ Finish(w, "FAILED")
      BY <1>5, <2>1, <3>2 DEF Finish
    <3>3. CASE /\ record.status # "CANCELLED" /\ enrolment' = enrolment
               /\ record' = [Released(record, "DEFERRED") EXCEPT !.tries = @ - 1]
      <4>1. record'.replacement = record.replacement
        BY <1>1, <3>3 DEF Released, Records
      <4>. QED  BY <2>1, <3>3, <4>1
    <3>4. CASE enrolment = "ACTIVE" /\ record' = Cancelled(record)
      BY <1>1, <1>5, <3>4 DEF Cancelled
    <3>. QED  BY <1>8, <2>1, <3>1, <3>2, <3>3, <3>4 DEF Check
  <2>. QED  BY <1>2, <1>3, <1>4, <2>2, <2>3 DEF Proceed
<1>9. ASSUME NEW w \in Workers, Prepare(w)
      PROVE  NothingUnderWay'
  <2>1. ASSUME NEW o \in Offers \ {0}, offer' = [offer EXCEPT ![o].key = KeyOf(w)]
        PROVE  offer[o].key # KeyOf(w)
    BY <1>1, RenewalAssumption DEF NothingUnderWay, NoOffer, KeyOf, OfferKeys
  <2>2. ASSUME NEW o \in Offers \ {0},
               \/ record' = [record EXCEPT !.active = o]
               \/ record' = [record EXCEPT !.active = o, !.status = "PROCESSING",
                                           !.leased = TRUE]
        PROVE  Prepared'
    BY <1>1, <2>2 DEF Records, Prepared
  <2>3. /\ offer' = offer
        /\ \/ enrolment = "ACTIVE" /\ Failed(w, FALSE)
           \/ record' = record /\ Become(w, Resting)
    BY <1>9, <2>1, <2>2, PreparationNames
  <2>4. UNCHANGED <<enrolment, revocations, replacing>>
    BY <1>9 DEF Prepare
  <2>5. Become(w, Resting)
    BY <2>3 DEF Failed
  <2>6. /\ record'.replacement = record.replacement
        /\ enrolment' = "CANCELLED" => record'.status = "CANCELLED"
    BY <1>1, <1>5, <2>3, <2>4, FailedReleases DEF NothingUnderWay
  <2>. QED  BY <1>2, <1>3, <1>4, <2>3, <2>4, <2>5, <2>6
<1>10. CASE SkipElapsed \/ CompleteEnrolment \/ CancelEnrolment
  <2>1. /\ UNCHANGED <<offer, revocations, replacing, worker>>
        /\ record'.replacement = record.replacement
        /\ enrolment' = "CANCELLED" => record'.status = "CANCELLED"
    BY <1>1, <1>5, <1>10
    DEF SkipElapsed, CompleteEnrolment, CancelEnrolment, Cancelled, NothingUnderWay, Schedulable
  <2>. QED  BY <1>2, <1>4, <2>1
<1>11. CASE SuspendOrReactivate \/ YearPasses \/ ExpireLease \/ Overrun
  <2>1. /\ UNCHANGED <<enrolment, offer, revocations, replacing, worker>>
        /\ record' = record \/ record' = [record EXCEPT !.leased = FALSE]
    BY <1>11 DEF SuspendOrReactivate, YearPasses, ExpireLease, Overrun
  <2>2. record'.replacement = record.replacement /\ record'.status = record.status
    BY <1>1, <2>1 DEF Records
  <2>. QED  BY <1>1, <1>2, <1>4, <2>1, <2>2 DEF NothingUnderWay
<1>12. CASE RevokeOld
  <2>1. /\ UNCHANGED <<enrolment, record, revocations, replacing, worker>>
        /\ offer' = [offer EXCEPT ![0].revoked = TRUE, ![0].status = "REVOKED"]
    BY <1>12 DEF RevokeOld
  <2>2. /\ \A o \in Offers \ {0} : offer'[o] = offer[o]
        /\ offer'[0].agent = offer[0].agent /\ offer'[0].event = offer[0].event
        /\ offer'[0].status = "REVOKED"
    BY <1>1, <2>1 DEF OfferRecords
  <2>. QED  BY <1>1, <2>1, <2>2 DEF NothingUnderWay
<1>. QED
  BY <1>1, <1>6, <1>7, <1>8, <1>9, <1>10, <1>11, <1>12, UnpreparedSteps

\* A cancellation is final, and stops a worker that was about to prepare.
LEMMA CancelledPreparesNothing ==
  ASSUME RenewalInvariant, RenewalAssumption, RenewalNext, ~ Prepared, enrolment = "CANCELLED"
  PROVE  ~ Prepared' /\ enrolment' = "CANCELLED"
<1>1. /\ NothingUnderWay /\ record \in Records /\ record.active = 0
      /\ record.status = "CANCELLED"
  BY DEF RenewalInvariant, RenewalTypeOK, NothingUnderWay, Prepared
<1>2. ASSUME NEW w \in Workers, Prepare(w)
      PROVE  record' = record /\ enrolment' = enrolment
  <2>1. ASSUME NEW o \in Offers \ {0}, offer[o].key = KeyOf(w)
        PROVE  FALSE
    BY <1>1, <2>1, RenewalAssumption DEF NothingUnderWay, NoOffer, KeyOf, OfferKeys
  <2>2. record' = record
    BY <1>2, <2>1, PreparationNames
  <2>. QED  BY <1>2, <2>2 DEF Prepare
<1>3. ASSUME NEW w \in Workers,
             Claim(w) \/ RenewManually(w) \/ Check(w) \/ WorkerStops(w)
      PROVE  record' = record /\ enrolment' = enrolment
  BY <1>1, <1>3 DEF Claim, Claimable, RenewManually, Check, WorkerStops
<1>4. CASE \/ SkipElapsed \/ CompleteEnrolment \/ CancelEnrolment \/ SuspendOrReactivate
           \/ RevokeOld \/ YearPasses
  BY <1>1, <1>4 DEF SkipElapsed, CompleteEnrolment, CancelEnrolment, SuspendOrReactivate,
     RevokeOld, YearPasses, Schedulable, Prepared
<1>5. CASE ExpireLease \/ Overrun
  <2>1. record' = [record EXCEPT !.leased = FALSE] /\ enrolment' = enrolment
    BY <1>5 DEF ExpireLease, Overrun
  <2>. QED  BY <1>1, <2>1 DEF Records, Prepared
<1>. QED  BY <1>2, <1>3, <1>4, <1>5, UnpreparedSteps DEF Prepared

\* The renewal's tables keep their form, and as long as no offer is prepared
\* nothing is under way for it: whatever the job, the administrators and the
\* events of the agent do, and in whatever order.
THEOREM RenewalInvariantHolds == RenewalSpec => []RenewalInvariant
<1>1. RenewalInit => RenewalInvariant
  <2>. SUFFICES ASSUME RenewalInit  PROVE RenewalInvariant
    OBVIOUS
  <2>1. 0 \in Offers /\ 0 \in 0 .. MaxTries + 1 /\ 0 \in 0 .. MaxTroubles
    BY RenewalAssumption DEF Offers
  <2>2. record \in Records /\ LeaseIsCounted /\ ~ Prepared
    BY <2>1 DEF RenewalInit, Records, RecordStatuses, Schedulable, LeaseIsCounted, Prepared
  <2>3. \A o \in Offers : offer[o] \in OfferRecords
    BY <2>1 DEF RenewalInit, NoOffer, OfferRecords, OfferKeys
  <2>4. /\ offer[0].key = "INITIAL" /\ offer[0].agent = "ACCEPTED" /\ offer[0].event = "DONE"
        /\ offer[0].status = "ISSUED" /\ \A o \in Offers \ {0} : offer[o] = NoOffer
    BY <2>1 DEF RenewalInit, NoOffer
  <2>5. worker \in [Workers -> WorkerRecords]
    BY <2>1 DEF RenewalInit, Resting, WorkerRecords
  <2>6. RenewalTypeOK
    BY <2>1, <2>2, <2>3, <2>5 DEF RenewalInit, RenewalTypeOK
  <2>7. NothingUnderWay
    BY <2>4 DEF RenewalInit, NothingUnderWay, Resting
  <2>. QED  BY <2>2, <2>4, <2>6, <2>7 DEF RenewalInit, RenewalInvariant
<1>2. RenewalInvariant /\ [RenewalNext]_renewalVars => RenewalInvariant'
  <2>. SUFFICES ASSUME RenewalInvariant, [RenewalNext]_renewalVars
                PROVE  RenewalInvariant'
    OBVIOUS
  <2>1. CASE RenewalNext
    <3>1. LeaseIsCounted'
      BY <2>1, RecordStaysSound, RenewalAssumption DEF RecordSound, LeaseIsCounted
    <3>. QED
      BY <2>1, <3>1, RenewalStaysTyped, OffersStaySound, ReplacementHasOffer, StaysUnprepared,
         RenewalAssumption
      DEF RenewalInvariant
  <2>2. CASE UNCHANGED renewalVars
    BY <2>2 DEF renewalVars, RenewalInvariant, RenewalTypeOK, LeaseIsCounted, NothingUnderWay,
       Prepared, Unused
  <2>. QED  BY <2>1, <2>2
<1>. QED  BY <1>1, <1>2, PTL DEF RenewalSpec

\* Once the enrolment is cancelled with no offer prepared, no step prepares one or
\* schedules the renewal again, also not that of a worker that had claimed it or
\* had been let through to its preparation.
THEOREM CancellationIsFinal == RenewalSpec => CancelledStaysUnprepared
<1>. DEFINE Stays == enrolment = "CANCELLED" /\ ~ Prepared =>
                       record'.active = 0 /\ record'.status \notin Schedulable
<1>1. RenewalInvariant /\ [RenewalNext]_renewalVars => [Stays]_renewalVars
  <2>. SUFFICES ASSUME RenewalInvariant, RenewalNext, enrolment = "CANCELLED", ~ Prepared
                PROVE  record'.active = 0 /\ record'.status \notin Schedulable
    OBVIOUS
  <2>1. ~ Prepared' /\ enrolment' = "CANCELLED"
    BY CancelledPreparesNothing, RenewalAssumption
  <2>2. NothingUnderWay'
    BY <2>1, StaysUnprepared, RenewalAssumption
  <2>. QED  BY <2>1, <2>2 DEF NothingUnderWay, Prepared, Schedulable
<1>. QED
  BY <1>1, RenewalInvariantHolds, PTL DEF RenewalSpec, CancelledStaysUnprepared

=============================================================================
