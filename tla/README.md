# TLA+ verification of the Unify admin portal

Unify is the back office of a university's digital student card: administrators import
students, issue and renew credentials through an external agent, onboard vendors, bill them for
verifications, and run a campus wallet that students pay with. This directory models the parts of
`src/src/lib` in which several actors change shared state, model-checks them with TLC, and proves
theorems about them with TLAPS.

Contents:

1. [The system and its parts](#1-the-system-and-its-parts)
2. [Modules, and how they correspond to the code](#2-modules-and-how-they-correspond-to-the-code)
3. [What is checked: runs, bounds, fairness](#3-what-is-checked-runs-bounds-fairness)
4. [What is proved](#4-what-is-proved)
5. [Where the code and its documents disagree](#5-where-the-code-and-its-documents-disagree)
6. [What is not modelled, and why](#6-what-is-not-modelled-and-why)
7. [Plan](#7-plan)

Run a model with `tlc -workers 2 -config MCPaymentRequests.cfg MCPaymentRequests`, check the
proofs with `tlapm WalletLedgerProofs.tla`. `PROJECT.json` is the index: components, runs, the
source lines behind every definition, a faulty variant for every property, hazards, theorems.

## 1. The system and its parts

A Next.js application on PostgreSQL (Prisma). There is no message broker: concurrency comes from
HTTP handlers, server actions, background tasks, scheduled jobs and provider webhooks that run at
once against one database, and from the external services (Paystack, the credential agent,
vendors' own servers, mail) that answer late, twice, or never. Money moves in SERIALIZABLE
transactions with retries; most other code uses single conditional updates, leases, unique
constraints and triggers, or plain reads and writes.

| Part | State it keeps | Operations | Talks to | What is hard | What makes it correct |
|---|---|---|---|---|---|
| Wallet ledger (`payments/posting.ts`, triggers) | transactions, entries, balances | post spend, refund, payout; reserve, complete, fail a top-up | called by all wallet parts | duplicate and concurrent instructions, partial refunds, the overdraft clock | balances equal the entries; refunds within the spend; one execution per key; settled rows immutable |
| POS payment requests (`payments/paymentRequests.ts`) | `payment_request` | create, pay, cancel, expire, read | ledger | check-then-insert creation, payment against cancel and expiry | charged exactly when PAID, once, on its terms, in time |
| Static-QR payments (`payments/walletMobile.ts`) | none of its own | submit | ledger | a retry after the vendor closed | as the ledger |
| Refund operations (`vendors/refundOperations.ts`, `refunds.ts`) | `refund_operation` | register, execute, reject, cancel, recover, adopt | ledger | lost answers, duplicates, cancel against execute, mixed releases | an instruction's outcome is final and agrees with the ledger |
| Refunds in the browser (`payments/refundRecoveryClient.ts`, `useRefundRecovery.tsx`) | the stored draft, what a tab shows | submit, retry, cancel, hydrate, reload | refund operations | lost and late answers, several tabs of one storage, several browsers | an unresolved instruction stays stored where it was drawn |
| Overdraft monitor (`vendors/overdraft.ts`) | profile status and suspension code | list, suspend, reinstate | reads balances | stale candidate lists, overlapping or aborted runs | suspension and reinstatement justified when they happen, and happening in the end |
| Vendor payouts (`vendors/payouts.ts`) | `payout_batch` | reserve, request, complete, reconcile, fail | ledger, Paystack | unknown outcomes, events overtaking answers, crashes | no double payout, no early release, paid transfers debited |
| Paystack webhook, gateway events (`api/webhooks/paystack`, `billing/gatewayEvents.ts`) | recorded events | record, dispatch, mark | payouts, top-ups, invoices | duplicates, a handler that fails after recording | every recorded event takes effect |
| Student and vendor top-ups (`payments/topups.ts`, `vendors/walletTopups.ts`) | top-up attempts | start, resume, confirm, fail, reconcile, repair | ledger, Paystack, monitor | concurrent reconcilers, stale answers, crash between the writes | one credit per payment, only if paid; settled attempts are repaired |
| Payment webhook outbox (`vendors/paymentWebhooks.ts`) | deliveries with leases, attempts | enqueue, claim, deliver, retry, replay | vendors' servers | lease expiry, manual retry or reconfiguration during a delivery | a delivery marked delivered was accepted; every claimed delivery ends |
| Wallet sessions (`payments/walletSession.ts`) | codes, sessions, token families | request a code, exchange, refresh, revoke | mail | token reuse races, a code replaced while its e-mail is sent | only the newest code opens a session; reuse ends it |
| Verifications and charges (`vendors/verifications.ts`, `billing/charges.ts`) | requests, charges, exceptions | create, poll, webhook, reconcile, backfill | agent, billing | duplicate and reordered results, separate statements | an approved proof is charged once, in its month |
| Invoices (`billing/invoices.ts`, `paymentAttempts.ts`, `paymentConfirmation.ts`) | invoices, attempts, payments, allocations, exceptions | generate, open a checkout, confirm, sweep | Paystack, charges | two generations at once; confirmations that interleave; two payments | issued invoices do not change, every charge is invoiced; an invoice is settled once |
| Billing job lease, verification suspension (`billing/jobLease.ts`, `verificationSuspension.ts`, `overdue.ts`) | job runs, suspension flag, sync flag | claim, recompute, push, end | invoices, agent | a stalled worker that resumes, overlapping pushes, payments in between | decisions rest on the debt when they are made; both sides converge |
| Batch issuance (`issuance/batchRuns.ts`) | runs, items | create, process, retry | agent, mail | crashes and lost answers around each step, a retry while old workers go on | the batch says what became of its offers, and ends |
| Annual renewals (`credentials/annualRenewals.ts`, `preparedOffer.ts`, `renewalActivation.ts`, `status.ts`) | renewals with leases, offers, issuances | schedule, claim, prepare, deliver, activate, replace, revoke | agent, mail | a lease lost while the agent is called, events early or late | a due renewal ends, what is accepted is activated, what it replaces is revoked |
| Lifecycle actions and jobs (`credentials/lifecycleActions.ts`, `automation.ts`, `status.ts`) | issuance status, jobs | suspend, reactivate, revoke, schedule, execute | agent | agent done, database not; late events | the portal follows the agent's revisions |
| Vendor and payment onboarding (`vendors/applications.ts`, `payments/branchOnboarding.ts`, `vendors/payouts.ts`) | applications, payout account, requests, profile, branches | draft, submit, review, confirm, approve, revoke | ledger settings | decisions on pages loaded earlier | approved for the account everyone saw |
| Invitations (`vendors/staff.ts`, `auth/invites.ts`) | invites, users, memberships | invite, accept, withdraw | mail, the authentication library | separate statements, two acceptances | an invitation admits one member or none |
| Integrations, imports, schemas, branches at the agent, sign-in, agent client, pages | see `PROJECT.json` and section 6 | | | | |

The hazards (what can go wrong that a test would hardly reach) are listed, each at its line, in
`PROJECT.json`; every property below is aimed at some of them.

## 2. Modules, and how they correspond to the code

```
WalletLedger ---+-- PaymentRequests ---- PaymentRequestsProofs
  |             +-- RefundOperations --- RefundOperationsProofs
  Proofs        +-- VendorOverdraft ---- RefundOperationsProofs
                +-- VendorPayouts ------ VendorPayoutsProofs
                +-- WalletTopups ------- WalletTopupsProofs

InvoiceLifecycle  <== implemented by ==  InvoicePayments ------ InvoicePaymentsProofs
  |
  +-- extended by ---------------------- VerificationSuspension

CredentialMirror  <== implemented by ==  CredentialLifecycle -- CredentialLifecycleProofs

InvoiceGeneration ---- InvoicePaymentsProofs -----+
BatchIssuance -------- CredentialLifecycleProofs -+------------ MCBackgroundWork
VendorVerifications, WalletSessions, VendorOnboarding,
  Invitations, RefundRecovery -- PortalRequestsProofs --------- MCPortalRequests
VerificationSuspension -------- PortalRequestsProofs
PaymentWebhooks --------------- PaymentRequestsProofs
CredentialRenewals ------------ InvoicePaymentsProofs           MC<Module>: the instance for TLC
```

`SqlNull` declares the one constant they share, `NULL`. Several proof modules hold the theorems of
a second component or a third, which shares nothing with the first but, in the wallet, the ledger: they
EXTEND all of them, so names are distinct across the modules.

The wallet modules EXTEND `WalletLedger`, add the state of one component, and use the ledger's
operators in their own actions, as the code calls `postWalletTransaction` inside its own
transaction. Three modules are abstract specifications: `LedgerSpec` of money movement,
`InvoiceLifecycle` of the payment of invoices, and `CredentialMirror` of what the portal shows of
a credential. The detailed modules are shown to implement them, and `VerificationSuspension` uses
`InvoiceLifecycle` in place of `InvoicePayments`: what it relies on is what `InvoicePayments` is
checked to promise.

**Atomicity.** A SERIALIZABLE transaction, or one under a lock that all its competitors take, is
one step; a transaction that fails or rolls back changes nothing and is a stuttering step (or,
where a lock is held across steps, an explicit rollback). Where the code uses two transactions, or
separate statements, or a statement and a remote call, the model has two steps and everything
else may happen between them. A conditional update, an upsert and an insert under a unique
constraint are one step each. Triggers and constraints of the migrations are guards of the writes
they refuse, and a refused write is an error of the handler.

### WalletLedger (`payments/posting.ts` and the balance triggers)

State: `wtx` is `wallet_transaction` with its two ledger entries folded in (`debit`, `credit`);
`balance` and `negativeSince` are the projection the trigger `apply_ledger_entry_to_balance`
keeps; `profile`, `branchOpen`, `walletEnabled` are the settings a posting reads; `now` the
database clock. `PostingResult` is the decision order of `postWalletTransaction`: replay or
conflict first, then the wallet switch, eligibility, funds. `Post`, `PostOnce` are the write.
`StartTopup`, `CompleteTopup`, `FailTopup` are the skeleton row, `completePendingCredit` and its
failure counterpart; `SubmitWalletPayment` is the static-QR call. Rows are numbered in creation
order: identifiers carry no meaning, so this renames rows and loses no behaviour.

Left out: currencies (one per university), the unused direct `TOPUP` posting, account statuses
SUSPENDED and CLOSED and profile status CLOSED (nothing in the source sets them). `PENDING` stands
for every profile that is neither approved nor suspended.

### PaymentRequests (`payments/paymentRequests.ts`)

`sale` is `payment_request`; `creating` a till between the reads of `createPaymentRequest` and its
insert; `paying` an open payment transaction, which holds the row lock of its sale. `BeginPay` is
the locked read, `FinishPay` the commit of spend and PAID together, `RollbackPay` everything that
undoes it. `completedAt` is any clock value between the start and the commit of the transaction, as
the code reads the clock in between. `CancelSale` and `ExpireSale` wait for the lock and reread.
API-key and branch authorization happen before the handlers and are left out.

### RefundOperations (`vendors/refundOperations.ts`, `vendors/refunds.ts`)

`op` is `refund_operation`. `RegisterRefund` includes the adoption of a refund the previous release
posted; `ExecuteRefund` posts (or finds) the refund and completes the instruction in one
transaction; `RejectRefund` records one of the expected refusals, any other error is a rollback;
`CancelRefund` reconciles first. `LegacyRefund` and `oldRelease` are the instances of the previous
release that run during a deployment; they are the reason the code looks for refunds under an
instruction's key, and are external to the source. The overdraft e-mail is left out.

### RefundRecovery (`payments/refundRecoveryClient.ts`, `useRefundRecovery.tsx`)

The other end of `RefundOperations`: `tab` is the state machine of each open page of one operator,
`home` its browser, `storage` the draft in each browser's localStorage, `instruction` the status of
the instructions at the server, `drawn` the browser in which each was drawn. `SubmitRefund` freezes
and stores an instruction before it is sent; `FinishRegistration`, `FinishCheck` and
`FinishLoading` are the continuations after the answer of a request, and between two requests a
page runs without interruption. `FailRequest` is every error and lost answer. A request whose page
has given up, or was reloaded, may still be served at any later time (`ServeLate`): `sent` keeps
those that could still change the server, the others would do nothing. `ServeRequest` is
`RefundOperations` for one operator: one pending instruction, final outcomes; why an execution is
completed or rejected does not matter here. The terms of an instruction are frozen with its key and
are not told apart; access to the storage is taken to be atomic; drafts of an older page
(`legacyDraft`), which no page passes any more, are left out.

### VendorOverdraft (`vendors/overdraft.ts`)

A run of the monitor (`job`) lists candidates in one query and treats each in its own transaction
with a recheck (`ReinstateCandidate`, `SuspendCandidate`); the cutoff is the start of the run. Runs
overlap, wallets move in between, and `AbortMonitor` cuts a run short. `followUp` is the
reinstatement that a vendor's top-up asks for after its own commit, which can be lost
(`LoseFollowUp`). The specification is `MonitorSpec`. A suspension for another reason (`SuspendManually`, code NULL) has no writer in
the source, but the code distinguishes it, so it is an external action.

### VendorPayouts (`vendors/payouts.ts`, the transfer branch of the Paystack webhook)

`payout` is `payout_batch`; `runner` and `answer` the run that waits for the provider; `transfer`
the provider's own state (external); `notices` the events it will deliver, `failed` the recorded
events whose handler failed. `ReservePayout` is the transaction that takes the whole available
balance (as far as it is one of the `Amounts` of the instance); `MarkProcessing` precedes the request; `HandlePaid`, `HandleMispaid`, `HandleUnpaid`,
`HandleRefusal`, `HandleUnknown` are the branches on the answer; `ApplySuccess`, `ApplyMismatch`,
`ApplyVerifiedReversal`, `ApplyFailure`, `FailSuccess` those of the webhook; `StopRun` and
`StopHandler` crashes. Every recorded event is handled at most once, because a redelivery is
answered as a duplicate. The payout destination is assumed saved (`VendorOnboarding` has its
changes); a demo payout completes without the provider.

### WalletTopups (`payments/topups.ts`, `vendors/walletTopups.ts`)

`attempt` is `wallet_topup_attempt` and `vendor_wallet_topup_attempt`; `opening` the handler between
the two phases of a start; `checkout` Paystack's view of the attempt (external); `worker` the
reconcilers, which the payer's return, the webhook and the sweep start alike; `notified` the
e-mails about funders' payments. Nothing spans the statements: each write of a reconciliation
is a step, reconcilers of one attempt interleave, and three things keep them apart: `Allowed` (the
CHECK and the partial unique index of the attempt tables refuse a write), the trigger that refuses
any update of a settled transaction, and the reread of `completePendingCredit` (`Credit`). Students
and vendors differ in the order of the two writes of a refusal, in the repair of an attempt whose
transaction is settled (vendors only), and in what an opened checkout does to the status. Paystack
reports a checkout nobody has finished as ongoing or as abandoned, and an abandoned one can still
be paid: that is assumed of the provider. The rate limits on funders only refuse and are left out.

### PaymentWebhooks (`vendors/paymentWebhooks.ts` and the triggers of its migrations)

`delivery` is the outbox row of an event, `configs` the vendor's endpoints in the order of their
creation, `worker` a claim that a dispatcher is sending, `received` what the vendor's server
accepted (external). `SweepDeliveries` and `Claim` are the claiming transaction, which also parks,
exhausts and interrupts what it finds; `CheckConfiguration`, `Send` and `Report` are the three
statements of a delivery, and `Report` writes under its lease token only (`HoldsLease`). The token
is a sequence number here: a claim draws a fresh one. `RetryPaymentWebhook`,
`ConfigurePaymentWebhook` and `DisablePaymentWebhook` are the vendor's. Backoff is abstracted to
"later"; `log` is the outcome of each attempt. One vendor; the transport (DNS, TLS,
redirects, signatures) is not modelled.

### InvoiceLifecycle, InvoicePayments (`billing/paymentAttempts.ts`, `paymentConfirmation.ts`, `gatewayEvents.ts`, `reconciliation.ts`)

`InvoiceLifecycle` says what the payment of invoices promises: an allocation is of a payment made
for that invoice, there is one at most, an invoice is settled by its allocation only, and a further
payment is flagged. `InvoicePayments` has the statements: `PrepareAttempt`, `OpenCheckout`,
`StoreAnswer`, `FailOpening` open a checkout; `VerifyTransaction` to `StoreOutcome` are a
confirmation, started by an event, a retry of the sweep, the sweep's own check or the vendor.
`CanBecome` is the trigger on the status of an attempt. In the refinement an attempt that the
provider was paid for is the payment, and the allocation row is the allocation. Amount
and currency mismatches (the checkout's "MISPAID") end a confirmation in `VerifyTransaction`, before
any write.

### InvoiceGeneration (`billing/invoices.ts`, `billing/charges.ts`)

`service` and `claim` are the month of a charge's service and of the invoice that claims it;
`target` the month a run has found due. `ResolvePeriod` is the unlocked read of the month to
invoice, `IssuePeriod` the SERIALIZABLE transaction that claims the charges and writes the
invoice, or does nothing for a month that has one. Charges of past months arrive at any
time. Amounts and documents are functions of the claimed charges and are left out.

### VerificationSuspension (`billing/verificationSuspension.ts`, `jobLease.ts`, the cron routes)

`lease` is the RUNNING `billing_run` of a job; a worker keeps the moment it started (`now`, as
the invoices that were due then), so that a stalled one decides with an old clock. `ListSettled`,
`Reinstate`, `ListOverdue`, `Suspend`, `ListPending`, `Push`, `ClearFlag` are the
statements of a run; `ReinstateAfterPayment` the hook of a confirmation; `agentSuspended` the last
state that reached the agent (external). A lease lapses, is taken over, and its old owner can still
end the run: `jobLease.ts` does not check the owner, so `EndRun` and `FailRun` do not. `StopWorker` is a crash.

### VendorVerifications (`vendors/verifications.ts`, `billing/charges.ts`)

`agent` is the agent's decision (external), `row` the portal's request, `charge` and `exception`
the billing rows, `handler` a checkout, poll, event, reconciliation or backfill that has read and
not yet written. `BillProof` is the decision on the charge, made from the row each path has
written. `FinalizationFails` and `Crash` leave a row without its charge, which only a script
repairs; that nothing is missed is therefore stated for behaviours without a failure.

### WalletSessions (`payments/walletSession.ts`)

`code` is the activation codes, `session` the sessions with the token that is current, `client` the
refresh requests. Codes are requested and checked under the student's advisory locks, one step
each; the e-mail (`FinishEmail`, which revokes the code when it could not be sent), the creation of
the session, and every statement of a refresh (`ReadSession`, `RotateTokens`, `LoseRotation`,
`RevokeReused`, `RevokeRaced`) are steps. One student; switches, rate limits and eligibility only
refuse.

### VendorOnboarding (`vendors/applications.ts`, `vendors/payouts.ts`, `payments/branchOnboarding.ts`)

`application`, `payout`, `profile`, `open` and `request` are the rows; `ownerPage` and `reviewPage`
what the owner and the reviewer last loaded. Decisions are SERIALIZABLE and compare what was
shown (`AsShown`, `AsReviewed`); `ReadDraft` and `WriteDraft` are the separate statements of saving
a draft. One vendor; the contents of an application are complete or not.

### Invitations (`vendors/staff.ts`, `auth/invites.ts`)

One address. `SupersedeInvites` and `InsertInvite` are the two statements of an invitation;
`ClaimInvite` the conditional update, then `CreateUser`, `CompleteAcceptance`, and after a failure
`RemoveUser` and `ReleaseClaim`. The authentication library that creates users is external.

### BatchIssuance (`issuance/batchRuns.ts`, `credentials/preparedOffer.ts`)

`run`, `item`, `attempt` and `offer` are the rows; `worker` what a pass is doing for an item.
Several items are worked at once; a pass that was given up (`AbortPass`) may have workers on their
way while a retry starts the next one. `PrepareItem`, `ResumeOffer`, `RequestOffer`, `SaveOffer`,
`LinkOffer`, `SendOffer`, `RecordDelivery` are the steps of an item, `LoseRecord` the failure of
its last write. One batch; what else gives a student a credential is `OfferElsewhere`; acceptance
is left out (an accepted offer counts as delivered).

### CredentialRenewals (`credentials/annualRenewals.ts`, `preparedOffer.ts`, `renewalActivation.ts`, `status.ts`)

One enrolment, its first credential (offer 0) and the renewal of the next year. `record` is the
renewal row with its lease, `offer` the offer attempts with their credential at the agent and the
issuance row, `revocations` the jobs that revoke what is replaced. Every statement between the
claim and the outcome is a step, the lease may lapse before each, and a crash (`WorkerStops`) come
between any two. Events of the agent are
delivered once but at any time, also before the row exists. Abstractions: crashes, refusals, failed
mails, slow workers and replacements share one budget (`MaxTroubles`); the enrolment is cancelled or
completed, and the old credential suspended or revoked, only before the preparation; the handler of
events does not crash; retry delays are "later"; every offer is revocable.

### CredentialLifecycle, CredentialMirror (`credentials/lifecycleActions.ts`, `automation.ts`, `status.ts`)

`history` is the agent's transitions (external), `row` the portal's status and revision, `actor` the
administrators and runs of the daily job, `job` the automatic jobs, of which job 0 revokes a
replaced credential and job r ends the suspension of revision r. `Refused` is the trigger on the
status columns and the check of the revision. `CredentialMirror` says that the row always shows one
of the agent's transitions and only moves to a later one.

## 3. What is checked: runs, bounds, fairness

| Run | Instance | Shows |
|---|---|---|
| `sales` | 2 students, 2 tills, 2 sales, 2 keys, 2 references, 2 rows, clock 0..2, lifetime 1 | charged iff PAID, once, on its terms, in time |
| `refunds` | 2 operators, 2 instructions, 3 rows, 2 keys, amounts 1 and 2 | instructions agree with the ledger, outcomes are final, refunds stay within the spend |
| `overdraft` | 2 vendors, 2 overlapping runs, 3 rows, clock 0..2, period 1, 1 crash | suspension and reinstatement justified, and eventually done |
| `payouts` | 2 batches, 4 rows, threshold 1, 1 crash | no double payout, no early release, paid transfers posted |
| `topups` | a student's attempt, or 2 attempts of an overdrawn vendor; 2 reconcilers, 1 crash or 1 lost answer | credited once, only if paid, in the end if paid and not failed; settled attempts are repaired |
| `invoice_payments` | 1 invoice, 2 attempts, 2 confirmations at once, 1 crash | settled by one payment, the second flagged; implements `InvoiceLifecycle`; a payment is recorded in the end |
| `suspension` | 1 invoice, 2 payments, the daily job, 2 workers, 1 crash | decisions rest on the debt; suspended or reinstated in the end |
| `outbox` | 1 event, 2 configurations, 2 automatic attempts, 1 manual retry, 2 dispatchers, 1 crash | marked delivered means accepted; every delivery ends |
| `background` | invoices: 2 charges, 2 generations, 3 months; batch: 2 students, 1 retry, 1 pass given up, 1 stop | issued invoices never change, charges are invoiced; outcomes of a batch are true, and it ends |
| `requests` | verifications: 1, 2 handlers, 2 months, 1 failure; sessions: 2 codes, 2 refreshes; onboarding: 2 branches, 2 accounts, 2 requests; invitations: 2, with 2 requests to invite and 2 to accept; refunds in the browser: 2 tabs in one browser or in two, 2 instructions | see the properties of the five modules below |
| `renewals` | 1 enrolment, 2 workers, 2 offers, 1 try, 1 trouble | a cancelled renewal is not prepared, a due one ends, the accepted offer is activated, what it replaces is revoked |
| `lifecycle` | 1 administrator, 2 workers, 4 revisions, 2 attempts, 1 trouble | implements `CredentialMirror`; jobs do what they were scheduled for, and end |

`background` and `requests` hold components that share no state. Their variable `live` picks one
component at the start of a behaviour and the others stay as they began, so that the state space is
the sum of theirs and not the product, and every property sees all behaviours of its own component.

**Why the bounds suffice for the cases that matter.** Two actors of every kind interleave with each
other, and one crash or failure falls between any two of their steps; the hazards of the code are
of two actors, or of one and a crash.

- *Wallet.* Three rows hold a spend and two partial refunds (1 and 1 of 2, or 2 after 1, the
  over-refund), or a payout and two top-ups, so that an overdraft begins, deepens and ends. Two
  keys let one instruction be retried while another one runs. Two sales with two keys and two
  references give every kind of collision; lifetime 1 on a clock of 0..2 lets a sale lapse before,
  during and after a payment. Two instructions of two operators (or of one) give a duplicate, a
  conflict and an adoption. A vendor's attempts share the limit of one unresolved attempt, so there
  are two; students' attempts do not interact, so one suffices. In `refunds` and `payouts` the
  clock stands still: no property of theirs reads it. `RowsLeft` in `VendorPayouts` keeps a row for
  the debit of each batch, so that running out of rows is not mistaken for a lost transfer.
  A balance above the largest of its `Amounts` (2) is paid out once a refund or debit brought it
  down: larger payouts differ in nothing.
- *Invoices.* Two attempts are the given-up one and its successor, the two payments of one invoice.
  Three months give an invoice, a late charge for its month, and the month that bills it.
- *Suspension.* One invoice falls due, is paid, and its payment can be one of two; two workers are
  the stalled owner of a lease and its successor. The second scheduled job differs from the daily
  one only in leaving the scan out, so `Jobs` has one.
- *Outbox.* Two configurations are an endpoint and its replacement; two attempts a retry and the
  exhaustion. Deliveries share nothing but the dispatchers, so there is one.
- *Sessions, onboarding, invitations.* A code and its successor; a token and the two requests that
  present it; an account and its replacement; one branch closed while the other is decided; an
  invitation and the one that withdraws it, two acceptances of either. `MaxAttempts` of a code is 1
  instead of 5, the last one being the one that matters.
- *Refunds in the browser.* Two tabs share a storage or do not; two instructions are the one that a
  late answer is about and the one that took its place. Requests and reloads are not bounded.
- *Credentials.* Two offers are the first and its replacement; four revisions an issue, a
  suspension, its end and another suspension or a revocation. `MaxTries` is 1 in `renewals`
  instead of 5: a failure ends the renewal at once; `lifecycle` has 2 attempts, so that one is
  retried.

Every bound is a named constant. Symmetry is declared only for identifiers that are compared for
equality alone, and only in runs without liveness properties.

**Properties.** Most relate two pieces of state, or a state and an earlier one:

- Wallet: `SaleChargedIffPaid`; `OperationsMatchLedger`, `RefundsWithinSpend`,
  `OperationOutcomeFinal`; `SuspensionsJustified`; `PayoutsMatchLedger`, `TransfersWithinEarnings`;
  `CreditedOnlyIfPaid`, `BalancesMatchLedger`. Liveness: `OverdrawnVendorIsSuspended`,
  `RecoveredVendorIsReinstated`, `PaidTransferIsPosted`, `PaidIsCredited`,
  `VendorAttemptIsRepaired`.
- Billing: `SettledOnce` and the refinement `ImplementsLifecycle`; `DecidedOnDebt`;
  `InvoiceContentsFinal`; `ChargesMatchDecisions`. Liveness: `PaidIsReceipted`,
  `SettledVendorIsReinstated`, `OverdueVendorIsSuspended`, `ChargeIsInvoiced`.
- Vendors and students: `DeliveredWasReceived`; `ReusedTokenEndsSession`, `OnlyNewestCodeOpens`;
  `UnresolvedIsStored` (a browser keeps every instruction that may still be carried out);
  `AcceptanceIsBacked` (a branch accepts payments exactly while one of its requests is approved,
  the one its acceptance names), `ApprovedAsConfirmed` (access is granted for the account that is
  saved, that the owner confirmed and that the reviewer saw); `StaffInviteAdmits`. Liveness:
  `DeliveryEnds`.
- Credentials: the refinement `ImplementsMirror`, `ReactivatesItsSuspension`;
  `CancelledStaysUnprepared`; `OutcomesAreTrue`. Liveness: `JobsEnd`,
  `DueRenewalEnds`, `AcceptedIsActivated`, `ReplacedIsRevoked`, `BatchEnds`.

`OutcomesAreTrue` is stated for behaviours without a pass given up: after a lost record, an old
worker may still overwrite the outcome that a retry recorded. `ChargesMatchDecisions` says that
nothing is missed as long as nothing fails, because only a script repairs a failed finalization.
`JobsEnd` leaves out jobs retried by hand, whose worker has no lease (section 5). Each type
invariant that no run names is a conjunct of a property that is run, or was checked on the same
instance (`OverdraftTypeOK`, `SuspensionTypeOK`, `GenerationTypeOK`, `RenewalTypeOK`,
`SessionTypeOK`, `OnboardingTypeOK`, `InviteTypeOK`, `BatchTypeOK`, `RecoveryTypeOK`). For each property
`PROJECT.json` names a faulty variant of the code's logic (in the modules, marked "Faulty variant")
under which TLC finds it violated.

**Fairness.**

- *Overdraft*: weak fairness of each monitor run's steps: the platform starts the job daily and a
  run that is not aborted works through its list. Top-ups, sales and follow-ups are not fair.
- *Payouts*: weak fairness of the webhook per batch, because the provider redelivers until
  acknowledged; neither a run nor a transfer is assumed to finish.
- *Top-ups*: strong fairness of the sweep per attempt: it runs on a schedule and takes the attempts
  it has left alone longest, so other traffic cannot keep one from its turn. This holds while fewer
  attempts than a batch (25) are stuck (a hazard that no run covers, see below).
- *Invoice payments*: weak fairness of a confirmation's steps, strong fairness of the sweep per
  attempt, as above.
- *Suspension*: weak fairness of a worker's steps and of the lapse of an old lease, strong fairness
  of the daily start: another run is never a reason to wait for ever.
- *Outbox*: weak fairness of a delivery's steps (it has a timeout of seconds), strong fairness of
  the claim of each event: the dispatcher runs every five minutes, and workers are only a bound.
- *Invoices*: weak fairness of the passing of months and of each generation, which the daily job
  repeats. *Batch*: weak fairness of the background task and of some item's next step; a stopped
  process ends the obligation (`stops > 0`).
- *Renewals, lifecycle*: weak fairness of the system as a whole: something of it goes on while it
  can. Students, administrators, the agent and the calendar owe nothing.

Payers, tills, students, vendors and operators may always stop; errors of providers are bounded;
modules without liveness properties state no fairness.

**Deadlock.** `sales`, `refunds`, `overdraft`, `payouts` and `topups` keep an enabled step in every
state, and TLC checks it. The others stop when their bounds are used up or their work is done (the
last month has passed, a batch has ended, an invitation is used), so that check is off for them;
that they do not stop too early is what their liveness properties say.


## 4. What is proved

Proofs are in eight modules of their own; several host a second component, so that what shares an
argument or a data type shares its lemmas. They assume only the named assumptions of the modules:
accounts of students, vendors and the system are disjoint; amounts are positive integers; no wallet
is overdrawn when the period starts; NULL is none of the values (nor the code `"OVERDRAFT"`);
administrators and runs of the job are distinct; batches of payouts are numbered by their keys;
the sets of transactions, batches and clients are finite; bounds are natural numbers, and a renewal
has at least one offer and one try. The sets of
wallets, rows, keys, amounts, sales, attempts, actors and the bounds on revisions, months, retries,
crashes and troubles are otherwise arbitrary.

Every safety property of the runs is proved, for all values of the constants; the runs show the
same formulas, and check the inductive invariants' conjuncts that are properties, on small
instances. What a module adds to the property to make it inductive is the content of its proof and
is summarised below. The sessions, onboarding, invitations, refunds in the browser and the
verifications have specifications of their own (`SessionSpec`, `OnboardingSpec`, `InviteSpec`,
`RecoverySpec`, `VerificationSpec`), which the instance of the run interleaves; so have batches
(`BatchSpec`) and the generation (`GenerationSpec`).

`WalletLedgerProofs`

- `LedgerTyping`, `OverdraftClock` (`OverdraftTracked`), `OverdraftCauses`
  (`OverdraftOnlyByRefundOrPayout`), `IdempotentExecution` (`InstructionExecutedOnce`),
  `SettlementFinality` (`SettledTransactionsAreFinal`).
- Argument: every action is a posting, a top-up step or leaves the ledger's rows alone; a posting
  writes one fresh row, so it suffices to show what `ApplyEntries` does to the two accounts
  involved. `OverdraftTracked` is inductive together with typing; `InstructionExecutedOnce` is
  inductive because `Existing` is looked up over all rows in the step that writes.
- `BalancesProjected` (`BalancesMatchLedger`) and `RefundsBounded` (`RefundsWithinSpend`) are about
  sums over sets of rows. The sum (`AmountsIn`) is a fold over a finite set; the prover has no
  induction over data, but it has the well-foundedness of the naturals, so each fact about sums (a
  row added, a row changed, an inclusion) is proved by a smallest counterexample. Everything else
  treats `AmountsIn` as opaque and uses those lemmas. `RefundInvariant` adds to the bound that every
  refund is linked to a row.

`PaymentRequestsProofs`

- `SalesInvariant`: the inductive invariant `SaleInvariant`, a conjunction of typing, `LocksHeld`
  (only a pending sale has an open payment, that started before now), `OutcomesRecorded` (only a
  paid sale has a payer, a transaction and a completion time), `OneSalePerInstruction` and
  `SaleChargedIffPaid`.
- Why the strengthening is needed: `FinishPay` may *find* its spend already posted instead of
  posting it (a replay), and a sale would then be PAID by another sale's money. `PaymentIsFirst`
  shows that this cannot happen: a spend with this sale's reference would be charged to a PAID sale
  (charging), which is this one by the uniqueness of references, which is pending because its
  lock is held (`LocksHeld`).
- `ChargedExactlyOnce`, `OneSaleEach`, `OutcomesFinal` follow; `SalesUseLedger` is the refinement
  `Spec => LedgerSpec`.
- The outbox: `DeliveredIsReceived` (`DeliveredWasReceived`) from `WebhookInvariantHolds`. A worker
  reports long after its claim, and its delivery may have been claimed again, parked or replayed.
  `DeliverySound` and `ClaimSound` say why a late report is refused: the token of a lease numbers
  the claims of its delivery, so a worker whose token is the delivery's is the last that claimed it,
  and the endpoint it called is the delivery's. That numbers never run out of their type needs
  `sequence <= MaxAutomatic * retries + attempts`.

`WalletTopupsProofs`

- `TopupsInvariant`: the inductive invariant `TopupInvariant`, a conjunction of typing,
  `AttemptsBacked` (an attempt has its top-up transaction, and only attempts are opened, paid or
  announced), `WorkersInformed`, `CreditedOnlyIfPaid` and `NotifiedOnce`.
- Why the strengthening is needed: a reconciler acts on what it read several steps ago.
  `WorkersInformed` says why that is sound: what it learnt of a captured payment or of a credit
  stays true, because a provider does not take a success back and a completed row is final
  (`RowsStay`). An uncertain or failed reading may be stale by the time it is written; `StatusWrite`
  shows that the constraint of the table then refuses it.
- `TopupsTyping`, `CreditsArePaid`, `OneNotification` follow, for any number of reconcilers,
  crashes and errors; `TopupsUseLedger` is `Spec => LedgerSpec`, by which `BalancesProjected` holds
  of top-ups too.

`RefundOperationsProofs`

- `OperationsAgree` (`OperationsMatchLedger`) and `InstructionsFinal` (`OperationOutcomeFinal`) from
  `OperationInvariantHolds`. An execution may find a refund under its key, made by an instance of
  the previous release that stores no instruction, or by its own earlier attempt. The invariant adds
  that keys are unique in a wallet (`KeysDistinct`), that a completed instruction names its refund
  on its terms and no other one does (`OutcomesNamed`), that nothing is posted under the key of a
  rejected or cancelled one (`ResolvedUnposted`), that a spend has at most one pending instruction
  (`PendingOnce`), and that every refund is named or of the previous release (`RefundsNamed`).
- `OperationsUseLedger` is `Spec => LedgerSpec`; `OperationsWithinSpend` applies `RefundsBounded`
  through it: no mix of partial refunds of both releases exceeds its spend.
- The overdraft monitor: `SuspendedForOverdraft` (`SuspensionsJustified`) from
  `MonitorInvariantHolds`: the clock of `OverdraftTracked`, that a suspension code means a suspended
  profile, and that a run's start is not in the future, because a candidate listed under an older
  start is decided with that start. `MonitorRefinesLedger` is `MonitorSpec => LedgerSpec`.

`VendorPayoutsProofs`

- `PayoutsAgree` (`PayoutsMatchLedger`) and `OrdersCovered` (`TransfersWithinEarnings`) from
  `PayoutInvariantHolds`. `ProviderAgrees` relates answers and events on their way to what the
  provider did; `BatchesSound` and `DebitsJustified` make completed batches and debits correspond
  one to one, whoever completes a batch and however often.
- The bound on the provider's orders is not inductive by itself, since a vendor's balance falls only
  when a debit is posted, after the order. `ClaimsWithinEarnings` bounds, for each vendor, the
  amounts of all *live* batches (ordered, or still to be ordered by their run) by what it opened
  with and sold: a reservation takes at most the balance minus what is reserved, and the balance is,
  by `BalancesMatchLedger`, opening and sales minus debits, which are batches that are completed.
- `PayoutsUseLedger` is `Spec => LedgerSpec`.

`InvoicePaymentsProofs`

- `InvoiceSettledOnce` (`SettledOnce`) and `NothingTakenBack` from `PaymentInvariantHolds`.
  `HandlersInformed` lists what a confirmation knows at each of its statements: that the checkout was
  paid, that the receipt is there, the attempt succeeded, the allocation is its own or another's.
  Each stays true while others go on because nobody takes these back (`Keeps`), and the trigger on
  the attempts refuses a late failure (`GuardKeepsSuccess`).
- `LifecycleImplemented` (`ImplementsLifecycle`): every statement is a step of `InvoiceLifecycle`
  under the mapping `paidFor`, or leaves it alone.
- The generation: `InvoicesAreFinal` (`InvoiceContentsFinal`) from `GenerationInvariantHolds`. A run
  issues the month it read earlier; the invariant keeps that month in the past, and claims and issued
  months in agreement, so that an issue claims nothing for an invoice that is there.
- The renewals: `CancellationIsFinal` (`CancelledStaysUnprepared`) from `RenewalInvariantHolds`. A
  worker may be anywhere between its claim and its preparation when the enrolment is cancelled.
  `NothingUnderWay` says that until the first preparation no worker is further than that, no offer
  exists but the first credential, nothing is to be revoked, and a cancelled enrolment has cancelled
  its record; so whoever goes on finds no offer under its key and an enrolment that is not active,
  and leaves the record alone. The rest of the invariant says that a claim counts as an attempt, that
  a failed renewal has no worker, and that a replacement has an offer left, whoever else prepares.

`CredentialLifecycleProofs`

- `LifecycleInvariantHolds`: the inductive invariant `LifecycleInvariant`, a conjunction of typing,
  the facts that a revocation is the agent's last transition, that the row mirrors the transition
  whose revision it carries, and that what actors and jobs ask is what their action allows.
- Why the strengthening is needed: an actor persists the answer it was given many steps before. The
  answer names a revision, the agent's history at a revision never changes, and a write is made only
  for a revision that is not older than the row's (`IsCurrent`): so a late one repeats what the row
  shows, or leaves it. For the job it is not enough that its suspension was current when it was
  claimed: `AgentAccepts` compares the revision at the agent.
- `MirrorImplemented` (`ImplementsMirror`) is the safety refinement
  `LifecycleSpec => Mirror!MirrorSpec`; `JobEndsItsSuspension` (`ReactivatesItsSuspension`) is the
  run's action property, and `RevocationStays` (a row shown as revoked stays so, whatever column a
  late event writes) is proved only; all for any number of administrators, workers, revisions and
  troubles.
- Batches: `BatchTellsTheTruth` (`OutcomesAreTrue`) from `BatchInvariantHolds`. A retry resets items
  and starts another pass while workers of an earlier one might still report. `BatchRecorded` says
  why they do not, as long as every outcome is recorded: only the latest pass has workers, each on an
  item without an outcome, and an item whose worker is done has one. After a lost record this is
  false, and the property claims nothing.

`PortalRequestsProofs`

- `ChargedAsDecided` (`ChargesMatchDecisions`) from `VerificationInvariant`: rows, and what handlers
  carry from one statement to the next, speak of a decision only if the agent made it, and date it
  between then and now; a billable row is charged or some handler is on its way to charge it.
- `ReuseEndsSession`, `NewestCodeOpens` from `SessionInvariant`: tokens only grow and revocations
  stay, so what a refresh obtained (a newer token, or on its own device the end of the session) is
  still so when another refresh of the same token is answered; a code that can be used is the newest
  of its device.
- `AcceptedWhileApproved`, `GrantedAsConfirmed` from `OnboardingInvariant`: a branch has at most one
  request that is pending or approved, its account is the one its owner confirmed, and a branch
  accepts payments exactly for its approved request.
- `AcceptedStaffAdmitted` from `InviteInvariant`: who claimed an invitation has it alone; the user is
  of the invitation that is claimed and half-way, or of one that is used up.
- `UnresolvedStaysStored` from `RecoveryInvariant`: an outcome a tab was told, or waits to be told, is
  the instruction's; a draft is forgotten only for such an outcome.
- `SuspensionFollowsDebt` (`DecidedOnDebt`) from `SuspensionInvariantHolds`: what a worker took for
  past due is past due however long it stalled, because an invoice does not become less due; what it
  reads again in its transaction is the rest of the condition.

**Only model-checked.** Liveness, which rests on fairness and ENABLED: `OverdrawnVendorIsSuspended`,
`RecoveredVendorIsReinstated`, `PaidTransferIsPosted`, `PaidIsCredited`,
`VendorAttemptIsRepaired`, `PaidIsReceipted`, `SettledVendorIsReinstated`,
`OverdueVendorIsSuspended`, `DeliveryEnds`, `ChargeIsInvoiced`, `BatchEnds`, `DueRenewalEnds`,
`AcceptedIsActivated`, `ReplacedIsRevoked`, `JobsEnd`. Those instances are small; what they lack in
size is argued in section 3.

## 5. Where the code and its documents disagree

What modelling showed of the code that a reader of its documents or comments would not expect. The
models follow the code; where a property would be false because of one of these, it is stated
without the case, as said in section 3. None of these is claimed to have happened in production.

*Wallet.*

1. A sale answered EXPIRED can be PAID on the next read: `paymentRequests.ts:30` derives EXPIRED
   from the clock, and a payment that completed before the expiry may commit after that answer;
   `docs/payments/POS_INTEGRATION.md:61` lists EXPIRED as an outcome enforced on reads. Charging
   itself stays right.
2. A transfer event whose handler failed is never applied: redeliveries are duplicates, and the
   sweep retries every failed event as an invoice payment (`billing/reconciliation.ts:96`), which
   finds nothing for a transfer; line 2 of that file says it retries durable webhook failures. The
   funds stay reserved.
3. A vendor's payment after an abandoned checkout is never credited: `walletTopups.ts:391` makes the
   attempt FAILED for good; `docs/payments/REFUNDS_OVERDRAFT_PAYOUTS.md:176` says that a confirmed
   payment must always be credited.

*Invoices.*

4. A confirmation that finds the payer still at the checkout fails the attempt
   (`paymentConfirmation.ts:122`). When the payer then pays, the receipt is written, but the trigger
   refuses FAILED to SUCCEEDED (`:228`), the event is retried for ever, and the invoice stays
   unpaid; the comment above the function (from line 92) has the receipt settle the invoice.
5. A timeout while opening a checkout should make the attempt UNKNOWN (`paymentAttempts.ts:184`,
   `:250`), which the trigger refuses for an attempt that is PREPARING: it stays so.
6. A crash between the allocation and the update to PAID leaves the invoice unpaid: the next
   confirmation answers `already_confirmed` (`paymentConfirmation.ts:194-195`). One between
   SUCCEEDED and the allocation is not retried by the sweep either. `hasUnresolvedException` is set
   and never reset.
7. The shares of a charge follow the policy effective when its service completed
   (`charges.ts:103`). A new policy takes its starting time before it commits (`policy.ts:139-197`):
   a service completed in between is shared out by the policy before.

*Suspension of verifications.*

8. Two synchronizations may overlap so that an old suspension is pushed to the agent last
   (`verificationSuspension.ts:200-202`), and a run that stalled reinstates by the invoices that
   were due when it started.

*Verifications.*

9. A contradiction with a charge that another handler is just creating is not recorded as an
   exception: who finds no charge, or loses the insert, compares nothing (`charges.ts:50-77`, the
   comment at 42-44). A slow poll overwrites a final row with PENDING (the comment at
   `verifications.ts:453-454`). A crash between the row and its charge waits for a backfill by
   hand.

*Outbox.*

10. The attempt of a worker that crashed stays STARTED in the log after a manual retry
    (`paymentWebhooks.ts:84`), and a delivery may be DELIVERED while its attempt is INTERRUPTED.

*Credentials.*

11. A mail that is sent again writes OFFER_SENT over an ISSUED that came while it was sent
    (`preparedOffer.ts:320-322` against `status.ts:258-262`). A renewal that failed before an
    offer was prepared cannot be retried.
12. A batch whose process stops stays PROCESSING, or QUEUED before its task began, and cannot be
    retried (`batchRuns.ts:590-610`). Two issuances at once, of two batches or a batch and a single
    one, may each find no active credential and make an offer (`batchRuns.ts:462`).
13. `retryCredentialAutomationJob` leaves its job PROCESSING without a lease, so that a crash of
    the request strands it.
14. A draft schema can be deleted while it is being published (`credentialSchema.ts:416-448` checks
    the status before its transaction): a published version is then removed, against the comment at
    lines 411-413, or its reserved version number is given out again. Two publications that overlap
    leave two active schemas; readers take the newest.

*Vendors and people.*

15. Saving a draft application checks DRAFT and then updates by id (`applications.ts:683-760`,
    `:807-819`, `:855-872`), so that the contents may change after the submission.
16. Two concurrent invitations of one address both withdraw the earlier ones and then insert:
    two are active, against "there's only ever one active invite per address"
    (`auth/invites.ts:117-118`). An acceptance that fails releases an invitation that a newer one
    did not withdraw.
17. A failing provisioning writes PROVISIONING_FAILED over the success of another
    (`branches.ts:43-89`), and a retry returns early because the service point is set. The default
    branch may be disabled between the check and the update (`branches.ts:264-276`).

*Live payments.*

18. The feed of live payments continues after the completion time of the last payment it showed
    (`livePayments.ts:325-328`), and that time is taken before the commit (`posting.ts:559`): a
    payment that commits after a later one was shown is left out until the page is loaded again.

## 6. What is not modelled, and why

- *Student imports* (`lib/imports`): the preview is a diff against the students at that time, and
  the commit is one transaction that applies it and deletes the preview. Nothing compares the
  preview with the students again, so there is no promise to check beyond that a preview is committed
  once, which the deletion decides.
- *Credential schemas* (`university/credentialSchema.ts`): the code keeps no relation between
  overlapping publications (disagreement 14), and its use is by a handful of administrators.
- *Branches at the agent* (`vendors/branches.ts`): creation and repair of service points, with
  disagreement 17; what the branch's state means for payments is in `WalletLedger` and
  `VendorOnboarding`.
- *Billing policies* (`billing/policy.ts`): at most one open policy and adjacent ranges hold by a
  unique index and one transaction. Prices are not part of any model.
- *Integrations and API credentials* (`vendors/integrations.ts`): single-row updates and
  cryptography. *Sign-in and permissions*: a library and pure checks.
- *Agent client, Paystack client*: HTTP. What their answers, errors and timeouts do is in the
  modules that call them.
- *The sweep's batches* (`topups.ts:786`): a student's unresolved attempt whose transaction is
  settled keeps its place at the head of the batch of 25. The models give every attempt its turn.
- *Pages, components, e-mail templates*: about half of the repository's lines, presentation.

Throughout, authorization, audit rows, the contents of e-mails, logging, paging, receipts and the
layout of messages are left out. Authorization is data the modelled operations do not change.

## 7. Plan

Every safety property of the runs has its theorem, and no module declares a RECURSIVE operator.
What is left, in order of value:

1. Safety that no run states yet, to be checked first and then proved: in `CredentialRenewals`, that
   a revocation for a replacement always leaves a newer credential that was issued; in
   `InvoicePayments`, that money received for an invoice is allocated to it or flagged once its
   confirmation has ended (what disagreements 4 to 6 leave true of it).
2. The abstract specification of the outbox (at-least-once delivery to the endpoint of an event),
   and `PaymentWebhooks` as its implementation.
3. Models: the cursor and batches of the reconciliation sweep; service points of branches and the
   publication of schemas, once the code serializes them.
