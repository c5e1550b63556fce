------------------------ MODULE VerificationSuspension ------------------------
(***************************************************************************)
(* Suspension of a vendor's verifications while an invoice is overdue      *)
(* (src/src/lib/billing/verificationSuspension.ts), the two scheduled jobs *)
(* that apply it under their leases (jobLease.ts and the cron routes), the *)
(* hook after a payment, and the synchronization with the agent service.   *)
(*                                                                         *)
(* One vendor.  Its invoices behave as InvoiceLifecycle allows.  The agent *)
(* is external: it keeps the last state that reached it.                   *)
(***************************************************************************)
EXTENDS InvoiceLifecycle, Naturals

CONSTANTS
  Jobs,       \* the scheduled jobs: "DAILY", "RECONCILE"
  Workers,    \* processes that run a job or the hook
  LeaseRows,       \* identifiers of job runs; one that nobody holds is used again
  MaxCrashes  \* how often a process stops or a job fails

ASSUME SuspensionAssumption ==
  /\ Jobs \subseteq {"DAILY", "RECONCILE"}
  /\ NULL \notin LeaseRows
  /\ MaxCrashes \in Nat

Phases ==
  {"IDLE", "STARTED", "REINSTATING", "SCANNING", "SUSPENDING", "SYNCING",
   "PUSHING", "PUSHED", "ENDING"}

VARIABLES
  due,             \* invoices past their due date
  suspended,       \* verificationSuspensionCode of the vendor is set
  syncPending,     \* verificationAgentSyncPending
  agentSuspended,  \* what the agent enforces (external)
  lease,           \* the RUNNING BillingRun of each job
  worker,          \* the processes
  crashes

suspensionVars == <<due, suspended, syncPending, agentSuspended, lease, worker, crashes>>
vars == <<lifecycleVars, suspensionVars>>

\* A worker's "now" is kept as the invoices that were due then.
WorkerRecords ==
  [phase : Phases, job : Jobs \cup {"HOOK"}, row : LeaseRows \cup {NULL},
   now : SUBSET Invoices, pushed : BOOLEAN]

SuspensionTypeOK ==
  /\ due \in SUBSET Invoices
  /\ suspended \in BOOLEAN /\ syncPending \in BOOLEAN /\ agentSuspended \in BOOLEAN
  /\ lease \in [Jobs -> [row : LeaseRows \cup {NULL}, expired : BOOLEAN]]
  /\ worker \in [Workers -> WorkerRecords]
  /\ crashes \in 0 .. MaxCrashes

IdleWorker == [phase |-> "IDLE", job |-> "HOOK", row |-> NULL, now |-> {}, pushed |-> FALSE]
NoLease == [row |-> NULL, expired |-> FALSE]

SuspensionInit ==
  /\ LifecycleInit
  /\ due = {}
  /\ suspended = FALSE
  /\ syncPending = FALSE
  /\ agentSuspended = FALSE
  /\ lease = [j \in Jobs |-> NoLease]
  /\ worker = [w \in Workers |-> IdleWorker]
  /\ crashes = 0

-----------------------------------------------------------------------------

\* Invoices overdue at a time at which the invoices of "now" are due.
Overdue(now) == {i \in now : invoice[i].status = "UNPAID"}

\* An open exception pauses new suspensions; it never lifts one.
SuspendingInvoices(now) == {i \in Overdue(now) : ~ invoice[i].exception}

FallDue(i) ==
  /\ invoice[i].status # "NONE"
  /\ i \notin due
  /\ due' = due \cup {i}
  /\ UNCHANGED <<lifecycleVars, suspended, syncPending, agentSuspended, lease, worker, crashes>>

Enter(w, phase) == worker' = [worker EXCEPT ![w].phase = phase]

-----------------------------------------------------------------------------
(* The lease of a job. *)

FreshRow == CHOOSE r \in LeaseRows :
  /\ \A j \in Jobs : lease[j].row # r
  /\ \A w \in Workers : worker[w].row # r

\* Faulty variant: an expired lease is not taken over.
AcquireFreeLease(w, j) ==
  /\ worker[w].phase = "IDLE"
  /\ lease[j].row = NULL
  /\ lease' = [lease EXCEPT ![j] = [row |-> FreshRow, expired |-> FALSE]]
  /\ worker' = [worker EXCEPT ![w] =
                  [IdleWorker EXCEPT !.phase = "STARTED", !.job = j, !.row = FreshRow]]
  /\ UNCHANGED <<lifecycleVars, due, suspended, syncPending, agentSuspended, crashes>>

\* A new row, or the expired one of a worker that stopped or is slow; the row
\* keeps its identifier.
AcquireLease(w, j) ==
  /\ worker[w].phase = "IDLE"
  /\ \E row \in LeaseRows :
       /\ \/ lease[j].row = NULL /\ row = FreshRow
          \/ lease[j].expired /\ row = lease[j].row
       /\ lease' = [lease EXCEPT ![j] = [row |-> row, expired |-> FALSE]]
       /\ worker' = [worker EXCEPT ![w] =
                       [IdleWorker EXCEPT !.phase = "STARTED", !.job = j, !.row = row]]
  /\ UNCHANGED <<lifecycleVars, due, suspended, syncPending, agentSuspended, crashes>>

\* Five minutes pass.
ExpireLease(j) ==
  /\ lease[j].row # NULL
  /\ ~ lease[j].expired
  /\ lease' = [lease EXCEPT ![j].expired = TRUE]
  /\ UNCHANGED <<lifecycleVars, due, suspended, syncPending, agentSuspended, worker, crashes>>

\* completeJobLease and failJobLease end the row they are given, whoever holds
\* it by now.
ReleaseLease(w) ==
  LET j == worker[w].job
  IN lease' = IF j \in Jobs /\ lease[j].row = worker[w].row
              THEN [lease EXCEPT ![j] = NoLease] ELSE lease

EndRun(w) ==
  /\ worker[w].phase = "ENDING"
  /\ ReleaseLease(w)
  /\ worker' = [worker EXCEPT ![w] = IdleWorker]
  /\ UNCHANGED <<lifecycleVars, due, suspended, syncPending, agentSuspended, crashes>>

\* An exception that the job does not handle: it fails its run.
FailRun(w) ==
  /\ worker[w].phase # "IDLE"
  /\ crashes < MaxCrashes
  /\ crashes' = crashes + 1
  /\ ReleaseLease(w)
  /\ worker' = [worker EXCEPT ![w] = IdleWorker]
  /\ UNCHANGED <<lifecycleVars, due, suspended, syncPending, agentSuspended>>

\* A process stops; its row stays RUNNING.
StopWorker(w) ==
  /\ worker[w].phase # "IDLE"
  /\ crashes < MaxCrashes
  /\ crashes' = crashes + 1
  /\ worker' = [worker EXCEPT ![w] = IdleWorker]
  /\ UNCHANGED <<lifecycleVars, due, suspended, syncPending, agentSuspended, lease>>

-----------------------------------------------------------------------------
(* The steps of a run. *)

\* Faulty variant: no job goes on to suspend.
SkipSuspension(w) == "SYNCING"

\* The daily job goes on to suspend, the others to synchronize.
AfterReinstatement(w) == IF worker[w].job = "DAILY" THEN "SCANNING" ELSE "SYNCING"

\* reinstateSettledVendors: the time is taken and the candidates are read ...
ListSettled(w) ==
  /\ worker[w].phase = "STARTED"
  /\ worker' = [worker EXCEPT
       ![w].phase = IF suspended /\ Overdue(due) = {}
                    THEN "REINSTATING" ELSE AfterReinstatement(w),
       ![w].now = due]
  /\ UNCHANGED <<lifecycleVars, due, suspended, syncPending, agentSuspended, lease, crashes>>

\* The serializable transaction of reinstateVendor.
LiftSuspension(now) ==
  /\ suspended
  /\ Overdue(now) = {}
  /\ suspended' = FALSE
  /\ syncPending' = TRUE

\* ... and each is checked again.
Reinstate(w) ==
  /\ worker[w].phase = "REINSTATING"
  /\ \/ LiftSuspension(worker[w].now)
     \/ ~ (suspended /\ Overdue(worker[w].now) = {}) /\ UNCHANGED <<suspended, syncPending>>
  /\ Enter(w, AfterReinstatement(w))
  /\ UNCHANGED <<lifecycleVars, due, agentSuspended, lease, crashes>>

\* suspendOverdueVendors: the candidates are read ...
ListOverdue(w) ==
  /\ worker[w].phase = "SCANNING"
  /\ Enter(w, IF ~ suspended /\ SuspendingInvoices(worker[w].now) # {}
              THEN "SUSPENDING" ELSE "SYNCING")
  /\ UNCHANGED <<lifecycleVars, due, suspended, syncPending, agentSuspended, lease, crashes>>

\* Faulty variant: the invoices are not read again in the transaction.
SuspendListed(w) ==
  /\ worker[w].phase = "SUSPENDING"
  /\ suspended' = TRUE
  /\ syncPending' = TRUE
  /\ Enter(w, "SYNCING")
  /\ UNCHANGED <<lifecycleVars, due, agentSuspended, lease, crashes>>

\* ... and each is checked again: a payment may have come in.
Suspend(w) ==
  LET holds == ~ suspended /\ SuspendingInvoices(worker[w].now) # {}
  IN /\ worker[w].phase = "SUSPENDING"
     /\ suspended' = (suspended \/ holds)
     /\ syncPending' = (syncPending \/ holds)
     /\ Enter(w, "SYNCING")
     /\ UNCHANGED <<lifecycleVars, due, agentSuspended, lease, crashes>>

\* reinstateAfterInvoicePayment: after a confirmation that was not an excess.
ReinstateAfterPayment(w) ==
  /\ worker[w].phase = "IDLE"
  /\ \E i \in Invoices : allocation[i] # NULL
  /\ LiftSuspension(due)
  /\ worker' = [worker EXCEPT ![w] = [IdleWorker EXCEPT !.phase = "SYNCING"]]
  /\ UNCHANGED <<lifecycleVars, due, agentSuspended, lease, crashes>>

-----------------------------------------------------------------------------
(* syncVendorVerificationSuspensions *)

\* The hook is over, a job has its run to end.
EndSync(w) ==
  worker' = [worker EXCEPT ![w] =
    IF @.job = "HOOK" THEN IdleWorker
    ELSE [@ EXCEPT !.phase = "ENDING", !.now = {}, !.pushed = FALSE]]

\* The state to push is read with the flag.
ListPending(w) ==
  /\ worker[w].phase = "SYNCING"
  /\ IF syncPending
     THEN worker' = [worker EXCEPT ![w].phase = "PUSHING", ![w].now = {}, ![w].pushed = suspended]
     ELSE EndSync(w)
  /\ UNCHANGED <<lifecycleVars, due, suspended, syncPending, agentSuspended, lease, crashes>>

\* The agent takes the state it is sent, in the order of arrival.
Push(w) ==
  /\ worker[w].phase = "PUSHING"
  /\ agentSuspended' = worker[w].pushed
  /\ Enter(w, "PUSHED")
  /\ UNCHANGED <<lifecycleVars, due, suspended, syncPending, lease, crashes>>

\* The call fails, before or after the agent took the state.
PushFails(w) ==
  /\ worker[w].phase = "PUSHING"
  /\ agentSuspended' \in {agentSuspended, worker[w].pushed}
  /\ EndSync(w)
  /\ UNCHANGED <<lifecycleVars, due, suspended, syncPending, lease, crashes>>

\* Only if the vendor is still in the state that was pushed.
ClearFlag(w) ==
  /\ worker[w].phase = "PUSHED"
  /\ syncPending' = (syncPending /\ suspended # worker[w].pushed)
  /\ EndSync(w)
  /\ UNCHANGED <<lifecycleVars, due, suspended, agentSuspended, lease, crashes>>

-----------------------------------------------------------------------------

InvoiceStep == LifecycleNext /\ UNCHANGED suspensionVars

RunStep(w) ==
  \/ ListSettled(w) \/ Reinstate(w) \/ ListOverdue(w) \/ Suspend(w)
  \/ ListPending(w) \/ Push(w) \/ PushFails(w) \/ ClearFlag(w) \/ EndRun(w)

SuspensionNext ==
  \/ InvoiceStep
  \/ \E i \in Invoices : FallDue(i)
  \/ \E j \in Jobs : ExpireLease(j) \/ \E w \in Workers : AcquireLease(w, j)
  \/ \E w \in Workers : RunStep(w) \/ ReinstateAfterPayment(w) \/ FailRun(w) \/ StopWorker(w)

\* A process goes on unless it stops, the clock does, and the scheduler starts
\* the daily job again and again: it runs whenever its lease is free or
\* expired, so another run is never a reason to wait for ever.
StartDaily == \E w \in Workers : AcquireLease(w, "DAILY")

SuspensionFairness ==
  /\ \A w \in Workers : WF_vars(RunStep(w))
  /\ WF_vars(ExpireLease("DAILY"))
  /\ SF_vars(StartDaily)

SuspensionSpec == SuspensionInit /\ [][SuspensionNext]_vars /\ SuspensionFairness

-----------------------------------------------------------------------------
(* Properties. *)

\* A vendor is suspended only for an invoice that is, at that moment, unpaid,
\* past its due date and under no open exception; and reinstated only when
\* every invoice that the deciding process took for due is paid, the ones
\* under an exception included.  Both decisions follow a list that was read
\* earlier, and a payment, an excess or another run may come in between.
DecidedOnDebt ==
  [][ /\ ~ suspended /\ suspended' => SuspendingInvoices(due) # {}
      /\ suspended /\ ~ suspended' =>
           \/ Overdue(due) = {}
           \/ \E w \in Workers :
                worker[w].phase = "REINSTATING" /\ Overdue(worker[w].now) = {} ]_vars

\* A vendor that paid does not stay suspended, even if the hook after its
\* payment is lost with its process or a run stops halfway.
SettledVendorIsReinstated ==
  suspended /\ Overdue(due) = {} ~> ~ suspended \/ Overdue(due) # {}

\* A vendor with an overdue invoice under no exception is suspended in the end,
\* whatever runs stop halfway or end each other's lease.
OverdueVendorIsSuspended ==
  SuspendingInvoices(due) # {} ~> suspended \/ SuspendingInvoices(due) = {}
=============================================================================
