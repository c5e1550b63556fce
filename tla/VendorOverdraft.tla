--------------------------- MODULE VendorOverdraft ---------------------------
(***************************************************************************)
(* Suspension of overdrawn vendors and their reinstatement                 *)
(* (src/src/lib/vendors/overdraft.ts).  The daily job lists candidates in  *)
(* one query and treats them one by one, each in a serializable            *)
(* transaction of its own that checks again; runs of the job may overlap,  *)
(* wallets move meanwhile, and a run may be cut short.  A completed vendor *)
(* top-up asks for a reinstatement of its own, in a transaction after the  *)
(* one that credited the wallet.                                           *)
(***************************************************************************)
EXTENDS WalletLedger

CONSTANTS
  Jobs,            \* runs of the monitor that may overlap
  SuspensionDays,  \* paymentWalletOverdraftSuspensionDays
  MaxCrashes       \* how often a run is cut short or a follow-up lost

ASSUME OverdraftAssumption ==
  /\ SuspensionDays \in Nat
  /\ MaxCrashes \in Nat
  /\ NULL # "OVERDRAFT"

VARIABLES
  suspensionCode,  \* vendor_payment_profile.suspensionCode
  job,             \* the runs of the monitor
  followUp,        \* vendors whose completed top-up still has to reinstate them
  crashes

overdraftVars == <<suspensionCode, job, followUp, crashes>>
monitorVars == <<ledgerVars, overdraftVars>>

JobRecords ==
  [phase : {"IDLE", "REINSTATING", "SUSPENDING"},
   startedAt : 0 .. MaxTime,
   candidates : SUBSET Vendors]

OverdraftTypeOK ==
  /\ suspensionCode \in [Vendors -> {"OVERDRAFT", NULL}]
  /\ job \in [Jobs -> JobRecords]
  /\ followUp \subseteq Vendors
  /\ crashes \in 0 .. MaxCrashes

MonitorInit ==
  /\ LedgerInit
  /\ suspensionCode = [v \in Vendors |-> NULL]
  /\ job = [j \in Jobs |-> [phase |-> "IDLE", startedAt |-> 0, candidates |-> {}]]
  /\ followUp = {}
  /\ crashes = 0

-----------------------------------------------------------------------------

OverdraftSuspended(v) ==
  profile[v] = "SUSPENDED" /\ suspensionCode[v] = "OVERDRAFT"

\* Faulty variant: the period must be exceeded, so the run of the day on which
\* it ends skips the vendor.
DueAfterPeriod(v, t) ==
  /\ profile[v] = "APPROVED"
  /\ balance[v] < 0
  /\ negativeSince[v] + SuspensionDays < t

\* What both the candidate list and the recheck of a suspension ask, for a run
\* that started at time t.
DueForSuspension(v, t) ==
  /\ profile[v] = "APPROVED"
  /\ balance[v] < 0
  /\ negativeSince[v] + SuspensionDays <= t

\* Faulty variant: a balance of exactly zero does not count as recovered.
DueWhenPositive(v) == OverdraftSuspended(v) /\ balance[v] > 0

DueForReinstatement(v) == OverdraftSuspended(v) /\ balance[v] >= 0

ledgerExceptProfile == <<wtx, balance, negativeSince, branchOpen, walletEnabled, now>>

Reinstate(v) ==
  /\ profile' = [profile EXCEPT ![v] = "APPROVED"]
  /\ suspensionCode' = [suspensionCode EXCEPT ![v] = NULL]

\* reinstateProfile: checks again in its own transaction.
ReinstateIfDue(v) ==
  IF DueForReinstatement(v) THEN Reinstate(v) ELSE UNCHANGED <<profile, suspensionCode>>

-----------------------------------------------------------------------------
(* The monitor: reinstate first, then suspend. *)

StartMonitor(j) ==
  /\ job[j].phase = "IDLE"
  /\ job' = [job EXCEPT ![j] = [phase |-> "REINSTATING", startedAt |-> now,
                                candidates |-> {v \in Vendors : DueForReinstatement(v)}]]
  /\ UNCHANGED <<ledgerVars, suspensionCode, followUp, crashes>>

ReinstateCandidate(j, v) ==
  /\ job[j].phase = "REINSTATING"
  /\ v \in job[j].candidates
  /\ job' = [job EXCEPT ![j].candidates = @ \ {v}]
  /\ ReinstateIfDue(v)
  /\ UNCHANGED <<ledgerExceptProfile, followUp, crashes>>

\* The cutoff is that of the start of the run, not of the query.
ListOverdrawn(j) ==
  /\ job[j].phase = "REINSTATING"
  /\ job[j].candidates = {}
  /\ job' = [job EXCEPT
       ![j].phase = "SUSPENDING",
       ![j].candidates = {v \in Vendors : DueForSuspension(v, job[j].startedAt)}]
  /\ UNCHANGED <<ledgerVars, suspensionCode, followUp, crashes>>

Suspend(v) ==
  /\ profile' = [profile EXCEPT ![v] = "SUSPENDED"]
  /\ suspensionCode' = [suspensionCode EXCEPT ![v] = "OVERDRAFT"]

\* Faulty variant: the listed candidate is suspended without a second look.
SuspendUnchecked(j, v) ==
  /\ job[j].phase = "SUSPENDING"
  /\ v \in job[j].candidates
  /\ job' = [job EXCEPT ![j].candidates = @ \ {v}]
  /\ Suspend(v)
  /\ UNCHANGED <<ledgerExceptProfile, followUp, crashes>>

SuspendCandidate(j, v) ==
  /\ job[j].phase = "SUSPENDING"
  /\ v \in job[j].candidates
  /\ job' = [job EXCEPT ![j].candidates = @ \ {v}]
  /\ IF DueForSuspension(v, job[j].startedAt)
     THEN Suspend(v)
     ELSE UNCHANGED <<profile, suspensionCode>>
  /\ UNCHANGED <<ledgerExceptProfile, followUp, crashes>>

FinishMonitor(j) ==
  /\ job[j].phase = "SUSPENDING"
  /\ job[j].candidates = {}
  /\ job' = [job EXCEPT ![j].phase = "IDLE"]
  /\ UNCHANGED <<ledgerVars, suspensionCode, followUp, crashes>>

\* The function times out, or a candidate's transaction fails: the run ends.
AbortMonitor(j) ==
  /\ crashes < MaxCrashes
  /\ job[j].phase # "IDLE"
  /\ job' = [job EXCEPT ![j].phase = "IDLE", ![j].candidates = {}]
  /\ crashes' = crashes + 1
  /\ UNCHANGED <<ledgerVars, suspensionCode, followUp>>

-----------------------------------------------------------------------------
(* Top-ups. *)

\* A vendor's top-up is credited; the reinstatement comes in a later step.
CompleteVendorTopup(id) ==
  /\ CompleteTopup(id)
  /\ followUp' = IF wtx[id].type = "VENDOR_TOPUP" THEN followUp \cup {wtx[id].credit}
                                                  ELSE followUp
  /\ UNCHANGED <<suspensionCode, job, crashes>>

ReinstateIfRecovered(v) ==
  /\ v \in followUp
  /\ followUp' = followUp \ {v}
  /\ ReinstateIfDue(v)
  /\ UNCHANGED <<ledgerExceptProfile, job, crashes>>

LoseFollowUp(v) ==
  /\ crashes < MaxCrashes
  /\ v \in followUp
  /\ followUp' = followUp \ {v}
  /\ crashes' = crashes + 1
  /\ UNCHANGED <<ledgerVars, suspensionCode, job>>

-----------------------------------------------------------------------------
(* The rest of the system. *)

\* A suspension by the university, for any other reason.
SuspendManually(v) ==
  /\ profile[v] = "APPROVED"
  /\ SetProfile(v, "SUSPENDED")
  /\ UNCHANGED overdraftVars

\* Payouts stand for everything that overdraws a vendor, refunds included.
WalletsMove ==
  /\ \/ \E id \in TxIds, a \in Amounts, k \in Keys :
          \/ \E v \in Vendors : PostPayout(id, v, a, k)
          \/ \E v \in Vendors :
               /\ profile[v] = "APPROVED" \/ OverdraftSuspended(v)
               /\ StartTopup(id, v, a, k)
          \/ \E s \in Students, b \in Branches : SubmitWalletPayment(id, s, b, a, k)
     \/ Tick
  /\ UNCHANGED overdraftVars

MonitorNext ==
  \/ \E j \in Jobs :
       \/ StartMonitor(j)
       \/ \E v \in Vendors : ReinstateCandidate(j, v) \/ SuspendCandidate(j, v)
       \/ ListOverdrawn(j)
       \/ FinishMonitor(j)
       \/ AbortMonitor(j)
  \/ \E id \in TxIds : CompleteVendorTopup(id)
  \/ \E v \in Vendors :
       \/ ReinstateIfRecovered(v)
       \/ LoseFollowUp(v)
       \/ SuspendManually(v)
  \/ WalletsMove

\* The platform starts the job every day, and a run that is not cut short gets
\* through its candidates.  Nothing else is fair: top-ups and sales may never
\* happen, and a follow-up may be lost.
MonitorStep(j) ==
  \/ StartMonitor(j)
  \/ \E v \in Vendors : ReinstateCandidate(j, v) \/ SuspendCandidate(j, v)
  \/ ListOverdrawn(j)
  \/ FinishMonitor(j)

MonitorFairness == \A j \in Jobs : WF_monitorVars(MonitorStep(j))

MonitorSpec == MonitorInit /\ [][MonitorNext]_monitorVars /\ MonitorFairness

-----------------------------------------------------------------------------
(* Properties. *)

SuspensionStep(v) ==
  OverdraftSuspended(v)' /\ ~ OverdraftSuspended(v) =>
    /\ balance[v] < 0
    /\ negativeSince[v] + SuspensionDays <= now

ReinstatementStep(v) ==
  profile[v] = "SUSPENDED" /\ profile'[v] # "SUSPENDED" =>
    /\ suspensionCode[v] = "OVERDRAFT"
    /\ balance[v] >= 0

\* E2 to E4: whatever moved between the list of candidates and the update, a
\* vendor is suspended for an overdraft only in a step that finds it overdrawn
\* without interruption for the whole period, and reinstated only in one that
\* finds it recovered; a suspension by the university is never lifted.
SuspensionsJustified ==
  [][\A v \in Vendors : SuspensionStep(v) /\ ReinstatementStep(v)]_monitorVars

\* E2: a vendor overdrawn for the whole period is suspended, unless its
\* balance recovers first, whatever runs were cut short before.
OverdrawnVendorIsSuspended ==
  \A v \in Vendors :
    (balance[v] < 0 /\ negativeSince[v] + SuspensionDays <= now)
      ~> (balance[v] >= 0 \/ profile[v] # "APPROVED")

\* E3: a vendor suspended for an overdraft that has recovered is reinstated,
\* also when the follow-up of its top-up is lost, unless it is overdrawn again.
RecoveredVendorIsReinstated ==
  \A v \in Vendors :
    (OverdraftSuspended(v) /\ balance[v] >= 0)
      ~> (~ OverdraftSuspended(v) \/ balance[v] < 0)
=============================================================================
