------------------------- MODULE VendorVerifications -------------------------
(***************************************************************************)
(* Verifications of a vendor (src/src/lib/vendors/verifications.ts) and    *)
(* the charge for each billable one (src/src/lib/billing/charges.ts), by   *)
(* the live paths and by the scripts that repair them.                     *)
(*                                                                         *)
(* The agent decides a verification; the portal learns of it from a        *)
(* checkout, a poll or the completed event, in any order and more than     *)
(* once.  Each of them reads, asks the agent, writes the row and finalizes *)
(* the charge in separate statements.  One vendor; months are numbered.    *)
(* The agent is external.                                                  *)
(***************************************************************************)
EXTENDS SqlNull, Naturals

CONSTANTS
  Verifications,  \* verification requests at the agent
  Handlers,       \* requests, events and scripts that run at once
  MaxMonths,      \* months that pass
  MaxFailures     \* finalizations that fail or processes that stop

ASSUME VerificationAssumption == MaxMonths \in Nat \ {0} /\ MaxFailures \in Nat

Statuses == {"PENDING", "APPROVED", "DECLINED"}  \* expired and failed are like declined
Proofs == {"UNKNOWN", "YES", "NO"}               \* isVerified; UNKNOWN for null
Billings == {"PENDING", "BILLABLE", "NOT_BILLABLE"}

\* "completed" is the month of completedAt, 0 for null.
Rows ==
  [status : Statuses, proof : Proofs, completed : 0 .. MaxMonths,
   billing : Billings, event : BOOLEAN]

ASSUME VerificationNullAssumption == NULL \notin Rows

Kinds == {"CHECKOUT", "POLL", "EVENT", "RECONCILE", "BACKFILL"}

VARIABLES
  agent,     \* the agent's decision, its proof and the month of it (external)
  row,       \* [Verifications -> row or NULL]
  charge,    \* the month that a verification is charged for, 0 for no charge
  exception, \* verifications with a billing exception for their charge
  month,     \* the current month
  handler,
  failures

verificationVars ==
  <<agent, row, charge, exception, month, handler, failures>>

Agents == [decision : Statuses, proof : Proofs, completed : 0 .. MaxMonths]

HandlerRecords ==
  [phase : {"IDLE", "ASKING", "ANSWERED", "WRITING", "FINALIZING", "CHARGING"},
   kind : Kinds, verification : Verifications \cup {NULL}, status : Statuses,
   proof : Proofs, completed : 0 .. MaxMonths, billing : Billings]

VerificationTypeOK ==
  /\ agent \in [Verifications -> Agents]
  /\ row \in [Verifications -> Rows \cup {NULL}]
  /\ charge \in [Verifications -> 0 .. MaxMonths]
  /\ exception \in SUBSET Verifications
  /\ month \in 1 .. MaxMonths + 1
  /\ handler \in [Handlers -> HandlerRecords]
  /\ failures \in 0 .. MaxFailures

Undecided == [decision |-> "PENDING", proof |-> "UNKNOWN", completed |-> 0]

Idle ==
  [phase |-> "IDLE", kind |-> "POLL", verification |-> NULL, status |-> "PENDING",
   proof |-> "UNKNOWN", completed |-> 0, billing |-> "PENDING"]

VerificationInit ==
  /\ agent = [v \in Verifications |-> Undecided]
  /\ row = [v \in Verifications |-> NULL]
  /\ charge = [v \in Verifications |-> 0]
  /\ exception = {}
  /\ month = 1
  /\ handler = [h \in Handlers |-> Idle]
  /\ failures = 0

-----------------------------------------------------------------------------

NextMonth ==
  /\ month <= MaxMonths
  /\ month' = month + 1
  /\ UNCHANGED <<agent, row, charge, exception, handler, failures>>

\* External: the agent decides.  A proof may be approved and not verified.
Decide(v, decision, proof) ==
  /\ month <= MaxMonths
  /\ agent[v].decision = "PENDING"
  /\ decision = "DECLINED" => proof = "NO"
  /\ agent' = [agent EXCEPT ![v] =
       [decision |-> decision, proof |-> proof, completed |-> month]]
  /\ UNCHANGED <<row, charge, exception, month, handler, failures>>

\* Faulty variant: only the proof is looked at.
BillProof(status, proof, completed) ==
  IF status = "PENDING" THEN "PENDING"
  ELSE IF completed # 0 /\ proof # "NO" THEN "BILLABLE" ELSE "NOT_BILLABLE"

\* resolveVerificationBillingSnapshot
BillingOf(status, proof, completed) ==
  IF status = "PENDING" THEN "PENDING"
  ELSE IF completed # 0 /\ status = "APPROVED" /\ proof # "NO"
       THEN "BILLABLE" ELSE "NOT_BILLABLE"

\* materializedTerminalCompletedAt: as reported, as stored, or now.
Completion(status, reported, stored) ==
  IF reported # 0 THEN reported
  ELSE IF stored # 0 THEN stored
  ELSE IF status # "PENDING" THEN month ELSE 0

\* The agent's answer about the proof, if it answers.
Metadata(v) == {"UNKNOWN", agent[v].proof}

Become(h, record) == handler' = [handler EXCEPT ![h] = record]

Begin(h, v, kind) ==
  /\ handler[h].phase = "IDLE"
  /\ month <= MaxMonths
  /\ Become(h, [Idle EXCEPT !.phase = "ASKING", !.kind = kind, !.verification = v])
  /\ UNCHANGED <<agent, row, charge, exception, month, failures>>

-----------------------------------------------------------------------------
(* The three ways to a decision. *)

\* A checkout is created or repeated.
StartCheckout(h, v) == Begin(h, v, "CHECKOUT")

\* A result that is still pending is refreshed.
StartPoll(h, v) ==
  /\ row[v] # NULL
  /\ row[v].status = "PENDING"
  /\ Begin(h, v, "POLL")

\* The agent answers; its answer may lack the date.
AnswerRequest(h) ==
  LET hd == handler[h]
      a == agent[hd.verification]
  IN /\ hd.phase = "ASKING"
     /\ hd.kind \in {"CHECKOUT", "POLL"}
     /\ \E reported \in {0, a.completed} :
          Become(h, [hd EXCEPT !.phase = "ANSWERED", !.status = a.decision,
                               !.completed = reported])
     /\ UNCHANGED <<agent, row, charge, exception, month, failures>>

\* The event, unless it is stored already.  It carries date and decision, and
\* the proof or not.
ReceiveEvent(h, v) ==
  /\ agent[v].decision # "PENDING"
  /\ ~ (row[v] # NULL /\ row[v].event)
  /\ handler[h].phase = "IDLE"
  /\ month <= MaxMonths
  /\ \E proof \in Metadata(v) :
       Become(h, [Idle EXCEPT !.phase = "WRITING", !.kind = "EVENT", !.verification = v,
                    !.status = agent[v].decision, !.proof = proof,
                    !.completed = agent[v].completed])
  /\ UNCHANGED <<agent, row, charge, exception, month, failures>>

\* createVendorCheckoutSession: a row that exists stays as it is, and is what
\* the charge is finalized from.
UpsertCheckout(h) ==
  LET hd == handler[h]
      v == hd.verification
      completed == Completion(hd.status, hd.completed, 0)
      new == [status |-> hd.status, proof |-> "UNKNOWN", completed |-> completed,
              billing |-> BillingOf(hd.status, "UNKNOWN", completed), event |-> FALSE]
  IN /\ hd.phase = "ANSWERED"
     /\ hd.kind = "CHECKOUT"
     /\ month <= MaxMonths
     /\ row' = [row EXCEPT ![v] = IF @ = NULL THEN new ELSE @]
     /\ Become(h, [hd EXCEPT !.phase = "FINALIZING", !.completed = row'[v].completed,
                             !.billing = row'[v].billing])
     /\ UNCHANGED <<agent, charge, exception, month, failures>>

\* applyAgentResult reads what is stored, then asks for the proof ...
ReadStored(h) ==
  LET hd == handler[h]
      v == hd.verification
  IN /\ hd.phase = "ANSWERED"
     /\ hd.kind = "POLL"
     /\ month <= MaxMonths
     /\ \E proof \in IF hd.status = "PENDING" THEN {"UNKNOWN"} ELSE Metadata(v) :
          LET known == IF proof # "UNKNOWN" THEN proof ELSE row[v].proof
              completed == Completion(hd.status, hd.completed, row[v].completed)
          IN Become(h, [hd EXCEPT !.phase = "WRITING", !.proof = proof,
                          !.completed = completed,
                          !.billing = BillingOf(hd.status, known, completed)])
     /\ UNCHANGED <<agent, row, charge, exception, month, failures>>

\* ... and overwrites the row with the answer, whatever it holds by now.
WriteAnswer(h) ==
  LET hd == handler[h]
      v == hd.verification
  IN /\ hd.phase = "WRITING"
     /\ hd.kind = "POLL"
     /\ row' = [row EXCEPT ![v] =
          [row[v] EXCEPT !.status = hd.status, !.completed = hd.completed, !.billing = hd.billing,
                         !.proof = IF hd.proof # "UNKNOWN" THEN hd.proof ELSE @]]
     /\ Become(h, [hd EXCEPT !.phase = "FINALIZING"])
     /\ UNCHANGED <<agent, charge, exception, month, failures>>

\* recordVerificationCompletedEvent creates the row or overwrites it.
WriteEvent(h) ==
  LET hd == handler[h]
      billing == BillingOf(hd.status, hd.proof, hd.completed)
  IN /\ hd.phase = "WRITING"
     /\ hd.kind = "EVENT"
     /\ row' = [row EXCEPT ![hd.verification] =
          [status |-> hd.status, proof |-> hd.proof, completed |-> hd.completed,
           billing |-> billing, event |-> TRUE]]
     /\ Become(h, [hd EXCEPT !.phase = "FINALIZING", !.billing = billing])
     /\ UNCHANGED <<agent, charge, exception, month, failures>>

-----------------------------------------------------------------------------
(* Repairs, started by hand. *)

\* reconcileVendorVerificationBilling: approved rows that are not billable.
StartReconciliation(h, v) ==
  /\ handler[h].phase = "IDLE"
  /\ month <= MaxMonths
  /\ row[v] # NULL
  /\ row[v].status = "APPROVED"
  /\ row[v].billing # "BILLABLE"
  /\ \E proof \in IF row[v].proof # "UNKNOWN" THEN {row[v].proof} ELSE Metadata(v) :
       LET completed == Completion("APPROVED", 0, row[v].completed)
       IN Become(h, [Idle EXCEPT !.phase = "WRITING", !.kind = "RECONCILE",
                       !.verification = v, !.status = "APPROVED", !.proof = proof,
                       !.completed = completed,
                       !.billing = BillingOf("APPROVED", proof, completed)])
  /\ UNCHANGED <<agent, row, charge, exception, month, failures>>

\* The status is not written.
WriteReconciliation(h) ==
  LET hd == handler[h]
      v == hd.verification
  IN /\ hd.phase = "WRITING"
     /\ hd.kind = "RECONCILE"
     /\ row' = [row EXCEPT ![v] =
          [row[v] EXCEPT !.completed = hd.completed, !.billing = hd.billing,
                         !.proof = IF hd.proof # "UNKNOWN" THEN hd.proof ELSE @]]
     /\ Become(h, [hd EXCEPT !.phase = "FINALIZING"])
     /\ UNCHANGED <<agent, charge, exception, month, failures>>

\* runVerificationBillingBackfill: billable rows without a charge.
StartBackfill(h, v) ==
  /\ handler[h].phase = "IDLE"
  /\ row[v] # NULL
  /\ row[v].billing = "BILLABLE"
  /\ row[v].completed # 0
  /\ charge[v] = 0
  /\ Become(h, [Idle EXCEPT !.phase = "CHARGING", !.kind = "BACKFILL", !.verification = v,
                  !.completed = row[v].completed, !.billing = "BILLABLE"])
  /\ UNCHANGED <<agent, row, charge, exception, month, failures>>

-----------------------------------------------------------------------------
(* finalizeVerificationCharge, from what its caller wrote. *)

\* A charge is never changed: one that contradicts the verification is reported.
FindCharge(h) ==
  LET hd == handler[h]
      v == hd.verification
      billable == hd.billing = "BILLABLE"
  IN /\ hd.phase = "FINALIZING"
     /\ exception' = IF charge[v] # 0 /\ ~ billable THEN exception \cup {v} ELSE exception
     /\ Become(h, IF charge[v] = 0 /\ billable /\ hd.completed # 0
                  THEN [hd EXCEPT !.phase = "CHARGING"] ELSE Idle)
     /\ UNCHANGED <<agent, row, charge, month, failures>>

\* The unique index on the verification decides who creates the charge.
CreateCharge(h) ==
  LET hd == handler[h]
      v == hd.verification
  IN /\ hd.phase = "CHARGING"
     /\ charge' = [charge EXCEPT ![v] =
          IF @ = 0 THEN hd.completed ELSE @]
     /\ Become(h, Idle)
     /\ UNCHANGED <<agent, row, exception, month, failures>>

\* No policy or an error: an exception instead of a charge.
FinalizationFails(h) ==
  LET hd == handler[h]
  IN /\ hd.phase = "CHARGING"
     /\ failures < MaxFailures
     /\ failures' = failures + 1
     /\ exception' = exception \cup {hd.verification}
     /\ Become(h, Idle)
     /\ UNCHANGED <<agent, row, charge, month>>

Crash(h) ==
  /\ handler[h].phase # "IDLE"
  /\ failures < MaxFailures
  /\ failures' = failures + 1
  /\ Become(h, Idle)
  /\ UNCHANGED <<agent, row, charge, exception, month>>

-----------------------------------------------------------------------------

HandlerStep(h) ==
  \/ AnswerRequest(h) \/ UpsertCheckout(h) \/ ReadStored(h) \/ WriteAnswer(h)
  \/ WriteEvent(h) \/ WriteReconciliation(h) \/ FindCharge(h) \/ CreateCharge(h)

Start(h, v) ==
  \/ StartCheckout(h, v) \/ StartPoll(h, v) \/ ReceiveEvent(h, v)
  \/ StartReconciliation(h, v) \/ StartBackfill(h, v)

VerificationNext ==
  \/ NextMonth
  \/ \E v \in Verifications, decision \in {"APPROVED", "DECLINED"}, proof \in {"YES", "NO"} :
       Decide(v, decision, proof)
  \/ \E h \in Handlers :
       \/ HandlerStep(h) \/ FinalizationFails(h) \/ Crash(h)
       \/ \E v \in Verifications : Start(h, v)

VerificationSpec == VerificationInit /\ [][VerificationNext]_verificationVars

-----------------------------------------------------------------------------
(* Properties. *)

Charged == {v \in Verifications : charge[v] # 0}

\* A charge is for a verification that the agent approved, and for a month
\* between its decision and now.
ChargedIsApproved ==
  \A v \in Charged :
    /\ agent[v].decision = "APPROVED"
    /\ charge[v] \in agent[v].completed .. month

\* As long as nothing fails, a row that says billable has its charge or a
\* handler that is about to create it, whichever handler wrote it last.
BillableIsCharged ==
  failures = 0 =>
    \A v \in Verifications :
      row[v] # NULL /\ row[v].billing = "BILLABLE" =>
        \/ v \in Charged
        \/ \E h \in Handlers :
             /\ handler[h].verification = v
             /\ handler[h].phase \in {"FINALIZING", "CHARGING"}
             /\ handler[h].billing = "BILLABLE"

\* Checkouts, polls, duplicated events and scripts together charge a vendor for
\* what the agent approved, and miss nothing unless something fails.
ChargesMatchDecisions ==
  VerificationTypeOK /\ ChargedIsApproved /\ BillableIsCharged
=============================================================================
