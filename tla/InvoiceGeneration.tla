-------------------------- MODULE InvoiceGeneration --------------------------
(***************************************************************************)
(* The monthly invoices of a vendor (src/src/lib/billing/invoices.ts):     *)
(* runs of the generation, by the daily job, an administrator or the       *)
(* vendor's test tool, read which month is due and issue its invoice in a  *)
(* transaction of its own, while charges for any month still arrive.       *)
(*                                                                         *)
(* One vendor and one currency; months are numbered.                       *)
(***************************************************************************)
EXTENDS Naturals, FiniteSetsExt

CONSTANTS
  Charges,    \* charges for verifications
  Runs,       \* runs of the generation at once
  MaxMonths   \* months that pass

ASSUME GenerationAssumption == MaxMonths \in Nat \ {0}

Months == 1 .. MaxMonths

VARIABLES
  month,    \* the current month
  service,  \* [Charges -> month of the service, 0 before the charge is created]
  claim,     \* [Charges -> month of the invoice that claims it, 0 for none]
  issued,   \* months with an invoice
  target    \* [Runs -> the month whose invoice a run is about to issue, 0 for none]

generationVars == <<month, service, claim, issued, target>>

GenerationTypeOK ==
  /\ month \in 1 .. MaxMonths + 1
  /\ service \in [Charges -> 0 .. MaxMonths]
  /\ claim \in [Charges -> 0 .. MaxMonths]
  /\ issued \in SUBSET Months
  /\ target \in [Runs -> 0 .. MaxMonths]

GenerationInit ==
  /\ month = 1
  /\ service = [c \in Charges |-> 0]
  /\ claim = [c \in Charges |-> 0]
  /\ issued = {}
  /\ target = [r \in Runs |-> 0]

NextMonth ==
  /\ month <= MaxMonths
  /\ month' = month + 1
  /\ UNCHANGED <<service, claim, issued, target>>

\* A charge is created when the portal learns of the verification, which may be
\* long after its month.
CreateCharge(c, m) ==
  /\ service[c] = 0
  /\ m <= month
  /\ service' = [service EXCEPT ![c] = m]
  /\ UNCHANGED <<month, claim, issued, target>>

Unclaimed == {c \in Charges : service[c] # 0 /\ claim[c] = 0}
Claimed(m) == {c \in Charges : claim[c] = m}

\* A month is closed when it is over, and its closing delay.
IsClosed(m) == m < month

\* Faulty variant: late charges of invoiced months are forgotten.
ResolveEarliest(r) ==
  LET candidate == Min({service[c] : c \in Unclaimed})
  IN /\ target[r] = 0
     /\ Unclaimed # {}
     /\ IsClosed(candidate)
     /\ target' = [target EXCEPT ![r] = candidate]
     /\ UNCHANGED <<month, service, claim, issued>>

\* resolveNextInvoicePeriodForVendor: the month after the last invoice, or the
\* month of the earliest unclaimed charge if that is later.
ResolvePeriod(r) ==
  LET earliest == Min({service[c] : c \in Unclaimed})
      afterLast == IF issued = {} THEN 0 ELSE Max(issued) + 1
      candidate == Max({earliest, afterLast})
  IN /\ target[r] = 0
     /\ Unclaimed # {}
     /\ IsClosed(candidate)
     /\ target' = [target EXCEPT ![r] = candidate]
     /\ UNCHANGED <<month, service, claim, issued>>

\* Faulty variant: the invoice of the month may exist already.
IssueAgain(r) ==
  LET m == target[r]
      claimable == {c \in Unclaimed : service[c] <= m}
  IN /\ m # 0
     /\ claim' = [c \in Charges |-> IF c \in claimable THEN m ELSE claim[c]]
     /\ issued' = IF claimable = {} THEN issued ELSE issued \cup {m}
     /\ target' = [target EXCEPT ![r] = 0]
     /\ UNCHANGED <<month, service>>

\* issueInvoiceForVendorPeriod, one serializable transaction: every charge up
\* to that month that no invoice claims.  Nothing if there is none, or if
\* another run issued the invoice of the month; that ends the run.
IssuePeriod(r) ==
  LET m == target[r]
      claimable == {c \in Unclaimed : service[c] <= m}
  IN /\ m # 0
     /\ IF claimable = {} \/ m \in issued
        THEN UNCHANGED <<claim, issued>>
        ELSE /\ claim' = [c \in Charges |-> IF c \in claimable THEN m ELSE claim[c]]
             /\ issued' = issued \cup {m}
     /\ target' = [target EXCEPT ![r] = 0]
     /\ UNCHANGED <<month, service>>

Generate(r) == ResolvePeriod(r) \/ IssuePeriod(r)

GenerationNext ==
  \/ NextMonth
  \/ \E c \in Charges, m \in Months : CreateCharge(c, m)
  \/ \E r \in Runs : Generate(r)

\* Months pass, and a generation that is due runs.
GenerationFairness ==
  /\ WF_generationVars(NextMonth)
  /\ \A r \in Runs : WF_generationVars(Generate(r))

GenerationSpec == GenerationInit /\ [][GenerationNext]_generationVars /\ GenerationFairness

-----------------------------------------------------------------------------
(* Properties. *)

\* An invoice is issued once and for all: runs that overlap, each with a month
\* that it read earlier, and charges that arrive late never add a charge to it
\* or take one away.  It is never empty and never bills a month that is not
\* over or a service after its month.
InvoiceContentsFinal ==
  [][ \A m \in issued' :
        /\ Claimed(m)' # {}
        /\ m < month
        /\ \A c \in Claimed(m)' : service'[c] <= m
        /\ m \in issued => Claimed(m)' = Claimed(m) ]_generationVars

\* Every charge is invoiced in the end, a late one with a later month, unless
\* the last month of the model has its invoice.
ChargeIsInvoiced ==
  \A c \in Charges : service[c] # 0 ~> claim[c] # 0 \/ MaxMonths \in issued
=============================================================================
