-------------------------- MODULE VendorOnboarding --------------------------
(***************************************************************************)
(* How a vendor comes to accept wallet payments: the application to become *)
(* a verifier (src/src/lib/vendors/applications.ts), the payout account    *)
(* (src/src/lib/vendors/payouts.ts) and the request of each branch for     *)
(* payment access (src/src/lib/payments/branchOnboarding.ts).              *)
(*                                                                         *)
(* One vendor.  Decisions are SERIALIZABLE transactions, one step each,    *)
(* taken on pages that may have been loaded long before; saving a draft    *)
(* reads its status and writes its contents in separate statements.  The   *)
(* university's wallet is enabled.                                         *)
(***************************************************************************)
EXTENDS Naturals, Sequences

CONSTANTS
  Branches,
  References,       \* payout accounts, as the provider names them
  MaxApplications,
  MaxRequests

Applications == 1 .. MaxApplications
Requests == 1 .. MaxRequests
None == 0

ASSUME OnboardingAssumption == None \notin References

ApplicationRecords ==
  [status : {"DRAFT", "PENDING", "APPROVED", "REJECTED", "REVOKED"}, complete : BOOLEAN]

\* "confirmed" is the account on the owner's page when the owner confirmed it.
RequestRecords ==
  [branch : Branches, status : {"PENDING", "APPROVED", "REJECTED", "REVOKED"},
   reference : References, confirmed : References]

VARIABLES
  application,  \* sequence of vendor_application
  savers,       \* drafts about to be written, with what is written
  payout,       \* the saved payout account, or None
  profile,      \* status of vendor_payment_profile
  open,         \* branches that are active
  request,      \* sequence of vendor_branch_payment_application
  acceptance,   \* [Branches -> vendor_branch_payment_acceptance]
  ownerPage,    \* the payout account on the page of the owner
  reviewPage    \* the payout account on the page of the reviewer

onboardingVars ==
  <<application, savers, payout, profile, open, request, acceptance, ownerPage, reviewPage>>

OnboardingTypeOK ==
  /\ application \in Seq(ApplicationRecords) /\ Len(application) \in 0 .. MaxApplications
  /\ savers \in SUBSET [application : Applications, complete : BOOLEAN]
  /\ payout \in References \cup {None}
  /\ profile \in {"NONE", "PENDING", "APPROVED", "SUSPENDED"}
  /\ open \in SUBSET Branches
  /\ request \in Seq(RequestRecords) /\ Len(request) \in 0 .. MaxRequests
  /\ acceptance \in [Branches -> [status : {"NONE", "ACTIVE", "CLOSED"},
                                  request : Requests \cup {None}]]
  /\ ownerPage \in References \cup {None}
  /\ reviewPage \in References \cup {None}

OnboardingInit ==
  /\ application = <<>>
  /\ savers = {}
  /\ payout = None
  /\ profile = "NONE"
  /\ open = Branches
  /\ request = <<>>
  /\ acceptance = [b \in Branches |-> [status |-> "NONE", request |-> None]]
  /\ ownerPage = None
  /\ reviewPage = None

access == <<payout, profile, open, request, acceptance, ownerPage, reviewPage>>

-----------------------------------------------------------------------------
(* The application of the vendor. *)

VendorApproved == \E a \in DOMAIN application : application[a].status = "APPROVED"

\* A new draft takes over the answers of the last decision, but its declaration
\* is made anew.  The partial unique index allows one draft, pending or approved
\* application.
OpenDraft ==
  /\ Len(application) < MaxApplications
  /\ \A a \in DOMAIN application : application[a].status \in {"REJECTED", "REVOKED"}
  /\ application' = Append(application, [status |-> "DRAFT", complete |-> FALSE])
  /\ UNCHANGED <<savers, access>>

\* Saving a step, a document or the declaration, and clearing a document.
ReadDraft(a, complete) ==
  /\ a \in DOMAIN application /\ application[a].status = "DRAFT"
  /\ savers = {}
  /\ savers' = {[application |-> a, complete |-> complete]}
  /\ UNCHANGED <<application, access>>

\* By its identifier only: the application may have been submitted since.
WriteDraft(w) ==
  /\ w \in savers
  /\ application' = [application EXCEPT ![w.application].complete = w.complete]
  /\ savers' = savers \ {w}
  /\ UNCHANGED access

SubmitApplication(a) ==
  /\ a \in DOMAIN application
  /\ application[a].status = "DRAFT" /\ application[a].complete
  /\ application' = [application EXCEPT ![a].status = "PENDING"]
  /\ UNCHANGED <<savers, access>>

ReviewApplication(a, decision) ==
  /\ a \in DOMAIN application /\ application[a].status = "PENDING"
  /\ application' = [application EXCEPT ![a].status = decision]
  /\ UNCHANGED <<savers, access>>

RevokeApplication(a) ==
  /\ a \in DOMAIN application /\ application[a].status = "APPROVED"
  /\ application' = [application EXCEPT ![a].status = "REVOKED"]
  /\ UNCHANGED <<savers, access>>

-----------------------------------------------------------------------------
(* The payout account, the pages that show it, and the state of a branch. *)

SavePayoutDestination(r) ==
  /\ payout' = r
  /\ profile' = IF profile = "NONE" THEN "PENDING" ELSE profile
  /\ UNCHANGED <<application, savers, open, request, acceptance, ownerPage, reviewPage>>

LoadOwnerPage ==
  /\ ownerPage' = payout
  /\ UNCHANGED <<application, savers, payout, profile, open, request, acceptance, reviewPage>>

LoadReviewPage ==
  /\ reviewPage' = payout
  /\ UNCHANGED <<application, savers, payout, profile, open, request, acceptance, ownerPage>>

SetBranchActive(b) ==
  /\ open' = IF b \in open THEN open \ {b} ELSE open \cup {b}
  /\ UNCHANGED <<application, savers, payout, profile, request, acceptance, ownerPage, reviewPage>>

\* By the overdraft monitor (VendorOverdraft), on an approved profile.
SuspendOrReinstate ==
  /\ profile \in {"APPROVED", "SUSPENDED"}
  /\ profile' = IF profile = "APPROVED" THEN "SUSPENDED" ELSE "APPROVED"
  /\ UNCHANGED <<application, savers, payout, open, request, acceptance, ownerPage, reviewPage>>

-----------------------------------------------------------------------------
(* Payment access of a branch. *)

ActiveRequests(b) ==
  {q \in DOMAIN request :
     request[q].branch = b /\ request[q].status \in {"PENDING", "APPROVED"}}

\* What the owner agreed to is what is saved.
OwnerIsCurrent == ownerPage = payout

MayRequest(b) ==
  /\ VendorApproved
  /\ b \in open
  /\ acceptance[b].status # "ACTIVE"
  /\ payout # None /\ ownerPage # None
  /\ OwnerIsCurrent

SubmitRequest(b) ==
  /\ MayRequest(b)
  /\ ActiveRequests(b) = {}
  /\ Len(request) < MaxRequests
  /\ request' = Append(request,
       [branch |-> b, status |-> "PENDING", reference |-> payout, confirmed |-> ownerPage])
  /\ UNCHANGED <<application, savers, payout, profile, open, acceptance, ownerPage, reviewPage>>

\* A pending request for another account than the saved one is confirmed anew.
ReconfirmRequest(b) ==
  /\ MayRequest(b)
  /\ \E q \in ActiveRequests(b) :
       /\ request[q].status = "PENDING"
       /\ request[q].reference # payout
       /\ request' = [request EXCEPT ![q].reference = payout, ![q].confirmed = ownerPage]
  /\ UNCHANGED <<application, savers, payout, profile, open, acceptance, ownerPage, reviewPage>>

\* Faulty variant of AsReviewed: approval only compares the request with what was shown.
AsShown(q) == payout # None /\ request[q].reference = reviewPage

\* The account the reviewer saw and the one requested are both the saved one.
AsReviewed(q) == payout # None /\ reviewPage = payout /\ request[q].reference = payout

ApproveRequest(q) ==
  /\ q \in DOMAIN request /\ request[q].status = "PENDING"
  /\ VendorApproved
  /\ request[q].branch \in open
  /\ AsReviewed(q)
  /\ request' = [request EXCEPT ![q].status = "APPROVED"]
  /\ acceptance' = [acceptance EXCEPT ![request[q].branch] =
       [status |-> "ACTIVE", request |-> q]]
  /\ profile' = IF profile = "SUSPENDED" THEN profile ELSE "APPROVED"
  /\ UNCHANGED <<application, savers, payout, open, ownerPage, reviewPage>>

RejectRequest(q) ==
  /\ q \in DOMAIN request /\ request[q].status = "PENDING"
  /\ request' = [request EXCEPT ![q].status = "REJECTED"]
  /\ UNCHANGED <<application, savers, payout, profile, open, acceptance, ownerPage, reviewPage>>

\* Faulty variant of RevokeAcceptance: the request stays approved.
CloseAcceptance(b) ==
  /\ acceptance[b].status = "ACTIVE"
  /\ acceptance' = [acceptance EXCEPT ![b].status = "CLOSED"]
  /\ UNCHANGED <<application, savers, payout, profile, open, request, ownerPage, reviewPage>>

RevokeAcceptance(b) ==
  /\ acceptance[b].status = "ACTIVE"
  /\ acceptance' = [acceptance EXCEPT ![b].status = "CLOSED"]
  /\ request' = [request EXCEPT ![acceptance[b].request].status = "REVOKED"]
  /\ UNCHANGED <<application, savers, payout, profile, open, ownerPage, reviewPage>>

OnboardingNext ==
  \/ OpenDraft
  \/ \E a \in Applications :
       \/ \E complete \in BOOLEAN : ReadDraft(a, complete)
       \/ SubmitApplication(a)
       \/ \E decision \in {"APPROVED", "REJECTED"} : ReviewApplication(a, decision)
       \/ RevokeApplication(a)
  \/ \E w \in savers : WriteDraft(w)
  \/ \E r \in References : SavePayoutDestination(r)
  \/ LoadOwnerPage \/ LoadReviewPage \/ SuspendOrReinstate
  \/ \E b \in Branches :
       SetBranchActive(b) \/ SubmitRequest(b) \/ ReconfirmRequest(b) \/ RevokeAcceptance(b)
  \/ \E q \in Requests : ApproveRequest(q) \/ RejectRequest(q)

OnboardingSpec == OnboardingInit /\ [][OnboardingNext]_onboardingVars

-----------------------------------------------------------------------------

\* A branch accepts payments exactly while one of its requests is approved, the
\* one its acceptance names, so that closing it leaves none behind.
AcceptanceIsBacked ==
  \A b \in Branches :
    {q \in ActiveRequests(b) : request[q].status = "APPROVED"}
      = IF acceptance[b].status = "ACTIVE" THEN {acceptance[b].request} ELSE {}

\* Access is granted for the payout account that is saved, that the owner
\* confirmed and that the reviewer saw, although each of them decided on a page
\* loaded at another time.
ApprovedAsConfirmed ==
  [][\A q \in DOMAIN request :
       request[q].status # "APPROVED" /\ request'[q].status = "APPROVED" =>
         {payout, reviewPage} = {request[q].confirmed}]_onboardingVars
=============================================================================
