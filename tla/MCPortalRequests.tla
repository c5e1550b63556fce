-------------------------- MODULE MCPortalRequests --------------------------
(* Instance for TLC of five components that make or answer concurrent        *)
(* requests and share no state: the verifications of a vendor with their     *)
(* charges, wallet sessions, the onboarding of a vendor, invitations, and    *)
(* the recovery of refunds in the browser.  Each behaviour runs one of them, *)
(* chosen at its start; the others stay as they began.                       *)
EXTENDS VendorVerifications, WalletSessions, VendorOnboarding, Invitations, RefundRecovery

CONSTANTS t1, t2, w1, w2

\* Two tabs of one browser, and of two.
MCLayouts == {[t \in Tabs |-> w1], [t \in Tabs |-> IF t = t1 THEN w1 ELSE w2]}

VARIABLE live

requestVars ==
  <<verificationVars, sessionVars, onboardingVars, inviteVars, recoveryVars, live>>

RequestsInit ==
  /\ VerificationInit /\ SessionInit /\ OnboardingInit /\ InviteInit
  /\ RecoveryInit
  /\ live \in {"VERIFICATIONS", "SESSIONS", "ONBOARDING", "INVITATIONS", "REFUNDS"}

VerificationsRun ==
  /\ live = "VERIFICATIONS" /\ VerificationNext
  /\ UNCHANGED <<sessionVars, onboardingVars, inviteVars, recoveryVars, live>>

SessionsRun ==
  /\ live = "SESSIONS" /\ SessionNext
  /\ UNCHANGED <<verificationVars, onboardingVars, inviteVars, recoveryVars, live>>

OnboardingRun ==
  /\ live = "ONBOARDING" /\ OnboardingNext
  /\ UNCHANGED <<verificationVars, sessionVars, inviteVars, recoveryVars, live>>

InvitationsRun ==
  /\ live = "INVITATIONS" /\ InviteNext
  /\ UNCHANGED <<verificationVars, sessionVars, onboardingVars, recoveryVars, live>>

RecoveryRuns ==
  /\ live = "REFUNDS" /\ RecoveryNext
  /\ UNCHANGED <<verificationVars, sessionVars, onboardingVars, inviteVars, live>>

RequestsSpec ==
  /\ RequestsInit
  /\ [][ \/ VerificationsRun \/ SessionsRun \/ OnboardingRun \/ InvitationsRun
         \/ RecoveryRuns ]_requestVars
=============================================================================
