--------------------------- MODULE CredentialMirror ---------------------------
(***************************************************************************)
(* What the portal promises about the lifecycle of a credential: the agent *)
(* decides, and the portal shows a state that the agent was in, never an   *)
(* older one than it showed before, and a revocation for good              *)
(* (docs/system/ARCHITECTURE.md, "Credential lifecycle").                  *)
(***************************************************************************)
EXTENDS Naturals, Sequences

CONSTANT Statuses

VARIABLES
  decided,   \* the agent's transitions; the position of one is its revision
  revision,  \* the revision that the portal shows, 0 before the first
  shown      \* the status of that revision, "NONE" before the first

mirrorVars == <<decided, revision, shown>>

MirrorInit == decided = <<>> /\ revision = 0 /\ shown = "NONE"

Terminal == decided # <<>> /\ decided[Len(decided)] = "REVOKED"

Decide ==
  /\ ~ Terminal
  /\ \E s \in Statuses : decided' = Append(decided, s)
  /\ UNCHANGED <<revision, shown>>

Show ==
  /\ \E r \in revision + 1 .. Len(decided) :
       revision' = r /\ shown' = decided[r]
  /\ UNCHANGED decided

MirrorNext == Decide \/ Show

MirrorSpec == MirrorInit /\ [][MirrorNext]_mirrorVars
=============================================================================
