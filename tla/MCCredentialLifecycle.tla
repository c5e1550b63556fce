------------------------ MODULE MCCredentialLifecycle ------------------------
(* Instance of CredentialLifecycle for TLC: its constants are all given by the *)
(* configuration.                                                             *)
EXTENDS CredentialLifecycle
=============================================================================
