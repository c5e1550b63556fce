------------------------ MODULE MCCredentialRenewals -------------------------
(* Instance of CredentialRenewals for TLC: its constants are all given by the *)
(* configuration.                                                            *)
EXTENDS CredentialRenewals
=============================================================================
