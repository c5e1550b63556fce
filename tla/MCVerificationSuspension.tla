---------------------- MODULE MCVerificationSuspension ----------------------
(* Instance of VerificationSuspension for TLC. *)
EXTENDS VerificationSuspension

MCRows == 1 .. 4
=============================================================================
