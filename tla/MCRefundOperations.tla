------------------------- MODULE MCRefundOperations -------------------------
(* Instance of RefundOperations for TLC: one vendor branch, two operators. *)
EXTENDS RefundOperations, TLC

CONSTANTS s1, v1, b1

MCVendorOf == [b \in {b1} |-> v1]
MCOpening ==
  [a \in Accounts |-> IF a = s1 THEN 2 ELSE IF a = "GATEWAY_CLEARING" THEN -2 ELSE 0]

\* Identifiers are only ever compared for equality.
Symmetry ==
  Permutations(Keys) \cup Permutations(OpIds) \cup Permutations(Operators)
=============================================================================
