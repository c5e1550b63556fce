-------------------------- MODULE MCPaymentRequests --------------------------
(* Instance of PaymentRequests for TLC: two students, one vendor branch. *)
EXTENDS PaymentRequests, TLC

CONSTANTS s1, s2, v1, b1

MCVendorOf == [b \in {b1} |-> v1]
MCOpening ==
  [a \in Accounts |-> IF a \in Students THEN 1
                      ELSE IF a = "GATEWAY_CLEARING" THEN -2 ELSE 0]

\* Identifiers are only ever compared for equality.
Symmetry ==
  Permutations(Keys) \cup Permutations(Sales)
  \cup Permutations(References) \cup Permutations(Tills)
  \cup Permutations(Students)
=============================================================================
