-------------------------- MODULE MCVendorOverdraft --------------------------
(* Instance of VendorOverdraft for TLC: two vendors with a branch each. *)
EXTENDS VendorOverdraft

CONSTANTS s1, v1, v2, b1, b2

MCVendorOf == [b \in Branches |-> IF b = b1 THEN v1 ELSE v2]
MCOpening ==
  [a \in Accounts |-> IF a = s1 THEN 1 ELSE IF a = "GATEWAY_CLEARING" THEN -1 ELSE 0]
=============================================================================
