--------------------------- MODULE MCVendorPayouts ---------------------------
(* Instance of VendorPayouts for TLC: a vendor that may be paid out twice. *)
EXTENDS VendorPayouts

CONSTANTS s1, v1

MCVendorOf == [c \in Branches |-> v1]
MCOpening ==
  [a \in Accounts |-> IF a \in {s1, v1} THEN 1
                      ELSE IF a = "GATEWAY_CLEARING" THEN -2 ELSE 0]
=============================================================================
