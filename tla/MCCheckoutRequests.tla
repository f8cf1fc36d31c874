------------------------- MODULE MCCheckoutRequests -------------------------
(* Small instances of CheckoutRequests: three requests of one account, of      *)
(* which two carry the same key.                                               *)
EXTENDS CheckoutRequests

CONSTANTS q1, q2, q3, none
=============================================================================
