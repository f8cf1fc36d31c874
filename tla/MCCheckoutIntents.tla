-------------------------- MODULE MCCheckoutIntents --------------------------
(* Small instances of CheckoutIntents: two units short of what two full carts  *)
(* need, so that checkouts compete for the last unit.                          *)
EXTENDS CheckoutIntents

CONSTANTS i1, i2, a, b

OneShort == [s \in Sku |-> 1]
OneEach  == [s \in Sku |-> IF s = a THEN 1 ELSE 2]
=============================================================================
