---------------------------- MODULE MCGiftOrders ----------------------------
(* One order: of a checkout, with stock for it to be reserved twice, or of a   *)
(* gifting request.                                                            *)
EXTENDS GiftOrders

CONSTANTS o1, a, b, custom

TwoEach == [s \in Sku |-> IF s = custom THEN 0 ELSE 2]
=============================================================================
