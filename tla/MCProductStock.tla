--------------------------- MODULE MCProductStock ---------------------------
(* Three sales that overlap in their variants, one of which asks for the same  *)
(* variant twice, so that its own check passes and its second line may not;    *)
(* that sale with an adjustment or a form and the job around it; and           *)
(* deliveries with two changes.                                                *)
EXTENDS ProductStock

CONSTANTS s1, s2, s3, a, b

Baskets == [s \in Sale |-> IF s = s1 THEN <<a, b>> ELSE IF s = s2 THEN <<b, a>> ELSE <<a, a>>]
Shelf == [k \in Sku |-> IF k = a THEN 2 ELSE 1]

Scenarios == {
    [sales |-> {s1, s2, s3}, receipts |-> {}, drift |-> 0, changes |-> 0],
    [sales |-> {s3}, receipts |-> {}, drift |-> 1, changes |-> 1],
    [sales |-> {}, receipts |-> {1, 2}, drift |-> 1, changes |-> 2]}
=============================================================================
