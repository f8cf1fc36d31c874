------------------------- MODULE MCCouponRedemption -------------------------
(* Small instance of CouponRedemption: two checkouts of one user and one of    *)
(* another compete for a coupon limited to one or two uses.                    *)
EXTENDS CouponRedemption, TLC

CONSTANTS o1, o2, o3, u1, u2

Owner == [o \in Checkout |-> IF o = o3 THEN u2 ELSE u1]

SameUser == Permutations({o1, o2})
=============================================================================
