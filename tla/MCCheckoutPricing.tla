------------------------- MODULE MCCheckoutPricing -------------------------
(* A shop with one category of two products (one legacy, known by names   *)
(* only) and a product filed under a subcategory alone.                    *)
EXTENDS CheckoutPricing

CONSTANTS silkXL, old, chanderi,            \* SKUs
          sarees, dupattas,                 \* names
          c1, s1                            \* ids

const_Items == {silkXL, old, chanderi}

const_Catalog ==
    silkXL   :> [product |-> "A", base |-> 29950 * Paisa, list |-> 41000 * Paisa,
                 categoryId |-> c1, subcategoryId |-> None,
                 category |-> sarees, subcategory |-> None]
 @@ old      :> [product |-> "B", base |-> 45000 * Paisa, list |-> 45000 * Paisa,
                 categoryId |-> None, subcategoryId |-> None,
                 category |-> sarees, subcategory |-> None]
 @@ chanderi :> [product |-> "C", base |-> 64900 * Paisa, list |-> 64900 * Paisa,
                 categoryId |-> None, subcategoryId |-> s1,
                 category |-> None, subcategory |-> dupattas]

const_CategoryName == c1 :> sarees
const_Subcategory  == s1 :> [name |-> dupattas, categoryId |-> c1]

const_Sales == <<
    [id |-> "sale33", scope |-> "categories", ids |-> {c1}, kind |-> "percentage",
     value |-> 33, cap |-> 120 * Rupee],
    [id |-> "flat100", scope |-> "all", ids |-> {}, kind |-> "flat",
     value |-> 100 * Rupee, cap |-> None] >>

const_Promotions == <<
    [id |-> "bogo", scope |-> "categories", ids |-> {}, names |-> {sarees}, kind |-> "bogo",
     buy |-> 1, get |-> 1, pct |-> 100, value |-> 0, cap |-> 0, minOrder |-> 0, priority |-> 1],
    [id |-> "ten", scope |-> "all", ids |-> {}, names |-> {}, kind |-> "percentage",
     buy |-> 1, get |-> 1, pct |-> 100, value |-> 10, cap |-> 90 * Rupee,
     minOrder |-> 800 * Rupee, priority |-> 0],
    [id |-> "pair", scope |-> "subcategories", ids |-> {s1}, names |-> {}, kind |-> "flat",
     buy |-> 2, get |-> 1, pct |-> 100, value |-> 90 * Rupee, cap |-> 0,
     minOrder |-> 0, priority |-> 0] >>

const_Coupons == {
    [id |-> "K15", scope |-> "categories", ids |-> {c1}, names |-> {}, kind |-> "percentage",
     value |-> 15, cap |-> 0, minOrder |-> 600 * Rupee],
    [id |-> "K200", scope |-> "products", ids |-> {"A"}, names |-> {}, kind |-> "fixed",
     value |-> 200 * Rupee, cap |-> 0, minOrder |-> 0] }

\* A customer types a code or has a coupon on the cart, and whether another
\* coupon is active makes no difference. The code typed is the one with a
\* minimum.
const_Init ==
    /\ PricingInit
    /\ cartCoupon # None => typed = None
    /\ typed # None => typed.id = "K15"
    /\ \A c \in Coupons : c.id \in live => c \in {cartCoupon, typed}

MCSpec == const_Init /\ [][PricingNext]_pricingVars
============================================================================
