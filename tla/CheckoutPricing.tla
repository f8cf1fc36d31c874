--------------------------- MODULE CheckoutPricing ---------------------------
(***************************************************************************)
(* One checkout and the offers it meets.  A cart checkout prices the bag   *)
(* three times: for the cart it shows (hydration), to see whether the      *)
(* shown prices still stand (revalidation), and for the order; the lines   *)
(* of the order are priced once more when they are built.  Coupon and      *)
(* promotion are computed for the cart and again for the order.  Between   *)
(* two of these the code awaits, an offer may start or end, and the        *)
(* customer may change the bag in another tab.                             *)
(***************************************************************************)
EXTENDS Pricing

CONSTANTS
    MaxUnits,     \* units in a bag
    MaxChanges    \* changes to offers and bag during the checkout

OfferIds == {Sales[k].id : k \in DOMAIN Sales}
              \cup {Promotions[k].id : k \in DOMAIN Promotions}
              \cup {c.id : c \in Coupons}

VARIABLES
    bag,       \* units of each SKU
    live,      \* the offers that are active now
    cartCoupon, \* the coupon on the cart
    typed,     \* the code in the checkout request, if any
    buyNow,    \* whether this is a buy-now request, which leaves the cart alone
    stage,     \* where the checkout is
    shown,     \* the cart (or buy-now preview) the customer sees
    quote,     \* what the checkout has computed so far
    order,     \* the order
    offerChanges, bagChanges

pricingVars == <<bag, live, cartCoupon, typed, buyNow, stage, shown, quote, order,
                 offerChanges, bagChanges>>

Stages == {"browsing", "shown", "checked", "priced", "couponed", "totalled",
           "placed", "refused"}

Units(b) == Total(b, Items)
Bags == {b \in [Items -> 0 .. MaxUnits] : Units(b) <= MaxUnits}

Prices(offers) == [i \in Items |-> SellPrice(i, offers, TRUE)]
LinePrices(lines) == [i \in DOMAIN lines |-> lines[i].price]

NoCart  == [prices |-> <<>>, promotion |-> 0, promotionDiscount |-> 0,
            couponDiscount |-> 0, total |-> 0, hint |-> NoHint]
NoQuote == [lines |-> <<>>, coupon |-> None, couponDiscount |-> 0, promotion |-> 0,
            promotionDiscount |-> 0, method |-> "cod"]
NoOrder == [prices |-> <<>>, bag |-> <<>>, subtotal |-> 0, discount |-> 0,
            saleDiscount |-> 0, couponDiscount |-> 0, coupon |-> None, promotion |-> 0,
            shipping |-> 0, codFee |-> 0, total |-> 0]

PricingInit ==
    /\ bag \in Bags
    /\ live \in SUBSET OfferIds
    /\ cartCoupon \in Coupons \cup {None}
    /\ typed \in Coupons \cup {None}
    /\ buyNow \in BOOLEAN
    \* A buy-now request names one SKU and its quantity.
    /\ buyNow => Cardinality({i \in Items : bag[i] > 0}) = 1 /\ cartCoupon = None
    /\ stage = "browsing"
    /\ shown = NoCart /\ quote = NoQuote /\ order = NoOrder
    /\ offerChanges = 0 /\ bagChanges = 0

---------------------------------------------------------------------------
(* What goes on around the checkout. *)

\* A campaign, a promotion or a coupon starts or ends.
OfferChanges(o) ==
    /\ stage \notin {"browsing", "placed", "refused"}
    /\ offerChanges + bagChanges < MaxChanges
    /\ live' = IF o \in live THEN live \ {o} ELSE live \cup {o}
    /\ offerChanges' = offerChanges + 1
    /\ UNCHANGED <<bag, cartCoupon, typed, buyNow, stage, shown, quote, order, bagChanges>>

\* The customer changes a quantity, which the checkout may or may not see.
BagChanges(i, n) ==
    /\ stage \in {"shown", "checked", "priced"} /\ ~buyNow
    /\ offerChanges + bagChanges < MaxChanges
    /\ n # bag[i] /\ [bag EXCEPT ![i] = n] \in Bags
    /\ bag' = [bag EXCEPT ![i] = n]
    /\ bagChanges' = bagChanges + 1
    /\ UNCHANGED <<live, cartCoupon, typed, buyNow, stage, shown, quote, order, offerChanges>>

---------------------------------------------------------------------------
(* The checkout. *)

Refuse ==
    /\ stage' = "refused"
    /\ UNCHANGED <<bag, live, cartCoupon, typed, buyNow, shown, quote, order,
                   offerChanges, bagChanges>>

\* hydrateTotals: reprice, best promotion or a hint, coupon or none.  A coupon
\* that earns nothing is taken off the cart.
HydratedCart(b, offers, c) ==
    LET lines == Lines(b, Prices(offers))
        best == PickBest(offers, lines)
        promo == IF best = 0 THEN 0 ELSE PromotionDiscount(Promotions[best], lines)
        off == IF c = None THEN 0 ELSE CouponValue(c, offers, lines)
    IN  [prices |-> LinePrices(lines),
         promotion |-> best,
         promotionDiscount |-> promo,
         couponDiscount |-> off,
         total |-> AtLeastZero(Subtotal(lines) - (promo + off)),
         hint |-> IF best = 0 THEN PickHint(offers, lines) ELSE NoHint]

HydrateCart ==
    /\ stage = "browsing" /\ ~buyNow
    /\ shown' = HydratedCart(bag, live, cartCoupon)
    /\ cartCoupon' = IF shown'.couponDiscount > 0 THEN cartCoupon ELSE None
    /\ stage' = "shown"
    /\ UNCHANGED <<bag, live, typed, buyNow, quote, order, offerChanges, bagChanges>>

\* assertCartReadyForCheckout prices the shown lines without the names that
\* hydration looks up.
LivePriceForgetsSales(i) == Catalog[i].list
LivePrice(i) == SellPrice(i, live, FALSE)

PricesStand == \A i \in DOMAIN shown.prices : shown.prices[i] = LivePrice(i)

Revalidate ==
    /\ stage = "shown" /\ ~buyNow
    /\ DOMAIN shown.prices # {} /\ PricesStand
    /\ stage' = "checked"
    /\ UNCHANGED <<bag, live, cartCoupon, typed, buyNow, shown, quote, order,
                   offerChanges, bagChanges>>

RefuseEmptyCart ==
    /\ \/ stage = "shown" /\ ~buyNow /\ DOMAIN shown.prices = {}
       \/ stage = "checked" /\ Units(bag) = 0
    /\ Refuse

RefusePrices ==
    /\ stage = "shown" /\ ~buyNow
    /\ ~PricesStand
    /\ Refuse

\* The rest of processCartItems: the cart is read again and priced again.
PriceCart ==
    /\ stage = "checked" /\ Units(bag) > 0
    /\ quote' = [quote EXCEPT !.lines = Lines(bag, Prices(live))]
    /\ stage' = "priced"
    /\ UNCHANGED <<bag, live, cartCoupon, typed, buyNow, shown, order, offerChanges, bagChanges>>

\* previewBuyNowCheckout, then processBuyNowItem for the same request.
PreviewBuyNow ==
    /\ stage = "browsing" /\ buyNow
    /\ shown' = HydratedCart(bag, live, None)
    /\ stage' = "shown"
    /\ UNCHANGED <<bag, live, cartCoupon, typed, buyNow, quote, order, offerChanges, bagChanges>>

PriceBuyNow ==
    /\ stage = "shown" /\ buyNow
    /\ quote' = [quote EXCEPT !.lines = Lines(bag, Prices(live))]
    /\ stage' = "priced"
    /\ UNCHANGED <<bag, live, cartCoupon, typed, buyNow, shown, order, offerChanges, bagChanges>>

\* evaluateCouponForOrder: a typed code must be valid; the cart's coupon is
\* looked at only if it earned something in the cart that was read.
TypedValue == CouponValue(typed, live, quote.lines)
CartCouponValue ==
    IF cartCoupon # None /\ shown.couponDiscount > 0
    THEN CouponValue(cartCoupon, live, quote.lines) ELSE 0

EvaluateCoupon ==
    /\ stage = "priced"
    /\ typed # None => TypedValue > 0
    /\ LET c   == IF typed # None THEN typed ELSE cartCoupon
           off == IF typed # None THEN TypedValue ELSE CartCouponValue
       IN  quote' = [quote EXCEPT !.couponDiscount = off,
                                  !.coupon = IF off > 0 THEN c.id ELSE None]
    /\ stage' = "couponed"
    /\ UNCHANGED <<bag, live, cartCoupon, typed, buyNow, shown, order, offerChanges, bagChanges>>

RefuseCode ==
    /\ stage = "priced"
    /\ typed # None /\ TypedValue = 0
    /\ Refuse

\* The live promotion and the totals.  The order is attributed to the cart's
\* promotion if none applies any more.
ResolvePromotion(method) ==
    /\ stage = "couponed"
    /\ LET best == PickBest(live, quote.lines)
       IN  quote' = [quote EXCEPT
                !.promotion = IF best # 0 THEN best ELSE IF buyNow THEN 0 ELSE shown.promotion,
                !.promotionDiscount =
                    IF best = 0 THEN 0 ELSE PromotionDiscount(Promotions[best], quote.lines),
                !.method = method]
    /\ stage' = "totalled"
    /\ UNCHANGED <<bag, live, cartCoupon, typed, buyNow, shown, order, offerChanges, bagChanges>>

QuoteBag == [i \in Items |-> IF i \in DOMAIN quote.lines THEN quote.lines[i].qty ELSE 0]

\* validateAndBuildItems prices the order's lines from the catalog once more.
BuiltWithoutNames == [i \in DOMAIN quote.lines |-> SellPrice(i, live, FALSE)]
BuiltFromList == [i \in DOMAIN quote.lines |-> Catalog[i].list]
BuiltPrices == [i \in DOMAIN quote.lines |-> SellPrice(i, live, TRUE)]

\* The amounts come from the quote, the lines' prices from the last pricing.
PlaceOrder ==
    /\ stage = "totalled"
    /\ LET subtotal == Subtotal(quote.lines)
           discount == quote.promotionDiscount + quote.couponDiscount
           sums     == OrderTotals(subtotal, discount, quote.method)
       IN  order' = [prices |-> BuiltPrices,
                     bag |-> QuoteBag,
                     subtotal |-> subtotal,
                     discount |-> Round(discount),
                     saleDiscount |-> AtLeastZero(Round(CatalogSubtotal(QuoteBag) - subtotal)),
                     couponDiscount |-> quote.couponDiscount,
                     coupon |-> quote.coupon,
                     promotion |-> quote.promotion,
                     shipping |-> sums.shipping,
                     codFee |-> sums.codFee,
                     total |-> sums.total]
    /\ stage' = "placed"
    /\ UNCHANGED <<bag, live, cartCoupon, typed, buyNow, shown, quote, offerChanges, bagChanges>>

PricingNext ==
    \/ \E o \in OfferIds : OfferChanges(o)
    \/ \E i \in Items, n \in 0 .. MaxUnits : BagChanges(i, n)
    \/ HydrateCart \/ Revalidate \/ RefuseEmptyCart \/ RefusePrices \/ PriceCart
    \/ PreviewBuyNow \/ PriceBuyNow
    \/ EvaluateCoupon \/ RefuseCode
    \/ \E method \in {"cod", "razorpay"} : ResolvePromotion(method)
    \/ PlaceOrder

PricingSpec == PricingInit /\ [][PricingNext]_pricingVars

---------------------------------------------------------------------------
(* Properties. *)

(* If nothing changes on the way, the order costs what the cart showed plus  *)
(* the fees, line by line, with the same promotion and coupon, although each *)
(* is computed again by other code (hydrateTotals, the buy-now preview;      *)
(* processCartItems, evaluateCouponForOrder, validateAndBuildItems).         *)
ShownIsCharged ==
    stage = "placed" /\ offerChanges + bagChanges = 0 /\ typed = None =>
        /\ order.total = shown.total + order.shipping + order.codFee
        /\ order.prices = shown.prices
        /\ order.promotion = shown.promotion
        /\ order.couponDiscount = shown.couponDiscount

(* The parts of an order agree, whatever the customer changed meanwhile: the *)
(* sale discount is what campaigns took off the list prices, and the lines   *)
(* add up to the subtotal unless an offer changed between the two pricings.  *)
OrderAddsUp ==
    stage = "placed" =>
        /\ order.subtotal + order.saleDiscount = CatalogSubtotal(order.bag)
        /\ order.couponDiscount > 0 <=> order.coupon # None
        /\ offerChanges = 0 =>
              order.subtotal = Total([i \in DOMAIN order.prices |-> order.prices[i] * order.bag[i]],
                                     DOMAIN order.prices)

(* Reference for buy-some-get-some: of all choices of the units that complete *)
(* sets entitle to, the one that costs the shop least.                       *)
LeastBogo(p, lines) ==
    LET units == UnitPrices(p, lines)
        entitled == (Len(units) \div (p.buy + p.get)) * p.get
        worth(S) == MapThenSumSet(LAMBDA n : Percent(units[n], p.pct), S)
        worths == {worth(S) : S \in kSubset(entitled, DOMAIN units)}
    IN  Round(CHOOSE w \in worths : \A v \in worths : w <= v)

\* Reference for a promotion: what its terms say, nothing unless they are met.
ByItsTerms(p, lines) ==
    LET base == EligibleSubtotal(p, lines)
        met  == EligibleQuantity(p, lines) >= p.buy /\ base >= p.minOrder
        off  == CASE p.kind = "bogo" -> LeastBogo(p, lines)
                  [] p.kind = "flat" -> p.value
                  [] p.kind = "percentage" /\ p.cap = 0 -> Round(Percent(base, p.value))
                  [] p.kind = "percentage" /\ p.cap > 0 -> Lesser(p.cap, Round(Percent(base, p.value)))
    IN  IF met THEN Lesser(off, base) ELSE 0

(* The promotion on a cart is the best live one by its terms, and among      *)
(* equals one of the highest priority; pickBestPromotion walks the list once. *)
BestPromotionApplied ==
    stage = "shown" /\ offerChanges + bagChanges = 0 =>
        LET lines == Lines(bag, Prices(live))
            worth == [k \in DOMAIN Promotions |->
                         IF Promotions[k].id \in live THEN ByItsTerms(Promotions[k], lines) ELSE 0]
        IN  /\ \A k \in DOMAIN Promotions : worth[k] <= shown.promotionDiscount
            /\ shown.promotion # 0 =>
                  /\ worth[shown.promotion] = shown.promotionDiscount
                  /\ \A k \in DOMAIN Promotions :
                        worth[k] = shown.promotionDiscount
                          => Promotions[k].priority <= Promotions[shown.promotion].priority

\* The bag with more of one SKU.
Add(b, i, n) == [b EXCEPT ![i] = @ + n]
Fits(offer, i) == LineMatches(offer, CouponLine(i, Catalog[i].list, 1))

(* Who follows a hint to a promotion gets it or is told the next condition:  *)
(* pieces lead to the discount or to an amount, an amount of eligible goods  *)
(* to the discount. A buy-some-get-some offer with a minimum order is left   *)
(* out: its hint never mentions the minimum.                                 *)
PromotionHintUnlocks ==
    LET price == Prices(live)
        after(i, n) == Lines(Add(bag, i, n), price)
    IN  \A k \in DOMAIN Promotions :
          LET p == Promotions[k] IN
          p.id = shown.hint.offer /\ ~(p.kind = "bogo" /\ p.minOrder > 0) =>
             \A i \in {j \in Items : Fits(p, j)} :
                /\ shown.hint.add = "items" =>
                     \/ PromotionDiscount(p, after(i, shown.hint.amount)) > 0
                     \/ ProgressHint(p, after(i, shown.hint.amount)).add = "rupees"
                /\ \A n \in 1 .. MaxUnits :
                     shown.hint.add = "rupees" /\ price[i] * n >= shown.hint.amount =>
                        PromotionDiscount(p, after(i, n)) > 0

(* Who follows the hint of a coupon meets the condition it was refused for,  *)
(* with any bag and any live offers.                                         *)
CouponHintUnlocks ==
    LET price == Prices(live)
        after(i, n) == Lines(Add(bag, i, n), price)
    IN  \A c \in {WithNames(d) : d \in Coupons} :
          LET h == CouponHint(c, live, Lines(bag, price)) IN
          \A i \in {j \in Items : Fits(c, j)}, n \in 1 .. MaxUnits :
             LET then == CouponVerdict(c, live, after(i, n)) IN
             /\ h.add = "rupees" /\ price[i] * n >= h.amount => then # "min_order"
             /\ h.add = "scope" => then # "scope_mismatch"
             /\ h.add = "above" /\ price[i] > h.amount => then = "valid"

(* Hints are kept, as the cart shows them.                                   *)
HintUnlocks ==
    stage = "shown" /\ offerChanges + bagChanges = 0 =>
        PromotionHintUnlocks /\ CouponHintUnlocks

\* Whether a shown price is not the live one, named products included.
Diverged == \E i \in DOMAIN shown.prices : shown.prices[i] # SellPrice(i, live, TRUE)

\* A product whose category ids are stored, or that has no category name.
Filed(i) == /\ Catalog[i].categoryId = None => Catalog[i].category = None
            /\ Catalog[i].subcategoryId = None => Catalog[i].subcategory = None

(* A cart of filed products is refused for its prices exactly when one of    *)
(* them is no longer the live price.  For a product that has only the name   *)
(* of its category the code's own comment (Throws 409 when stored cart line  *)
(* prices diverge from live catalog prices) holds in neither direction.      *)
RefusedExactlyWhenDue ==
    [][(RefusePrices \/ Revalidate) /\ (\A i \in DOMAIN shown.prices : Filed(i))
          => (RefusePrices <=> Diverged)]_pricingVars

=============================================================================
