------------------------------ MODULE Pricing ------------------------------
(***************************************************************************)
(* What a bag costs: sale campaigns on units, the promotion that applies   *)
(* by itself, and the coupon on the cart or typed at checkout.  The rules  *)
(* are operators; the module CheckoutPricing puts them in the order in     *)
(* which a cart view and a checkout use them.                              *)
(*                                                                         *)
(* Amounts are hundredths of a paisa, so that a percentage of a price in   *)
(* whole paise is exact, as it is kept (unrounded) for coupons.            *)
(***************************************************************************)
EXTENDS Integers, Sequences, FiniteSets, SequencesExt, Totals

CONSTANTS
    Items,           \* SKUs
    Catalog,         \* what the stored product says of each
    CategoryName,    \* id -> name of the stored categories
    Subcategory,     \* id -> [name, categoryId] of the stored subcategories
    Sales,           \* campaigns, in the order the query returns them
    Promotions,      \* promotions, in the order of their cached list
    Coupons,         \* the coupons of the instance
    None             \* an absent id or name

Paisa == 100
Rupee == 100 * Paisa

(***************************************************************************)
(* The assumptions on the stored data: prices are whole paise, an absent   *)
(* name is nobody's, a coupon has an id and no discount is negative (the   *)
(* schemas' min), a promotion asks for at least one piece and gives one,   *)
(* and a coupon's or promotion's limit that is not set is zero, which the  *)
(* code reads the same way.                                                *)
(***************************************************************************)
ASSUME CatalogAssumption ==
    /\ IsFiniteSet(Items)
    /\ \A i \in Items : /\ Catalog[i].base \in Nat /\ Catalog[i].base % Paisa = 0
                        /\ Catalog[i].list \in Nat /\ Catalog[i].list % Paisa = 0

ASSUME NameAssumption ==
    /\ \A c \in DOMAIN CategoryName : CategoryName[c] # None
    /\ \A s \in DOMAIN Subcategory : Subcategory[s].name # None

ASSUME OfferAssumption ==
    /\ DOMAIN Sales \subseteq Nat \ {0}
    /\ \A k \in DOMAIN Sales :
          /\ Sales[k].kind \in {"percentage", "flat", "fixed"}
          /\ Sales[k].value \in Nat
          /\ Sales[k].cap = None \/ Sales[k].cap \in Nat
          /\ Sales[k].kind = "percentage" => Sales[k].value <= 100
    /\ DOMAIN Promotions \subseteq Nat \ {0} /\ IsFiniteSet(DOMAIN Promotions)
    /\ \A k, l \in DOMAIN Promotions : Promotions[k].id = Promotions[l].id => k = l
    /\ \A k \in DOMAIN Promotions :
          /\ Promotions[k].kind \in {"bogo", "flat", "percentage"}
          /\ Promotions[k].buy \in Nat \ {0} /\ Promotions[k].get \in Nat \ {0}
          /\ Promotions[k].value \in Nat /\ Promotions[k].cap \in Nat
          /\ Promotions[k].minOrder \in Nat /\ Promotions[k].priority \in Int
    /\ \A c \in Coupons :
          /\ DOMAIN c = {"id", "scope", "ids", "names", "kind", "value", "cap", "minOrder"}
          /\ c.kind \in {"percentage", "flat", "fixed"}
          /\ c.scope \in {"all", "products", "categories", "subcategories"}
          /\ c.id # None /\ c.value \in Nat /\ c.minOrder \in Int

\* The smaller and the larger of two amounts (Math.min, Math.max).
Lesser(a, b) == IF a <= b THEN a ELSE b
AtLeastZero(a) == IF a < 0 THEN 0 ELSE a

\* A percentage of an amount in whole paise; Math.round(a * 100) / 100.
Percent(a, pct) == (a \div Paisa) * pct
Round(a) == ((a + Paisa \div 2) \div Paisa) * Paisa

---------------------------------------------------------------------------
(* Sale campaigns. *)

CategoryNamed(n) ==
    IF \E c \in DOMAIN CategoryName : CategoryName[c] = n
    THEN CHOOSE c \in DOMAIN CategoryName : CategoryName[c] = n
    ELSE None

SubcategoryNamed(n) ==
    IF \E s \in DOMAIN Subcategory : Subcategory[s].name = n
    THEN CHOOSE s \in DOMAIN Subcategory : Subcategory[s].name = n
    ELSE None

\* The ids a campaign is compared with.  `named' is whether the caller built
\* the context that finds ids for products that only have names.
ScopeIds(i, named) ==
    LET p == Catalog[i]
        found(id, other) == IF id = None /\ named THEN other ELSE id
    IN  [product       |-> p.product,
         categoryId    |-> found(p.categoryId, CategoryNamed(p.category)),
         subcategoryId |-> found(p.subcategoryId, SubcategoryNamed(p.subcategory))]

CampaignMatches(s, i, named) ==
    LET ids == ScopeIds(i, named)
    IN  \/ s.scope = "all"
        \/ s.scope = "products" /\ ids.product \in s.ids
        \/ s.scope = "categories" /\ ids.categoryId \in s.ids
        \/ s.scope = "subcategories" /\ ids.subcategoryId \in s.ids

ApplyCampaign(price, s) ==
    LET part == Percent(price, s.value)
        off == IF s.kind = "percentage"
                 THEN IF s.cap = None THEN part ELSE Lesser(part, s.cap)
               ELSE IF s.kind = "fixed" THEN price - Lesser(price, s.value)
               ELSE s.value
    IN  AtLeastZero(Round(price - off))

\* The campaign that prices a product: lowest on its base price, the first
\* of equals, and none that does not lower it; 0 if there is none.
Winner(i, live, named) ==
    LET base == Catalog[i].base
        lower == {k \in DOMAIN Sales :
                     /\ Sales[k].id \in live
                     /\ CampaignMatches(Sales[k], i, named)
                     /\ ApplyCampaign(base, Sales[k]) < base}
        at(k) == ApplyCampaign(base, Sales[k])
    IN  IF lower = {} THEN 0
        ELSE CHOOSE k \in lower :
                \A l \in lower : at(k) < at(l) \/ (at(k) = at(l) /\ k <= l)

\* The winner of the product's price is applied to the variant's.
SellPrice(i, live, named) ==
    LET k == Winner(i, live, named)
    IN  IF k = 0 THEN Catalog[i].list ELSE ApplyCampaign(Catalog[i].list, Sales[k])

---------------------------------------------------------------------------
(* Lines, and which of them an offer is about. *)

\* The category of a line: stored, that of the subcategory its name stands
\* for, the one its name stands for, or the parent of its subcategory.
LineCategory(i) ==
    LET p == Catalog[i]
        sub == ScopeIds(i, TRUE).subcategoryId
        parent == IF sub = None THEN None ELSE Subcategory[sub].categoryId
        named == CategoryNamed(p.category)
    IN  CASE p.categoryId # None                 -> p.categoryId
          [] OTHER ->
               IF p.subcategoryId = None /\ sub # None THEN parent
               ELSE IF named # None THEN named ELSE parent

CouponLine(i, price, qty) ==
    [product |-> Catalog[i].product,
     categoryId |-> LineCategory(i),
     subcategoryId |-> ScopeIds(i, TRUE).subcategoryId,
     category |-> Catalog[i].category,
     subcategory |-> Catalog[i].subcategory,
     price |-> price, qty |-> qty]

\* The lines of a bag at the prices given, one per SKU in it.
Lines(bag, price) ==
    [i \in {j \in Items : bag[j] > 0} |-> CouponLine(i, price[i], bag[i])]

Subtotal(lines) ==
    Total([i \in DOMAIN lines |-> lines[i].price * lines[i].qty], DOMAIN lines)

\* A category scope also accepts a subcategory of the same name.
LineMatches(offer, line) ==
    \/ offer.scope = "all"
    \/ offer.scope = "products" /\ line.product \in offer.ids
    \/ /\ offer.scope = "categories"
       /\ \/ line.categoryId \in offer.ids
          \/ {line.category, line.subcategory} \cap offer.names # {}
    \/ /\ offer.scope = "subcategories"
       /\ line.subcategoryId \in offer.ids \/ line.subcategory \in offer.names

Eligible(offer, lines) == {i \in DOMAIN lines : LineMatches(offer, lines[i])}

EligibleSubtotal(offer, lines) ==
    Total([i \in DOMAIN lines |-> lines[i].price * lines[i].qty], Eligible(offer, lines))

EligibleQuantity(offer, lines) ==
    Total([i \in DOMAIN lines |-> lines[i].qty], Eligible(offer, lines))

---------------------------------------------------------------------------
(* Promotions. *)

\* The prices of the units a promotion is about, one entry per unit.
UnitPrices(p, lines) ==
    LET each(i) == [n \in 1 .. lines[i].qty |-> lines[i].price]
    IN  FlattenSeq([k \in 1 .. Cardinality(Eligible(p, lines)) |->
                       each(SetToSeq(Eligible(p, lines))[k])])

\* Buy some, get some: the cheapest units of each complete set are reduced.
BogoDearest(p, lines) ==
    LET units == SortSeq(UnitPrices(p, lines), LAMBDA a, b : a > b)
        reduced == (Len(units) \div (p.buy + p.get)) * p.get
    IN  Round(FoldLeft(LAMBDA sum, u : sum + Percent(u, p.pct), 0,
                       SubSeq(units, 1, reduced)))

BogoDiscount(p, lines) ==
    LET units == SortSeq(UnitPrices(p, lines), LAMBDA a, b : a < b)
        reduced == (Len(units) \div (p.buy + p.get)) * p.get
    IN  Round(FoldLeft(LAMBDA sum, u : sum + Percent(u, p.pct), 0,
                       SubSeq(units, 1, reduced)))

PromotionDiscount(p, lines) ==
    LET base == EligibleSubtotal(p, lines)
    IN  IF \/ Eligible(p, lines) = {}
           \/ EligibleQuantity(p, lines) < p.buy
           \/ base < p.minOrder
        THEN 0
        ELSE CASE p.kind = "bogo" -> BogoDiscount(p, lines)
               [] p.kind = "percentage" ->
                    LET off == Percent(base, p.value)
                    IN  Lesser(Round(IF p.cap = 0 THEN off ELSE Lesser(off, p.cap)), base)
               [] p.kind = "flat" -> Lesser(p.value, base)

\* The promotion that applies: the largest discount, then the higher
\* priority, then the earlier in the list; 0 if none gives anything.
PickBest(live, lines) ==
    LET off == [k \in DOMAIN Promotions |-> PromotionDiscount(Promotions[k], lines)]
        giving == {k \in DOMAIN Promotions : Promotions[k].id \in live /\ off[k] > 0}
        better(k, l) == \/ off[k] > off[l]
                        \/ off[k] = off[l] /\ Promotions[k].priority > Promotions[l].priority
    IN  IF giving = {} THEN 0
        ELSE CHOOSE k \in giving :
                \A l \in giving \ {k} : better(k, l) \/ (~better(l, k) /\ k < l)

\* What the shopper is told to add: pieces, or rupees of eligible goods.
NoHint == [offer |-> None, add |-> "nothing", amount |-> 0]

HintOneShort(p, lines) ==
    LET qty  == EligibleQuantity(p, lines)
        need == IF p.kind = "bogo" THEN p.buy + p.get ELSE p.buy
    IN  IF qty < need
        THEN [offer |-> p.id, add |-> "items", amount |-> need - qty - 1]
        ELSE NoHint

ProgressHint(p, lines) ==
    LET qty  == EligibleQuantity(p, lines)
        need == IF p.kind = "bogo" THEN p.buy + p.get ELSE p.buy
        gap  == p.minOrder - EligibleSubtotal(p, lines)
    IN  CASE qty < need -> [offer |-> p.id, add |-> "items", amount |-> need - qty]
          [] qty >= need /\ p.kind # "bogo" /\ gap > 0 ->
               [offer |-> p.id, add |-> "rupees", amount |-> ((gap + Rupee - 1) \div Rupee) * Rupee]
          [] OTHER -> NoHint

\* The hint of the live promotion nearest to its quantity, the first of equals.
PickHint(live, lines) ==
    LET near == {k \in DOMAIN Promotions :
                    /\ Promotions[k].id \in live
                    /\ EligibleQuantity(Promotions[k], lines) > 0
                    /\ PromotionDiscount(Promotions[k], lines) = 0
                    /\ ProgressHint(Promotions[k], lines) # NoHint}
        qty(k)  == EligibleQuantity(Promotions[k], lines)
        need(k) == Promotions[k].buy
                     + (IF Promotions[k].kind = "bogo" THEN Promotions[k].get ELSE 0)
        closer(k, l) == qty(k) * need(l) > qty(l) * need(k)
    IN  IF near = {} THEN NoHint
        ELSE ProgressHint(Promotions[CHOOSE k \in near :
                \A l \in near \ {k} : closer(k, l) \/ (~closer(l, k) /\ k < l)], lines)

---------------------------------------------------------------------------
(* Coupons. *)

\* A scoped coupon without stored names gets those of its ids.
WithNames(c) ==
    CASE c.names # {} -> c
      [] c.names = {} /\ c.scope = "categories" ->
           [c EXCEPT !.names = {CategoryName[id] : id \in c.ids}]
      [] c.names = {} /\ c.scope = "subcategories" ->
           [c EXCEPT !.names = {Subcategory[id].name : id \in c.ids}]
      [] OTHER -> c

\* A fixed price is paid for the whole bag, or by each unit in scope.
CouponDiscount(c, base, lines) ==
    Lesser(base,
        CASE c.kind = "percentage" ->
               IF c.cap = 0 THEN Percent(base, c.value)
               ELSE Lesser(Percent(base, c.value), c.cap)
          [] c.kind = "fixed" /\ c.scope # "all" ->
               Total([i \in DOMAIN lines |->
                         AtLeastZero(lines[i].price - c.value) * lines[i].qty],
                     Eligible(c, lines))
          [] c.kind = "fixed" /\ c.scope = "all" -> AtLeastZero(base - c.value)
          [] c.kind = "flat" -> c.value)

\* Why a coupon is refused for these lines, or "valid".
CouponVerdict(c, live, lines) ==
    LET base == EligibleSubtotal(c, lines)
    IN  IF c.id \notin live THEN "inactive"
        ELSE IF c.scope # "all" /\ Eligible(c, lines) = {} THEN "scope_mismatch"
        ELSE IF base < c.minOrder THEN "min_order"
        ELSE IF CouponDiscount(c, base, lines) > 0 THEN "valid"
        ELSE IF c.kind = "fixed" THEN "price_floor"
        ELSE "no_savings"

\* What the list of coupons tells of one that nearly applies.
CouponHint(c, live, lines) ==
    LET verdict == CouponVerdict(c, live, lines)
        gap == c.minOrder - EligibleSubtotal(c, lines)
    IN  CASE verdict = "min_order" ->
               [add |-> "rupees", amount |-> ((gap + Rupee - 1) \div Rupee) * Rupee]
          [] verdict = "scope_mismatch" -> [add |-> "scope", amount |-> 0]
          [] verdict = "price_floor"    -> [add |-> "above", amount |-> c.value]
          [] verdict = "no_savings"     -> [add |-> "more", amount |-> 0]
          [] OTHER                      -> [add |-> "nothing", amount |-> 0]

\* What a coupon takes off, nothing if it is not valid.
CouponValue(c, live, lines) ==
    LET n == WithNames(c)
    IN  IF CouponVerdict(n, live, lines) = "valid"
        THEN CouponDiscount(n, EligibleSubtotal(n, lines), lines)
        ELSE 0

---------------------------------------------------------------------------
(* The sums of an order. *)

ShippingThreshold == 1099 * Rupee
ShippingCharge    == 99 * Rupee
CodHandlingFee    == 99 * Rupee

OrderTotals(subtotal, discount, method) ==
    LET rest == AtLeastZero(subtotal - discount)
        ship == IF rest >= ShippingThreshold THEN 0 ELSE ShippingCharge
        fee  == IF method = "cod" THEN CodHandlingFee ELSE 0
    IN  [shipping |-> ship, codFee |-> fee, total |-> rest + ship + fee]

\* What the same units cost before any campaign.
CatalogSubtotal(bag) == Total([i \in Items |-> Catalog[i].list * bag[i]], Items)

============================================================================
