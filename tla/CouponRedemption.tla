--------------------------- MODULE CouponRedemption ---------------------------
(* One coupon, from the promise checkout makes of it to the use an order       *)
(* counts. Checkout validates a copy: the one cached by code, which the reader *)
(* that found no copy stores after its database read, or the document itself   *)
(* for a coupon already in the cart. Placing the order redeems the coupon in   *)
(* the order's transaction (`redeemInTransaction`), seconds later for cash on  *)
(* delivery and after the payment for an online checkout; admins edit and      *)
(* remove the coupon meanwhile and the cache is purged behind every write.     *)
(*                                                                             *)
(* A transaction is one step, as in CheckoutIntents; the user's checkout lock, *)
(* which may expire, is not relied on (CheckoutRequests). A redemption fires   *)
(* its purge before it commits; a reader that slips in between leaves the same *)
(* copy behind as one whose store is late, which `filling` covers.             *)
EXTENDS Integers, FiniteSets

CONSTANTS Checkout,   \* checkouts with the coupon; bag and customer meet its conditions
          User,
          UserOf,     \* whose checkout it is
          UsageLimit, \* values an admin gives usageLimit and userUsageLimit
          LastDay,    \* days are 0 .. LastDay
          MaxEdits,   \* admin writes in a behaviour
          NoCopy      \* no coupon stored under the code

(* assertCouponBusinessRules refuses a limit below 1: 0 stands for no limit.   *)
NoLimit == 0

ASSUME UserAssumption == IsFiniteSet(Checkout) /\ UserOf \in [Checkout -> User]
ASSUME LimitAssumption == UsageLimit \subseteq Nat /\ LastDay \in Nat /\ MaxEdits \in Nat

VARIABLES
    coupon,    \* the Coupon document
    redeemed,  \* CouponRedemption documents, by the order (the checkout) they name
    checkout,  \* where each checkout stands and which copy it was promised from
    fetched,   \* the copy a reader took from the database and has yet to store
    cache,     \* the copy stored under the code
    purges,    \* invalidations of that copy under way
    now

couponVars == <<coupon, redeemed, checkout, fetched, cache, purges, now>>

Day == 0 .. LastDay

(* What admins write. `targeted`: the validity depends on the lines of the bag  *)
(* or on the number of delivered orders (scopeType, returning,                  *)
(* minCompletedOrders).                                                         *)
Terms ==
    [isActive : BOOLEAN, deleted : BOOLEAN, expiry : Day, targeted : BOOLEAN,
     usageLimit : UsageLimit, userUsageLimit : UsageLimit]

(* Redemption writes the counters; `rev` counts all writes (auxiliary).         *)
CouponDoc == [terms : Terms, usedCount : Nat, usedBy : [User -> Nat], rev : Nat]

(* "promised": validated, not placed yet. Placed: "counted" orders have the     *)
(* discount and a use, "uncounted" ones the discount alone, "plain" ones none.  *)
(* "invalid" and "conflict" are the two refusals, before and at the placing.    *)
Stage == {"idle", "filling", "promised", "intent",
          "invalid", "conflict", "counted", "uncounted", "plain"}

(* rev and day: of the copy the promise was made from; raced: the coupon or the *)
(* day had changed when the order was placed (auxiliary).                       *)
CheckoutState == [stage : Stage, rev : Nat, day : Day, raced : BOOLEAN]

At(stage, raced) == [stage |-> stage, rev |-> 0, day |-> 0, raced |-> raced]

CouponInit ==
    /\ \E t \in Terms :
          /\ t.isActive /\ ~t.deleted /\ t.userUsageLimit # NoLimit
          /\ coupon = [terms |-> t, usedCount |-> 0, usedBy |-> [u \in User |-> 0], rev |-> 0]
    /\ redeemed = {}
    /\ checkout = [o \in Checkout |-> At("idle", FALSE)]
    /\ fetched = [o \in Checkout |-> NoCopy]
    /\ cache = NoCopy
    /\ purges = 0
    /\ now = 0

-----------------------------------------------------------------------------
(* Validation                                                                  *)

HasUsesLeft(c) == c.terms.usageLimit = NoLimit \/ c.usedCount < c.terms.usageLimit

HasUsesFor(c, u) == c.usedBy[u] < c.terms.userUsageLimit

Valid(c, u, conditionsMet) ==
    /\ c.terms.isActive /\ ~c.terms.deleted
    /\ now <= c.terms.expiry
    /\ HasUsesLeft(c)
    /\ conditionsMet
    /\ HasUsesFor(c, u)

(* evaluateCouponForOrder: a typed code that fails stops the checkout, a coupon *)
(* left in the cart is dropped from it.                                         *)
Evaluated(o, c, otherwise) ==
    [checkout EXCEPT ![o] =
        IF Valid(c, UserOf[o], TRUE)
        THEN [stage |-> "promised", rev |-> c.rev, day |-> now, raced |-> FALSE]
        ELSE At(otherwise, FALSE)]

EvaluateCachedCode(o) ==
    /\ checkout[o].stage = "idle" /\ cache # NoCopy
    /\ checkout' = Evaluated(o, cache, "invalid")
    /\ UNCHANGED <<coupon, redeemed, fetched, cache, purges, now>>

(* findCouponByCode misses: the document is read, stored, then evaluated.       *)
FindCouponByCode(o) ==
    /\ checkout[o].stage = "idle" /\ cache = NoCopy
    /\ IF coupon.terms.deleted
       THEN checkout' = [checkout EXCEPT ![o].stage = "invalid"] /\ fetched' = fetched
       ELSE /\ checkout' = [checkout EXCEPT ![o].stage = "filling"]
            /\ fetched' = [fetched EXCEPT ![o] = coupon]
    /\ UNCHANGED <<coupon, redeemed, cache, purges, now>>

SetCachedCouponByCode(o) ==
    /\ checkout[o].stage = "filling"
    /\ cache' = fetched[o]
    /\ fetched' = [fetched EXCEPT ![o] = NoCopy]
    /\ checkout' = Evaluated(o, fetched[o], "invalid")
    /\ UNCHANGED <<coupon, redeemed, purges, now>>

EvaluateCartCoupon(o) ==
    /\ checkout[o].stage = "idle"
    /\ checkout' = Evaluated(o, coupon, "plain")
    /\ UNCHANGED <<coupon, redeemed, fetched, cache, purges, now>>

-----------------------------------------------------------------------------
(* Redemption                                                                  *)

(* Mutants: the order trusts the copy checkout validated; the last use of all  *)
(* is never given.                                                             *)
RedeemableAsPromised(o) == TRUE
RedeemableButLast(o) ==
    /\ Valid(coupon, UserOf[o], ~coupon.terms.targeted)
    /\ coupon.terms.usageLimit = NoLimit \/ coupon.usedCount + 1 < coupon.terms.usageLimit

(* redeemInTransaction validates the document again, without the lines of the  *)
(* bag or the customer's history, and its update repeats the limits.           *)
Redeemable(o) == Valid(coupon, UserOf[o], ~coupon.terms.targeted)

(* Mutant: the user's use is not pushed.                                       *)
WithUseUncredited(u) ==
    [terms |-> coupon.terms, usedCount |-> coupon.usedCount + 1,
     usedBy |-> coupon.usedBy, rev |-> coupon.rev + 1]

WithUse(u) ==
    [terms |-> coupon.terms, usedCount |-> coupon.usedCount + 1,
     usedBy |-> [coupon.usedBy EXCEPT ![u] = @ + 1], rev |-> coupon.rev + 1]

Placed(o, stage) ==
    [checkout EXCEPT ![o] =
        At(stage, coupon.rev # checkout[o].rev \/ now # checkout[o].day)]

RedeemInTransaction(o, refused) ==
    /\ IF Redeemable(o)
       THEN /\ coupon' = WithUse(UserOf[o])
            /\ redeemed' = redeemed \cup {o}
            /\ checkout' = Placed(o, "counted")
            /\ purges' = purges + 1
       ELSE /\ checkout' = Placed(o, refused)
            /\ UNCHANGED <<coupon, redeemed, purges>>
    /\ UNCHANGED <<fetched, cache, now>>

(* createCodOrder: a failed redemption throws and rolls the order back.        *)
CreateCodOrder(o) ==
    /\ checkout[o].stage = "promised"
    /\ RedeemInTransaction(o, "conflict")

CreateRazorpayIntent(o) ==
    /\ checkout[o].stage = "promised"
    /\ checkout' = [checkout EXCEPT ![o].stage = "intent"]
    /\ UNCHANGED <<coupon, redeemed, fetched, cache, purges, now>>

(* finalizePaymentIntent: the money is taken, so a failed redemption is only    *)
(* logged and the order keeps the discount of its snapshot.                     *)
FinalizePaymentIntent(o) ==
    /\ checkout[o].stage = "intent"
    /\ RedeemInTransaction(o, "uncounted")

-----------------------------------------------------------------------------
(* Admins, cache and time                                                      *)

AdminWrite(terms) ==
    /\ coupon.rev - coupon.usedCount < MaxEdits
    /\ coupon' = [coupon EXCEPT !.terms = terms, !.rev = @ + 1]
    /\ purges' = purges + 1
    /\ UNCHANGED <<redeemed, checkout, fetched, cache, now>>

UpdateCoupon ==
    /\ ~coupon.terms.deleted
    /\ \/ \E l \in UsageLimit \ {NoLimit} :
              \/ AdminWrite([coupon.terms EXCEPT !.usageLimit = l])
              \/ AdminWrite([coupon.terms EXCEPT !.userUsageLimit = l])
       \/ \E d \in Day : AdminWrite([coupon.terms EXCEPT !.expiry = d])
       \/ \E a \in BOOLEAN :
              \/ AdminWrite([coupon.terms EXCEPT !.isActive = a])
              \/ AdminWrite([coupon.terms EXCEPT !.targeted = a])

(* softDeleteCoupon; an archived coupon is refused the same way.               *)
RemoveCoupon ==
    /\ ~coupon.terms.deleted
    /\ AdminWrite([coupon.terms EXCEPT !.isActive = FALSE, !.deleted = TRUE])

InvalidateCouponCaches ==
    /\ purges > 0
    /\ purges' = purges - 1
    /\ cache' = NoCopy
    /\ UNCHANGED <<coupon, redeemed, checkout, fetched, now>>

(* Redis fails or the process ends: nobody repeats the purge.                  *)
PurgeLost ==
    /\ purges > 0
    /\ purges' = purges - 1
    /\ UNCHANGED <<coupon, redeemed, checkout, fetched, cache, now>>

CopyExpires ==
    /\ cache # NoCopy
    /\ cache' = NoCopy
    /\ UNCHANGED <<coupon, redeemed, checkout, fetched, purges, now>>

NextDay ==
    /\ now < LastDay
    /\ now' = now + 1
    /\ UNCHANGED <<coupon, redeemed, checkout, fetched, cache, purges>>

CouponNext ==
    \/ \E o \in Checkout :
        \/ EvaluateCachedCode(o) \/ FindCouponByCode(o) \/ SetCachedCouponByCode(o)
        \/ EvaluateCartCoupon(o)
        \/ CreateCodOrder(o) \/ CreateRazorpayIntent(o) \/ FinalizePaymentIntent(o)
    \/ UpdateCoupon \/ RemoveCoupon
    \/ InvalidateCouponCaches \/ PurgeLost \/ CopyExpires \/ NextDay

CouponSpec == CouponInit /\ [][CouponNext]_couponVars

-----------------------------------------------------------------------------
(* Properties                                                                  *)

(* Every variable has its type, and a reader between its database read and the *)
(* store of what it read holds a copy of the coupon.                           *)
CouponTypeOK ==
    /\ coupon \in CouponDoc
    /\ redeemed \subseteq Checkout
    /\ checkout \in [Checkout -> CheckoutState]
    /\ fetched \in [Checkout -> CouponDoc \cup {NoCopy}]
    /\ \A o \in Checkout : checkout[o].stage = "filling" => fetched[o] \in CouponDoc
    /\ cache \in CouponDoc \cup {NoCopy}
    /\ purges \in Nat
    /\ now \in Day

(* The coupon's two counters and the redemption records tell the same story,   *)
(* and a use is counted for exactly the orders that were placed with one: an   *)
(* order refused at the last moment has used nothing up.                       *)
UsageAccounted ==
    /\ redeemed = {o \in Checkout : checkout[o].stage = "counted"}
    /\ coupon.usedCount = Cardinality(redeemed)
    /\ \A u \in User : coupon.usedBy[u] = Cardinality({o \in redeemed : UserOf[o] = u})

(* However old the copy a checkout was promised from, the use it counts is     *)
(* within the limits and the dates in force when its order is placed.          *)
CountedWithinLimits ==
    [][\A o \in redeemed' \ redeemed :
          LET t == coupon'.terms IN
          /\ t.isActive /\ now <= t.expiry
          /\ t.usageLimit = NoLimit \/ coupon'.usedCount <= t.usageLimit
          /\ coupon'.usedBy[UserOf[o]] <= t.userUsageLimit]_couponVars

Denied(o) == checkout[o].stage \in {"conflict", "uncounted"}

(* A coupon for every bag and every customer is denied to an order only if it  *)
(* was used, edited or outlived between the copy of the promise and the order. *)
DeniedOnlyByChange ==
    [][\A o \in Checkout :
          Denied(o)' /\ ~Denied(o) /\ ~coupon.terms.targeted => checkout'[o].raced]_couponVars
=============================================================================
