----------------------- MODULE CheckoutRequestsProofs -----------------------
(* What holds of the checkouts of an account, for every set of requests, and   *)
(* of those that use one coupon, for every set of customers and limits. The    *)
(* two specifications, CheckoutRequests and CouponRedemption, share no         *)
(* variable.                                                                   *)
EXTENDS CheckoutRequests, CouponRedemption, FiniteSetTheorems, TLAPS

(* While no checkout has outlived the TTL, a request past the lock holds it.   *)
HoldsLock == ~early => \A q \in Request : phase[q] \in Critical => lock = q

(* A COD request that ordered a cart has used it up; one that has read a cart  *)
(* still finds it, because nobody else gets past the lock.                     *)
CartCod == Cod \ BuyNow

CartUsed ==
    ~early =>
        /\ \A q \in CartCod \cap made : ordered[q] # 0 /\ ordered[q] # cart
        /\ \A q \in CartCod : phase[q] = "read" => ordered[q] # 0 /\ ordered[q] = cart
        /\ \A q \in made : phase[q] \in {"made", "releasing", "done"}
        /\ CartOrderedOnce

(* A request that may answer has made its order; and once a keyed client was   *)
(* answered, the answer stays stored.                                          *)
AnswersBacked ==
    /\ \A q \in Request : phase[q] = "made" => q \in made
    /\ ReplayStandsForOrder

-----------------------------------------------------------------------------

LEMMA TypeInit == Init => TypeOK
<1> SUFFICES ASSUME Init PROVE TypeOK
  OBVIOUS
<1>1. phase \in [Request -> Phase] /\ answer \in [Request -> Answer]
  BY DEF Init, Phase, Answer
<1>2. carts \in 0..MaxCarts /\ cart \in 0..carts /\ crashes \in 0..MaxCrashes
  BY BoundAssumption DEF Init
<1>3. ordered \in [Request -> 0..carts]
  BY <1>2 DEF Init
<1>. QED
  BY <1>1, <1>2, <1>3 DEF Init, TypeOK

LEMMA TypeStep == TypeOK /\ [Next]_vars => TypeOK'
<1> SUFFICES ASSUME TypeOK, [Next]_vars PROVE TypeOK'
  OBVIOUS
<1> USE RequestAssumption, BoundAssumption DEF TypeOK, Phase, Answer, Step, Reply, shop
<1>1. ASSUME NEW q \in Request, ReadKey(q) PROVE TypeOK'
  BY <1>1 DEF ReadKey
<1>2. ASSUME NEW q \in Request, Acquire(q) PROVE TypeOK'
  BY <1>2 DEF Acquire, acquireCheckoutLock
<1>3. ASSUME NEW q \in Request, ReadItems(q) PROVE TypeOK'
  BY <1>3 DEF ReadItems
<1>4. ASSUME NEW q \in Request, Make(q) PROVE TypeOK'
  BY <1>4 DEF Make, CartAfter
<1>5. ASSUME NEW q \in Request, Answered(q) PROVE TypeOK'
  BY <1>5 DEF Answered
<1>6. ASSUME NEW q \in Request, Throw(q) PROVE TypeOK'
  BY <1>6 DEF Throw
<1>7. ASSUME NEW q \in Request, Release(q) PROVE TypeOK'
  BY <1>7 DEF Release, releaseCheckoutLock
<1>8. ASSUME NEW q \in Request, GiveUp(q) PROVE TypeOK'
  BY <1>8 DEF GiveUp
<1>9. ASSUME NEW q \in Request, Crash(q) PROVE TypeOK'
  BY <1>9 DEF Crash
<1>10. CASE LockExpires
  BY <1>10 DEF LockExpires
<1>11. CASE FillCart
  BY <1>11 DEF FillCart
<1>12. CASE UNCHANGED vars
  BY <1>12 DEF vars
<1>. QED
  BY <1>1, <1>2, <1>3, <1>4, <1>5, <1>6, <1>7, <1>8, <1>9, <1>10, <1>11, <1>12
     DEF Next, Proceed

(* Every reachable state is well typed.                                        *)
THEOREM TypeCorrect == Spec => []TypeOK
BY TypeInit, TypeStep, PTL DEF Spec

-----------------------------------------------------------------------------

LEMMA HoldsStep == TypeOK /\ HoldsLock /\ [Next]_vars => HoldsLock'
<1> SUFFICES ASSUME TypeOK, HoldsLock, [Next]_vars PROVE HoldsLock'
  OBVIOUS
<1> USE RequestAssumption DEF TypeOK, HoldsLock, Critical, Step
<1>1. ASSUME NEW q \in Request, ReadKey(q) PROVE HoldsLock'
  BY <1>1 DEF ReadKey
<1>2. ASSUME NEW q \in Request, Acquire(q) PROVE HoldsLock'
  BY <1>2 DEF Acquire, acquireCheckoutLock
<1>3. ASSUME NEW q \in Request, ReadItems(q) PROVE HoldsLock'
  BY <1>3 DEF ReadItems
<1>4. ASSUME NEW q \in Request, Make(q) PROVE HoldsLock'
  BY <1>4 DEF Make
<1>5. ASSUME NEW q \in Request, Answered(q) PROVE HoldsLock'
  BY <1>5 DEF Answered
<1>6. ASSUME NEW q \in Request, Throw(q) PROVE HoldsLock'
  BY <1>6 DEF Throw
<1>7. ASSUME NEW q \in Request, Release(q) PROVE HoldsLock'
  BY <1>7 DEF Release, releaseCheckoutLock
<1>8. ASSUME NEW q \in Request, GiveUp(q) PROVE HoldsLock'
  BY <1>8 DEF GiveUp
<1>9. ASSUME NEW q \in Request, Crash(q) PROVE HoldsLock'
  BY <1>9 DEF Crash
<1>10. CASE LockExpires
  BY <1>10 DEF LockExpires
<1>11. CASE FillCart
  BY <1>11 DEF FillCart
<1>12. CASE UNCHANGED vars
  BY <1>12 DEF vars
<1>. QED
  BY <1>1, <1>2, <1>3, <1>4, <1>5, <1>6, <1>7, <1>8, <1>9, <1>10, <1>11, <1>12
     DEF Next, Proceed

LEMMA Holds == Spec => []HoldsLock
<1>1. Init => HoldsLock
  BY DEF Init, HoldsLock, Critical
<1>. QED
  BY <1>1, HoldsStep, TypeCorrect, PTL DEF Spec

(* As long as no checkout outlives the lock's TTL, an account has one checkout *)
(* in progress.                                                                *)
THEOREM OneCheckout == Spec => []OneCheckoutWithinTTL
<1>1. HoldsLock => OneCheckoutWithinTTL
  BY DEF HoldsLock, OneCheckoutWithinTTL
<1>. QED
  BY <1>1, Holds, PTL

-----------------------------------------------------------------------------

LEMMA CartStep == TypeOK /\ HoldsLock /\ CartUsed /\ [Next]_vars => CartUsed'
<1> SUFFICES ASSUME TypeOK, HoldsLock, CartUsed, [Next]_vars PROVE CartUsed'
  OBVIOUS
<1> USE RequestAssumption, BoundAssumption
    DEF TypeOK, CartUsed, CartCod, CartOrderedOnce, Step, Phase
<1>1. ASSUME NEW q \in Request, ReadKey(q) PROVE CartUsed'
  BY <1>1 DEF ReadKey, shop
<1>2. ASSUME NEW q \in Request, Acquire(q) PROVE CartUsed'
  BY <1>2 DEF Acquire, shop
<1>3. ASSUME NEW q \in Request, ReadItems(q) PROVE CartUsed'
  BY <1>3 DEF ReadItems
<1>4. ASSUME NEW q \in Request, Make(q) PROVE CartUsed'
  <2>1. ~early => \A p \in Request : phase[p] = "read" => p = q
    BY <1>4 DEF Make, HoldsLock, Critical
  <2>. QED
    BY <1>4, <2>1 DEF Make, CartAfter
<1>5. ASSUME NEW q \in Request, Answered(q) PROVE CartUsed'
  BY <1>5 DEF Answered
<1>6. ASSUME NEW q \in Request, Throw(q) PROVE CartUsed'
  BY <1>6 DEF Throw, shop
<1>7. ASSUME NEW q \in Request, Release(q) PROVE CartUsed'
  BY <1>7 DEF Release, shop
<1>8. ASSUME NEW q \in Request, GiveUp(q) PROVE CartUsed'
  BY <1>8 DEF GiveUp, shop
<1>9. ASSUME NEW q \in Request, Crash(q) PROVE CartUsed'
  BY <1>9 DEF Crash, shop
<1>10. CASE LockExpires
  BY <1>10 DEF LockExpires, shop
<1>11. CASE FillCart
  BY <1>11 DEF FillCart
<1>12. CASE UNCHANGED vars
  BY <1>12 DEF vars
<1>. QED
  BY <1>1, <1>2, <1>3, <1>4, <1>5, <1>6, <1>7, <1>8, <1>9, <1>10, <1>11, <1>12
     DEF Next, Proceed

(* As long as no checkout outlives the lock's TTL, one cart becomes at most    *)
(* one COD order.                                                              *)
THEOREM CartOnce == Spec => []CartOrderedOnce
<1>1. Init => CartUsed
  <2> SUFFICES ASSUME Init PROVE CartUsed
    OBVIOUS
  <2>1. made = {} /\ \A q \in Request : phase[q] # "read"
    BY DEF Init
  <2>. QED
    BY <2>1, RequestAssumption DEF CartUsed, CartCod, CartOrderedOnce
<1>2. Spec => []CartUsed
  BY <1>1, CartStep, Holds, TypeCorrect, PTL DEF Spec
<1>3. CartUsed => CartOrderedOnce
  BY DEF CartUsed, CartOrderedOnce
<1>. QED
  BY <1>2, <1>3, PTL

-----------------------------------------------------------------------------

LEMMA BackedStep == TypeOK /\ AnswersBacked /\ [Next]_vars => AnswersBacked'
<1> SUFFICES ASSUME TypeOK, AnswersBacked, [Next]_vars PROVE AnswersBacked'
  OBVIOUS
<1> USE RequestAssumption DEF TypeOK, AnswersBacked, ReplayStandsForOrder, Step, Reply
<1>1. ASSUME NEW q \in Request, ReadKey(q) PROVE AnswersBacked'
  BY <1>1 DEF ReadKey, shop
<1>2. ASSUME NEW q \in Request, Acquire(q) PROVE AnswersBacked'
  BY <1>2 DEF Acquire, shop
<1>3. ASSUME NEW q \in Request, ReadItems(q) PROVE AnswersBacked'
  BY <1>3 DEF ReadItems
<1>4. ASSUME NEW q \in Request, Make(q) PROVE AnswersBacked'
  BY <1>4 DEF Make
<1>5. ASSUME NEW q \in Request, Answered(q) PROVE AnswersBacked'
  BY <1>5 DEF Answered
<1>6. ASSUME NEW q \in Request, Throw(q) PROVE AnswersBacked'
  BY <1>6 DEF Throw, shop
<1>7. ASSUME NEW q \in Request, Release(q) PROVE AnswersBacked'
  BY <1>7 DEF Release, shop
<1>8. ASSUME NEW q \in Request, GiveUp(q) PROVE AnswersBacked'
  BY <1>8 DEF GiveUp, shop
<1>9. ASSUME NEW q \in Request, Crash(q) PROVE AnswersBacked'
  BY <1>9 DEF Crash, shop
<1>10. CASE LockExpires \/ FillCart
  BY <1>10 DEF LockExpires, FillCart, shop
<1>11. CASE UNCHANGED vars
  BY <1>11 DEF vars
<1>. QED
  BY <1>1, <1>2, <1>3, <1>4, <1>5, <1>6, <1>7, <1>8, <1>9, <1>10, <1>11
     DEF Next, Proceed

(* Whatever expires, fails or crashes, and however requests overlap: a replay  *)
(* stands for an order that exists, and an answered client finds its answer.   *)
THEOREM ReplayStands == Spec => []ReplayStandsForOrder
<1>1. Init => AnswersBacked
  BY RequestAssumption DEF Init, AnswersBacked, ReplayStandsForOrder
<1>2. AnswersBacked => ReplayStandsForOrder
  BY DEF AnswersBacked
<1>. QED
  BY <1>1, <1>2, BackedStep, TypeCorrect, PTL DEF Spec

-----------------------------------------------------------------------------
(* Redemption. UsageAccounted is inductive together with CouponTypeOK. That a denial *)
(* has a reason rests on the age of every copy of the coupon (CopiesAreDated): *)
(* a promise made from the document as it stands is good.                      *)

(* A copy is no younger than the document, and the one as old as it is equal.  *)
Dated(c) == c.rev <= coupon.rev /\ (c.rev = coupon.rev => c = coupon)

(* What the promise to o knows is no younger than the document and the day;    *)
(* made from the document as it stands, today, it still holds.                 *)
PromiseDated(o) ==
    /\ checkout[o].rev <= coupon.rev /\ checkout[o].day <= now
    /\ checkout[o].rev = coupon.rev /\ checkout[o].day = now
          => Valid(coupon, UserOf[o], TRUE)

CopiesAreDated ==
    /\ cache # NoCopy => Dated(cache)
    /\ \A o \in Checkout : checkout[o].stage = "filling" => Dated(fetched[o])
    /\ \A o \in Checkout : checkout[o].stage \in {"promised", "intent"} => PromiseDated(o)

-----------------------------------------------------------------------------
(* Types                                                                       *)

LEMMA EvaluatedType ==
    ASSUME CouponTypeOK, NEW o \in Checkout, NEW c \in CouponDoc, NEW s \in {"invalid", "plain"},
           checkout' = Evaluated(o, c, s)
    PROVE  /\ checkout' \in [Checkout -> CheckoutState]
           /\ \A p \in Checkout \ {o} : checkout'[p] = checkout[p]
           /\ \/ /\ checkout'[o].stage = "promised"
                 /\ checkout'[o].rev = c.rev /\ checkout'[o].day = now
                 /\ Valid(c, UserOf[o], TRUE)
              \/ checkout'[o].stage = s
<1> DEFINE promised == [stage |-> "promised", rev |-> c.rev, day |-> now, raced |-> FALSE]
           refused == At(s, FALSE)
<1>1. /\ promised \in CheckoutState
      /\ promised.stage = "promised" /\ promised.rev = c.rev /\ promised.day = now
  BY DEF CouponTypeOK, CheckoutState, CouponDoc, Stage
<1>2. refused \in CheckoutState /\ refused.stage = s
  BY LimitAssumption DEF At, CheckoutState, Day, Stage
<1>3. checkout \in [Checkout -> CheckoutState]
  BY DEF CouponTypeOK
<1>4. checkout' =
        [checkout EXCEPT ![o] = IF Valid(c, UserOf[o], TRUE) THEN promised ELSE refused]
  BY DEF Evaluated
<1> HIDE DEF promised, refused
<1>5. CASE Valid(c, UserOf[o], TRUE)
  BY <1>1, <1>3, <1>4, <1>5
<1>6. CASE ~Valid(c, UserOf[o], TRUE)
  BY <1>2, <1>3, <1>4, <1>6
<1> QED
  BY <1>5, <1>6

LEMMA PlacedType ==
    ASSUME CouponTypeOK, NEW o \in Checkout, NEW s \in Stage
    PROVE  LET e == Placed(o, s) IN
           /\ e \in [Checkout -> CheckoutState]
           /\ \A p \in Checkout \ {o} : e[p] = checkout[p]
           /\ e[o].stage = s
           /\ e[o].raced <=> coupon.rev # checkout[o].rev \/ now # checkout[o].day
<1> DEFINE r == coupon.rev # checkout[o].rev \/ now # checkout[o].day
           placed == At(s, r)
<1>1. placed \in CheckoutState /\ placed.stage = s
  BY LimitAssumption DEF At, CheckoutState, Day
<1>2. placed.raced = r
  BY DEF At
<1>3. Placed(o, s) = [checkout EXCEPT ![o] = placed]
  BY DEF Placed
<1>4. checkout \in [Checkout -> CheckoutState]
  BY DEF CouponTypeOK
<1> HIDE DEF placed
<1> QED
  BY <1>1, <1>2, <1>3, <1>4

LEMMA WithUseType ==
    ASSUME CouponTypeOK, NEW u \in User
    PROVE  WithUse(u) \in CouponDoc
  BY DEF CouponTypeOK, WithUse, CouponDoc

LEMMA RedeemType ==
    ASSUME CouponTypeOK, NEW o \in Checkout, NEW s \in Stage \ {"filling"},
           RedeemInTransaction(o, s)
    PROVE  CouponTypeOK'
<1>1. CASE Redeemable(o)
  <2>1. WithUse(UserOf[o]) \in CouponDoc
    BY UserAssumption, WithUseType
  <2>2. Placed(o, "counted") \in [Checkout -> CheckoutState]
    BY PlacedType DEF Stage
  <2>3. checkout' = Placed(o, "counted") /\ coupon' = WithUse(UserOf[o])
        /\ redeemed' = redeemed \cup {o} /\ purges' = purges + 1
        /\ UNCHANGED <<fetched, cache, now>>
    BY <1>1 DEF RedeemInTransaction
  <2>4. \A p \in Checkout : checkout'[p].stage = "filling" => fetched'[p] \in CouponDoc
    BY <2>3 DEF Placed, At, CouponTypeOK
  <2> QED
    BY <2>1, <2>2, <2>3, <2>4 DEF CouponTypeOK
<1>2. CASE ~Redeemable(o)
  <2>1. Placed(o, s) \in [Checkout -> CheckoutState]
    BY PlacedType
  <2>2. checkout' = Placed(o, s) /\ UNCHANGED <<coupon, redeemed, purges, fetched, cache, now>>
    BY <1>2 DEF RedeemInTransaction
  <2>3. \A p \in Checkout : checkout'[p].stage = "filling" => fetched'[p] \in CouponDoc
    BY <2>2 DEF Placed, At, CouponTypeOK
  <2> QED
    BY <2>1, <2>2, <2>3 DEF CouponTypeOK
<1> QED
  BY <1>1, <1>2

LEMMA AdminType ==
    ASSUME CouponTypeOK, NEW t \in Terms, AdminWrite(t)
    PROVE  /\ CouponTypeOK' /\ UNCHANGED <<redeemed, checkout, fetched, cache, now>>
           /\ coupon'.usedCount = coupon.usedCount /\ coupon'.usedBy = coupon.usedBy
           /\ coupon'.terms = t /\ coupon'.rev = coupon.rev + 1
<1>1. coupon \in CouponDoc
  BY DEF CouponTypeOK
<1>2. coupon' = [[coupon EXCEPT !.terms = t] EXCEPT !.rev = @ + 1]
  BY DEF AdminWrite
<1> DEFINE c == [coupon EXCEPT !.terms = t]
<1>3. /\ c \in CouponDoc /\ c.rev = coupon.rev /\ c.terms = t
      /\ c.usedCount = coupon.usedCount /\ c.usedBy = coupon.usedBy
  BY <1>1 DEF CouponDoc
<1> HIDE DEF c
<1>4. coupon' = [c EXCEPT !.rev = @ + 1]
  BY <1>2 DEF c
<1>5. /\ coupon' \in CouponDoc /\ coupon'.rev = coupon.rev + 1 /\ coupon'.terms = t
      /\ coupon'.usedCount = coupon.usedCount /\ coupon'.usedBy = coupon.usedBy
  BY <1>3, <1>4 DEF CouponDoc
<1> QED
  BY <1>5 DEF AdminWrite, CouponTypeOK

(* An admin writes terms the coupon may have.                                  *)
LEMMA AdminTerms ==
    ASSUME CouponTypeOK, UpdateCoupon \/ RemoveCoupon
    PROVE  \E t \in Terms : AdminWrite(t)
<1>1. coupon.terms \in Terms
  BY DEF CouponTypeOK, CouponDoc
<1>2. CASE UpdateCoupon
  <2>1. ASSUME NEW l \in UsageLimit
        PROVE  /\ [coupon.terms EXCEPT !.usageLimit = l] \in Terms
               /\ [coupon.terms EXCEPT !.userUsageLimit = l] \in Terms
    BY <1>1 DEF Terms
  <2>2. ASSUME NEW d \in Day PROVE [coupon.terms EXCEPT !.expiry = d] \in Terms
    BY <1>1 DEF Terms
  <2>3. ASSUME NEW a \in BOOLEAN
        PROVE  /\ [coupon.terms EXCEPT !.isActive = a] \in Terms
               /\ [coupon.terms EXCEPT !.targeted = a] \in Terms
    BY <1>1 DEF Terms
  <2> QED
    BY <1>2, <2>1, <2>2, <2>3 DEF UpdateCoupon
<1>3. CASE RemoveCoupon
  <2> DEFINE off == [coupon.terms EXCEPT !.isActive = FALSE]
  <2>1. off \in Terms
    BY <1>1 DEF Terms
  <2>2. AdminWrite([off EXCEPT !.deleted = TRUE])
    BY <1>3 DEF RemoveCoupon
  <2> HIDE DEF off
  <2>3. [off EXCEPT !.deleted = TRUE] \in Terms
    BY <2>1 DEF Terms
  <2> QED
    BY <2>2, <2>3
<1> QED
  BY <1>2, <1>3

LEMMA CouponTypeStep == CouponTypeOK /\ [CouponNext]_couponVars => CouponTypeOK'
<1> SUFFICES ASSUME CouponTypeOK, [CouponNext]_couponVars PROVE CouponTypeOK'
  OBVIOUS
<1> USE DEF Stage
<1>1. ASSUME NEW o \in Checkout, EvaluateCachedCode(o) PROVE CouponTypeOK'
  <2>1. cache \in CouponDoc
    BY <1>1 DEF EvaluateCachedCode, CouponTypeOK
  <2>2. checkout' = Evaluated(o, cache, "invalid")
    BY <1>1 DEF EvaluateCachedCode
  <2>3. /\ checkout' \in [Checkout -> CheckoutState]
        /\ \A p \in Checkout \ {o} : checkout'[p] = checkout[p]
        /\ checkout'[o].stage # "filling"
    BY <2>1, <2>2, EvaluatedType
  <2> QED
    BY <1>1, <2>1, <2>3 DEF EvaluateCachedCode, CouponTypeOK
<1>2. ASSUME NEW o \in Checkout, FindCouponByCode(o) PROVE CouponTypeOK'
  BY <1>2 DEF FindCouponByCode, CouponTypeOK, CheckoutState
<1>3. ASSUME NEW o \in Checkout, SetCachedCouponByCode(o) PROVE CouponTypeOK'
  <2>1. fetched[o] \in CouponDoc
    BY <1>3 DEF SetCachedCouponByCode, CouponTypeOK
  <2>2. checkout' = Evaluated(o, fetched[o], "invalid")
    BY <1>3 DEF SetCachedCouponByCode
  <2>3. /\ checkout' \in [Checkout -> CheckoutState]
        /\ \A p \in Checkout \ {o} : checkout'[p] = checkout[p]
        /\ checkout'[o].stage # "filling"
    BY <2>1, <2>2, EvaluatedType
  <2> QED
    BY <1>3, <2>1, <2>3 DEF SetCachedCouponByCode, CouponTypeOK
<1>4. ASSUME NEW o \in Checkout, EvaluateCartCoupon(o) PROVE CouponTypeOK'
  <2>1. checkout' = Evaluated(o, coupon, "plain") /\ coupon \in CouponDoc
    BY <1>4 DEF EvaluateCartCoupon, CouponTypeOK
  <2>2. /\ checkout' \in [Checkout -> CheckoutState]
        /\ \A p \in Checkout \ {o} : checkout'[p] = checkout[p]
        /\ checkout'[o].stage # "filling"
    BY <2>1, EvaluatedType
  <2> QED
    BY <1>4, <2>2 DEF EvaluateCartCoupon, CouponTypeOK
<1>5. ASSUME NEW o \in Checkout, CreateCodOrder(o) PROVE CouponTypeOK'
  BY <1>5, RedeemType DEF CreateCodOrder
<1>6. ASSUME NEW o \in Checkout, CreateRazorpayIntent(o) PROVE CouponTypeOK'
  BY <1>6 DEF CreateRazorpayIntent, CouponTypeOK, CheckoutState
<1>7. ASSUME NEW o \in Checkout, FinalizePaymentIntent(o) PROVE CouponTypeOK'
  BY <1>7, RedeemType DEF FinalizePaymentIntent
<1>8. CASE UpdateCoupon \/ RemoveCoupon
  BY <1>8, AdminTerms, AdminType
<1>9. CASE InvalidateCouponCaches \/ PurgeLost
  BY <1>9 DEF InvalidateCouponCaches, PurgeLost, CouponTypeOK
<1>10. CASE CopyExpires \/ NextDay
  BY <1>10, LimitAssumption DEF CopyExpires, NextDay, CouponTypeOK, Day
<1>11. CASE UNCHANGED couponVars
  BY <1>11 DEF couponVars, CouponTypeOK
<1> QED
  BY <1>1, <1>2, <1>3, <1>4, <1>5, <1>6, <1>7, <1>8, <1>9, <1>10, <1>11 DEF CouponNext

LEMMA CouponTypeInit == CouponInit => CouponTypeOK
<1> SUFFICES ASSUME CouponInit PROVE CouponTypeOK
  OBVIOUS
<1>1. coupon \in CouponDoc
  BY DEF CouponInit, CouponDoc
<1>2. At("idle", FALSE) \in CheckoutState
  BY LimitAssumption DEF At, CheckoutState, Stage, Day
<1>3. \A o \in Checkout : checkout[o].stage # "filling"
  BY DEF CouponInit, At
<1>4. checkout \in [Checkout -> CheckoutState]
  BY <1>2 DEF CouponInit
<1>5. now \in Day
  BY LimitAssumption DEF CouponInit, Day
<1> QED
  BY <1>1, <1>3, <1>4, <1>5 DEF CouponInit, CouponTypeOK

(* Every variable keeps its type, whatever the numbers of checkouts, users,    *)
(* days and admin writes.                                                      *)
THEOREM CouponTyped == CouponSpec => []CouponTypeOK
<1> QED
  BY CouponTypeInit, CouponTypeStep, PTL DEF CouponSpec

-----------------------------------------------------------------------------
(* Uses                                                                        *)

UsesOf(R, u) == {o \in R : UserOf[o] = u}

LEMMA UsesGrow ==
    ASSUME NEW R \in SUBSET Checkout, NEW o \in Checkout \ R
    PROVE  /\ Cardinality(R) \in Nat
           /\ Cardinality(R \cup {o}) = Cardinality(R) + 1
           /\ \A u \in User :
                 Cardinality(UsesOf(R \cup {o}, u)) =
                 IF u = UserOf[o] THEN Cardinality(UsesOf(R, u)) + 1
                                  ELSE Cardinality(UsesOf(R, u))
<1>1. IsFiniteSet(R)
  BY UserAssumption, FS_Subset
<1>2. Cardinality(R) \in Nat /\ Cardinality(R \cup {o}) = Cardinality(R) + 1
  BY <1>1, FS_CardinalityType, FS_AddElement
<1>3. ASSUME NEW u \in User
      PROVE  Cardinality(UsesOf(R \cup {o}, u)) =
             IF u = UserOf[o] THEN Cardinality(UsesOf(R, u)) + 1
                              ELSE Cardinality(UsesOf(R, u))
  <2>1. IsFiniteSet(UsesOf(R, u)) /\ o \notin UsesOf(R, u)
    BY <1>1, FS_Subset DEF UsesOf
  <2>2. UsesOf(R \cup {o}, u) = IF u = UserOf[o] THEN UsesOf(R, u) \cup {o} ELSE UsesOf(R, u)
    BY DEF UsesOf
  <2>3. Cardinality(UsesOf(R, u) \cup {o}) = Cardinality(UsesOf(R, u)) + 1
    BY <2>1, FS_AddElement
  <2> QED
    BY <2>2, <2>3
<1> QED
  BY <1>2, <1>3

(* A step of placing an order: it counts a use, or it changes nothing of the   *)
(* coupon and denies it.                                                       *)
LEMMA RedeemEffect ==
    ASSUME CouponTypeOK, NEW o \in Checkout, NEW s \in {"conflict", "uncounted"},
           RedeemInTransaction(o, s)
    PROVE  /\ \A p \in Checkout \ {o} : checkout'[p] = checkout[p]
           /\ UNCHANGED <<fetched, cache, now>>
           /\ \/ /\ Valid(coupon, UserOf[o], TRUE)
                 /\ coupon' = WithUse(UserOf[o]) /\ redeemed' = redeemed \cup {o}
                 /\ checkout'[o].stage = "counted"
              \/ /\ ~Valid(coupon, UserOf[o], TRUE) \/ coupon.terms.targeted
                 /\ UNCHANGED <<coupon, redeemed>>
                 /\ checkout'[o].stage = s
                 /\ checkout'[o].raced <=> coupon.rev # checkout[o].rev \/ now # checkout[o].day
<1>1. CASE Redeemable(o)
  <2>1. checkout' = Placed(o, "counted") /\ "counted" \in Stage
    BY <1>1 DEF RedeemInTransaction, Stage
  <2>2. checkout'[o].stage = "counted" /\ \A p \in Checkout \ {o} : checkout'[p] = checkout[p]
    BY <2>1, PlacedType
  <2>3. Valid(coupon, UserOf[o], TRUE)
    BY <1>1 DEF Redeemable, Valid
  <2> QED
    BY <1>1, <2>2, <2>3 DEF RedeemInTransaction
<1>2. CASE ~Redeemable(o)
  <2>1. checkout' = Placed(o, s) /\ s \in Stage
    BY <1>2 DEF RedeemInTransaction, Stage
  <2>2. /\ checkout'[o].stage = s /\ \A p \in Checkout \ {o} : checkout'[p] = checkout[p]
        /\ checkout'[o].raced <=> coupon.rev # checkout[o].rev \/ now # checkout[o].day
    BY <2>1, PlacedType
  <2>3. ~Valid(coupon, UserOf[o], TRUE) \/ coupon.terms.targeted
    BY <1>2 DEF Redeemable, Valid
  <2> QED
    BY <1>2, <2>2, <2>3 DEF RedeemInTransaction
<1> QED
  BY <1>1, <1>2

(* Nothing else touches what is counted.                                       *)
LEMMA OtherSteps ==
    ASSUME CouponTypeOK, [CouponNext]_couponVars,
           \A o \in Checkout : ~CreateCodOrder(o) /\ ~FinalizePaymentIntent(o)
    PROVE  /\ redeemed' = redeemed
           /\ coupon'.usedCount = coupon.usedCount /\ coupon'.usedBy = coupon.usedBy
           /\ \A o \in Checkout : checkout'[o].stage \in {"counted", "conflict", "uncounted"}
                  \/ checkout[o].stage \in {"counted", "conflict", "uncounted"}
                  => checkout'[o] = checkout[o]
<1> DEFINE Settled == {"counted", "conflict", "uncounted"}
<1>1. ASSUME NEW o \in Checkout, NEW c \in CouponDoc, NEW s \in {"invalid", "plain"},
             checkout[o].stage \in {"idle", "filling"},
             checkout' = Evaluated(o, c, s), UNCHANGED <<coupon, redeemed>>
      PROVE  /\ redeemed' = redeemed
             /\ coupon'.usedCount = coupon.usedCount /\ coupon'.usedBy = coupon.usedBy
             /\ \A p \in Checkout : checkout'[p].stage \in Settled \/ checkout[p].stage \in Settled
                    => checkout'[p] = checkout[p]
  BY <1>1, EvaluatedType
<1>2. ASSUME NEW o \in Checkout, EvaluateCachedCode(o) PROVE UNCHANGED <<coupon, redeemed>> /\ cache \in CouponDoc
                /\ checkout' = Evaluated(o, cache, "invalid") /\ checkout[o].stage = "idle"
  BY <1>2 DEF EvaluateCachedCode, CouponTypeOK
<1>3. ASSUME NEW o \in Checkout, SetCachedCouponByCode(o) PROVE UNCHANGED <<coupon, redeemed>> /\ fetched[o] \in CouponDoc
                /\ checkout' = Evaluated(o, fetched[o], "invalid") /\ checkout[o].stage = "filling"
  BY <1>3 DEF SetCachedCouponByCode, CouponTypeOK
<1>4. ASSUME NEW o \in Checkout, EvaluateCartCoupon(o) PROVE UNCHANGED <<coupon, redeemed>> /\ coupon \in CouponDoc
                /\ checkout' = Evaluated(o, coupon, "plain") /\ checkout[o].stage = "idle"
  BY <1>4 DEF EvaluateCartCoupon, CouponTypeOK
<1>5. ASSUME NEW o \in Checkout, FindCouponByCode(o) \/ CreateRazorpayIntent(o)
      PROVE  /\ UNCHANGED <<coupon, redeemed>>
             /\ \A p \in Checkout : checkout'[p].stage \in Settled \/ checkout[p].stage \in Settled
                    => checkout'[p] = checkout[p]
  BY <1>5 DEF FindCouponByCode, CreateRazorpayIntent, CouponTypeOK, CheckoutState
<1>6. CASE UpdateCoupon \/ RemoveCoupon
  BY <1>6, AdminTerms, AdminType
<1>7. CASE InvalidateCouponCaches \/ PurgeLost \/ CopyExpires \/ NextDay \/ UNCHANGED couponVars
  BY <1>7 DEF InvalidateCouponCaches, PurgeLost, CopyExpires, NextDay, couponVars
<1> HIDE DEF Settled
<1> QED
  BY <1>1, <1>2, <1>3, <1>4, <1>5, <1>6, <1>7 DEF CouponNext, Settled

LEMMA UsageStep == CouponTypeOK /\ UsageAccounted /\ [CouponNext]_couponVars => UsageAccounted'
<1> SUFFICES ASSUME CouponTypeOK, UsageAccounted, [CouponNext]_couponVars PROVE UsageAccounted'
  OBVIOUS
<1>1. ASSUME NEW o \in Checkout, NEW s \in {"conflict", "uncounted"},
             checkout[o].stage # "counted", RedeemInTransaction(o, s)
      PROVE  UsageAccounted'
  <2>1. CASE coupon' = WithUse(UserOf[o]) /\ redeemed' = redeemed \cup {o} /\ checkout'[o].stage = "counted"
    <3>1. redeemed \in SUBSET Checkout /\ o \in Checkout \ redeemed
      BY <1>1 DEF UsageAccounted
    <3>2. /\ coupon'.usedCount = coupon.usedCount + 1
          /\ coupon'.usedBy = [coupon.usedBy EXCEPT ![UserOf[o]] = @ + 1]
      BY <2>1 DEF WithUse
    <3>3. redeemed' = {p \in Checkout : checkout'[p].stage = "counted"}
      <4>1. redeemed = {p \in Checkout : checkout[p].stage = "counted"}
        BY DEF UsageAccounted
      <4>2. \A p \in Checkout \ {o} : checkout'[p] = checkout[p]
        BY <1>1, RedeemEffect
      <4> QED
        BY <2>1, <3>1, <4>1, <4>2
    <3>4. Cardinality(redeemed') = coupon'.usedCount
      <4>1. coupon.usedCount = Cardinality(redeemed)
        BY DEF UsageAccounted
      <4>2. Cardinality(redeemed \cup {o}) = Cardinality(redeemed) + 1
        BY <3>1, UsesGrow
      <4> QED
        BY <2>1, <3>2, <4>1, <4>2
    <3>5. ASSUME NEW u \in User PROVE coupon'.usedBy[u] = Cardinality(UsesOf(redeemed', u))
      <4>1. coupon.usedBy \in [User -> Nat] /\ coupon.usedBy[u] = Cardinality(UsesOf(redeemed, u))
        BY DEF CouponTypeOK, CouponDoc, UsageAccounted, UsesOf
      <4>2. Cardinality(UsesOf(redeemed', u)) =
            IF u = UserOf[o] THEN Cardinality(UsesOf(redeemed, u)) + 1
                             ELSE Cardinality(UsesOf(redeemed, u))
        BY <2>1, <3>1, UsesGrow
      <4> QED
        BY <3>2, <4>1, <4>2
    <3> QED
      BY <3>3, <3>4, <3>5 DEF UsageAccounted, UsesOf
  <2>2. CASE UNCHANGED <<coupon, redeemed>> /\ checkout'[o].stage = s
    <3>1. \A p \in Checkout \ {o} : checkout'[p] = checkout[p]
      BY <1>1, RedeemEffect
    <3>2. {p \in Checkout : checkout'[p].stage = "counted"} = {p \in Checkout : checkout[p].stage = "counted"}
      BY <1>1, <2>2, <3>1
    <3> QED
      BY <2>2, <3>2 DEF UsageAccounted
  <2> QED
    BY <1>1, <2>1, <2>2, RedeemEffect
<1>2. ASSUME NEW o \in Checkout, CreateCodOrder(o) \/ FinalizePaymentIntent(o)
      PROVE  UsageAccounted'
  BY <1>1, <1>2 DEF CreateCodOrder, FinalizePaymentIntent
<1>3. CASE \A o \in Checkout : ~CreateCodOrder(o) /\ ~FinalizePaymentIntent(o)
  BY <1>3, OtherSteps DEF UsageAccounted
<1> QED
  BY <1>2, <1>3

(* The counters of the coupon and the redemption records always agree, and the *)
(* orders they name are the orders placed with a use.                          *)
THEOREM UsageIsAccounted == CouponSpec => []UsageAccounted
<1>1. CouponInit => UsageAccounted
  <2> SUFFICES ASSUME CouponInit PROVE UsageAccounted
    OBVIOUS
  <2>1. \A o \in Checkout : checkout[o].stage # "counted"
    BY DEF CouponInit, At
  <2>2. \A u \in User : {o \in redeemed : UserOf[o] = u} = {}
    BY DEF CouponInit
  <2>3. redeemed = {} /\ coupon.usedCount = 0 /\ \A u \in User : coupon.usedBy[u] = 0
    BY DEF CouponInit
  <2> QED
    BY <2>1, <2>2, <2>3, FS_EmptySet DEF UsageAccounted
<1> QED
  BY <1>1, UsageStep, CouponTypeInit, CouponTypeStep, PTL DEF CouponSpec

(* A use is counted only within the limits, the dates and the switch in force  *)
(* when its order is placed, whatever copy the checkout was promised from.     *)
THEOREM UsesStayWithinLimits == CouponSpec => CountedWithinLimits
<1>1. CouponTypeOK /\ [CouponNext]_couponVars =>
        [\A o \in redeemed' \ redeemed :
            LET t == coupon'.terms IN
            /\ t.isActive /\ now <= t.expiry
            /\ t.usageLimit = NoLimit \/ coupon'.usedCount <= t.usageLimit
            /\ coupon'.usedBy[UserOf[o]] <= t.userUsageLimit]_couponVars
  <2> SUFFICES ASSUME CouponTypeOK, [CouponNext]_couponVars, NEW o \in redeemed' \ redeemed
               PROVE  LET t == coupon'.terms IN
                      /\ t.isActive /\ now <= t.expiry
                      /\ t.usageLimit = NoLimit \/ coupon'.usedCount <= t.usageLimit
                      /\ coupon'.usedBy[UserOf[o]] <= t.userUsageLimit
    OBVIOUS
  <2>1. PICK p \in Checkout : CreateCodOrder(p) \/ FinalizePaymentIntent(p)
    BY OtherSteps
  <2>2. PICK s \in {"conflict", "uncounted"} : RedeemInTransaction(p, s)
    BY <2>1 DEF CreateCodOrder, FinalizePaymentIntent
  <2>3. o = p /\ Valid(coupon, UserOf[o], TRUE) /\ coupon' = WithUse(UserOf[o])
    BY <2>2, RedeemEffect
  <2>4. /\ coupon'.terms = coupon.terms /\ coupon'.usedCount = coupon.usedCount + 1
        /\ coupon'.usedBy[UserOf[o]] = coupon.usedBy[UserOf[o]] + 1
    BY <2>1, <2>3, UserAssumption DEF WithUse, CouponTypeOK, CouponDoc
  <2>5. /\ coupon.usedCount \in Nat /\ coupon.usedBy[UserOf[o]] \in Nat
        /\ coupon.terms.usageLimit \in Nat /\ coupon.terms.userUsageLimit \in Nat
    BY <2>1, <2>3, UserAssumption, LimitAssumption DEF CouponTypeOK, CouponDoc, Terms
  <2> QED
    BY <2>3, <2>4, <2>5 DEF Valid, HasUsesLeft, HasUsesFor
<1> QED
  BY <1>1, CouponTypeInit, CouponTypeStep, PTL DEF CouponSpec, CountedWithinLimits

-----------------------------------------------------------------------------
(* Denials                                                                     *)

LEMMA DatedStep == CouponTypeOK /\ CopiesAreDated /\ [CouponNext]_couponVars => CopiesAreDated'
<1> SUFFICES ASSUME CouponTypeOK, CopiesAreDated, [CouponNext]_couponVars PROVE CopiesAreDated'
  OBVIOUS
<1>0. coupon \in CouponDoc /\ coupon.rev \in Nat /\ now \in Nat
  BY LimitAssumption DEF CouponTypeOK, CouponDoc, Day
<1>1. \A o \in Checkout : checkout[o].rev \in Nat /\ checkout[o].day \in Nat
  BY LimitAssumption DEF CouponTypeOK, CheckoutState, Day
<1>2. ASSUME NEW o \in Checkout, NEW c \in CouponDoc, NEW s \in {"invalid", "plain"}, Dated(c),
             checkout' = Evaluated(o, c, s), UNCHANGED <<coupon, now>>
      PROVE  /\ \A p \in Checkout : checkout'[p].stage \in {"promised", "intent"} => PromiseDated(p)'
             /\ \A p \in Checkout \ {o} : checkout'[p] = checkout[p]
             /\ checkout'[o].stage # "filling"
  <2>1. \A p \in Checkout \ {o} : checkout'[p] = checkout[p]
    BY <1>2, EvaluatedType
  <2>2. checkout'[o].stage \in {"promised", "intent"} =>
            /\ checkout'[o].rev = c.rev /\ checkout'[o].day = now /\ Valid(c, UserOf[o], TRUE)
    BY <1>2, EvaluatedType
  <2>3. checkout'[o].stage \in {"promised", "intent"} => PromiseDated(o)'
    BY <1>0, <1>2, <2>2 DEF PromiseDated, Dated, Valid, HasUsesLeft, HasUsesFor
  <2>4. ASSUME NEW p \in Checkout \ {o}, checkout'[p].stage \in {"promised", "intent"}
        PROVE  PromiseDated(p)'
    BY <1>2, <2>1, <2>4 DEF CopiesAreDated, PromiseDated, Valid, HasUsesLeft, HasUsesFor
  <2> QED
    BY <1>2, <2>1, <2>3, <2>4, EvaluatedType
<1>3. ASSUME NEW o \in Checkout, EvaluateCachedCode(o) PROVE CopiesAreDated'
  <2>1. /\ cache \in CouponDoc /\ Dated(cache) /\ checkout' = Evaluated(o, cache, "invalid")
        /\ UNCHANGED <<coupon, fetched, cache, now>>
    BY <1>3 DEF EvaluateCachedCode, CouponTypeOK, CopiesAreDated
  <2> QED
    BY <1>2, <2>1 DEF CopiesAreDated, Dated
<1>4. ASSUME NEW o \in Checkout, FindCouponByCode(o) PROVE CopiesAreDated'
  <2>1. /\ UNCHANGED <<coupon, cache, now>>
        /\ \A p \in Checkout : checkout'[p].stage \in {"promised", "intent"} => checkout'[p] = checkout[p]
        /\ \A p \in Checkout : checkout'[p].stage = "filling" =>
              fetched'[p] = coupon \/ (checkout[p].stage = "filling" /\ fetched'[p] = fetched[p])
    BY <1>4 DEF FindCouponByCode, CouponTypeOK, CheckoutState
  <2>2. Dated(coupon)
    BY <1>0 DEF Dated
  <2>3. \A p \in Checkout : checkout'[p].stage = "filling" => Dated(fetched[p])' 
    BY <2>1, <2>2 DEF CopiesAreDated, Dated
  <2>4. \A p \in Checkout : checkout'[p].stage \in {"promised", "intent"} => PromiseDated(p)'
    BY <2>1 DEF CopiesAreDated, PromiseDated, Valid, HasUsesLeft, HasUsesFor
  <2> QED
    BY <2>1, <2>3, <2>4 DEF CopiesAreDated, Dated
<1>5. ASSUME NEW o \in Checkout, SetCachedCouponByCode(o) PROVE CopiesAreDated'
  <2>1. /\ fetched[o] \in CouponDoc /\ Dated(fetched[o]) /\ checkout' = Evaluated(o, fetched[o], "invalid")
        /\ UNCHANGED <<coupon, now>> /\ cache' = fetched[o]
        /\ \A p \in Checkout \ {o} : fetched'[p] = fetched[p]
    BY <1>5 DEF SetCachedCouponByCode, CouponTypeOK, CopiesAreDated
  <2> QED
    BY <1>2, <2>1 DEF CopiesAreDated, Dated
<1>6. ASSUME NEW o \in Checkout, EvaluateCartCoupon(o) PROVE CopiesAreDated'
  <2>1. /\ Dated(coupon) /\ checkout' = Evaluated(o, coupon, "plain")
        /\ UNCHANGED <<coupon, fetched, cache, now>>
    BY <1>0, <1>6 DEF EvaluateCartCoupon, Dated
  <2> QED
    BY <1>0, <1>2, <2>1 DEF CopiesAreDated, Dated
<1>7. ASSUME coupon'.rev = coupon.rev + 1, UNCHANGED <<fetched, cache, now>>,
             \A p \in Checkout : checkout'[p].stage \in {"filling", "promised", "intent"}
                => checkout'[p] = checkout[p]
      PROVE  CopiesAreDated'
  <2>1. /\ cache # NoCopy => cache.rev \in Nat
        /\ \A p \in Checkout : checkout[p].stage = "filling" => fetched[p].rev \in Nat
    BY DEF CouponTypeOK, CouponDoc
  <2>2. cache' # NoCopy => Dated(cache)'
    BY <1>0, <1>7, <2>1 DEF CopiesAreDated, Dated
  <2>3. \A p \in Checkout : checkout'[p].stage = "filling" => Dated(fetched[p])'
    BY <1>0, <1>7, <2>1 DEF CopiesAreDated, Dated
  <2>4. ASSUME NEW p \in Checkout, checkout'[p].stage \in {"promised", "intent"}
        PROVE  PromiseDated(p)'
    <3>1. /\ checkout'[p] = checkout[p]
          /\ checkout[p].rev <= coupon.rev /\ checkout[p].day <= now
      BY <1>7, <2>4 DEF CopiesAreDated, PromiseDated
    <3>2. /\ checkout'[p].rev <= coupon'.rev /\ checkout'[p].day <= now'
          /\ ~(checkout'[p].rev = coupon'.rev /\ checkout'[p].day = now')
      BY <1>0, <1>1, <1>7, <3>1
    <3> QED
      BY <3>2 DEF PromiseDated
  <2> QED
    BY <2>2, <2>3, <2>4 DEF CopiesAreDated
<1>8. ASSUME NEW o \in Checkout, NEW s \in {"conflict", "uncounted"}, RedeemInTransaction(o, s)
      PROVE  CopiesAreDated'
  <2>1. \A p \in Checkout : checkout'[p].stage \in {"filling", "promised", "intent"}
                => checkout'[p] = checkout[p]
    BY <1>8, RedeemEffect
  <2>2. UNCHANGED <<fetched, cache, now>>
    BY <1>8, RedeemEffect
  <2>3. CASE coupon' = WithUse(UserOf[o])
    BY <1>7, <2>1, <2>2, <2>3 DEF WithUse
  <2>4. CASE UNCHANGED coupon
    BY <2>1, <2>2, <2>4 DEF CopiesAreDated, Dated, PromiseDated, Valid, HasUsesLeft, HasUsesFor
  <2> QED
    BY <1>8, <2>3, <2>4, RedeemEffect
<1>9. ASSUME NEW o \in Checkout, CreateRazorpayIntent(o) PROVE CopiesAreDated'
  <2>1. /\ UNCHANGED <<coupon, fetched, cache, now>> /\ checkout[o].stage = "promised"
        /\ \A p \in Checkout : checkout'[p].rev = checkout[p].rev /\ checkout'[p].day = checkout[p].day
        /\ checkout'[o].stage = "intent"
        /\ \A p \in Checkout \ {o} : checkout'[p].stage = checkout[p].stage
    BY <1>9 DEF CreateRazorpayIntent, CouponTypeOK, CheckoutState
  <2> QED
    BY <2>1 DEF CopiesAreDated, Dated, PromiseDated, Valid, HasUsesLeft, HasUsesFor
<1>10. CASE UpdateCoupon \/ RemoveCoupon
  BY <1>7, <1>10, AdminTerms, AdminType
<1>11. CASE InvalidateCouponCaches \/ PurgeLost \/ CopyExpires \/ UNCHANGED couponVars
  BY <1>11 DEF InvalidateCouponCaches, PurgeLost, CopyExpires, couponVars, CopiesAreDated, Dated,
               PromiseDated, Valid, HasUsesLeft, HasUsesFor
<1>12. CASE NextDay
  <2>1. now' = now + 1 /\ UNCHANGED <<coupon, checkout, fetched, cache>>
    BY <1>12 DEF NextDay
  <2>2. ASSUME NEW p \in Checkout, checkout'[p].stage \in {"promised", "intent"}
        PROVE  PromiseDated(p)'
    <3>1. /\ checkout'[p] = checkout[p]
          /\ checkout[p].rev <= coupon.rev /\ checkout[p].day <= now
      BY <2>1, <2>2 DEF CopiesAreDated, PromiseDated
    <3>2. /\ checkout'[p].rev <= coupon'.rev /\ checkout'[p].day <= now'
          /\ ~(checkout'[p].rev = coupon'.rev /\ checkout'[p].day = now')
      BY <1>0, <1>1, <2>1, <3>1
    <3> QED
      BY <3>2 DEF PromiseDated
  <2> QED
    BY <2>1, <2>2 DEF CopiesAreDated, Dated
<1> QED
  BY <1>3, <1>4, <1>5, <1>6, <1>8, <1>9, <1>10, <1>11, <1>12
     DEF CouponNext, CreateCodOrder, FinalizePaymentIntent

LEMMA DenialStep ==
    ASSUME CouponTypeOK, CopiesAreDated, [CouponNext]_couponVars,
           NEW p \in Checkout, Denied(p)', ~Denied(p), ~coupon.terms.targeted
    PROVE  checkout'[p].raced
<1>1. PICK o \in Checkout : CreateCodOrder(o) \/ FinalizePaymentIntent(o)
  BY OtherSteps DEF Denied
<1>2. PICK s \in {"conflict", "uncounted"} : RedeemInTransaction(o, s)
  BY <1>1 DEF CreateCodOrder, FinalizePaymentIntent
<1>3. p = o
  BY <1>2, RedeemEffect DEF Denied
<1>4. /\ ~Valid(coupon, UserOf[o], TRUE)
      /\ checkout'[o].raced <=> coupon.rev # checkout[o].rev \/ now # checkout[o].day
  BY <1>2, <1>3, RedeemEffect DEF Denied
<1>5. checkout[o].stage \in {"promised", "intent"}
  BY <1>1 DEF CreateCodOrder, FinalizePaymentIntent
<1> QED
  BY <1>3, <1>4, <1>5 DEF CopiesAreDated, PromiseDated

(* A coupon for every bag and every customer is denied to an order only if it  *)
(* was used, edited or outlived since the copy of the promise was taken.       *)
THEOREM DenialsHaveAReason == CouponSpec => DeniedOnlyByChange
<1>1. CouponInit => CopiesAreDated
  <2> SUFFICES ASSUME CouponInit PROVE CopiesAreDated
    OBVIOUS
  <2>1. cache = NoCopy /\ \A o \in Checkout : checkout[o].stage = "idle"
    BY DEF CouponInit, At
  <2> QED
    BY <2>1 DEF CopiesAreDated
<1>2. CouponTypeOK /\ CopiesAreDated /\ [CouponNext]_couponVars =>
        [\A o \in Checkout :
            Denied(o)' /\ ~Denied(o) /\ ~coupon.terms.targeted => checkout'[o].raced]_couponVars
  BY DenialStep
<1> QED
  BY <1>1, <1>2, DatedStep, CouponTypeInit, CouponTypeStep, PTL DEF CouponSpec, DeniedOnlyByChange
=============================================================================
