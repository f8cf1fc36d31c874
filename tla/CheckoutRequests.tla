-------------------------- MODULE CheckoutRequests --------------------------
(* The checkout requests of one account: `createOrder` of                      *)
(* checkoutController.ts around the Redis lock and the idempotency store of    *)
(* checkoutConcurrency.ts. A double click, a second tab or a client that       *)
(* retries puts several requests in flight; every await lets another request   *)
(* run. The lock is a Redis key without an owner: whoever reaches its finally  *)
(* deletes it, and its TTL runs whether or not the holder is done.             *)
EXTENDS Integers, FiniteSets

CONSTANTS Request,     \* requests of the account
          NoRequest,
          Cod,         \* requests paid cash on delivery; the others by Razorpay
          BuyNow,      \* requests with a buyNowItem; the others order the cart
          Keyed,       \* requests that carry the account's Idempotency-Key
          MaxCarts,    \* bound: carts the customer fills
          MaxCrashes   \* bound: crashes

ASSUME RequestAssumption ==
    /\ Cod \subseteq Request /\ BuyNow \subseteq Request /\ Keyed \subseteq Request
    /\ NoRequest \notin Request
ASSUME BoundAssumption == MaxCarts \in Nat /\ MaxCrashes \in Nat

VARIABLES
    phase,    \* where each request is
    answer,   \* what its client was told
    lock,     \* checkout:lock:<user>: who set it (the key's value is "1")
    early,    \* the TTL has ended under a live holder (history)
    cart,     \* the Cart document, 0 when there is none
    carts,    \* carts filled so far
    ordered,  \* the cart a request read, 0 for none
    made,     \* requests whose order (COD) or payment intent exists
    stored,   \* checkout:idemp:<key>: the request whose answer it holds
    crashes

vars == <<phase, answer, lock, early, cart, carts, ordered, made, stored, crashes>>
shop == <<cart, carts, ordered, made, stored>>

Phase == {"new", "waiting", "locked", "read", "made", "releasing", "done"}
Answer == {"none", "created", "replayed", "blocked", "failed", "lost"}

(* Between acquireCheckoutLockWithWait and the finally.                        *)
Critical == {"locked", "read", "made", "releasing"}

Init ==
    /\ phase = [q \in Request |-> "new"]
    /\ answer = [q \in Request |-> "none"]
    /\ lock = NoRequest
    /\ early = FALSE
    /\ cart = 0
    /\ carts = 0
    /\ ordered = [q \in Request |-> 0]
    /\ made = {}
    /\ stored = NoRequest
    /\ crashes = 0

Step(q, from, to) ==
    /\ phase[q] = from
    /\ phase' = [phase EXCEPT ![q] = to]

Reply(q, a) == answer' = [answer EXCEPT ![q] = a]

-----------------------------------------------------------------------------
(* The lock                                                                    *)

(* Mutant: set without NX.                                                     *)
acquireOverwriting(q) == lock' = q

acquireCheckoutLock(q) == lock = NoRequest /\ lock' = q

(* DEL of the key, whoever set it.                                             *)
releaseCheckoutLock == lock' = NoRequest

(* Mutant: set without EX, so that a dead holder's lock stays.                 *)
LockWithoutTTL ==
    /\ lock # NoRequest /\ phase[lock] \in Critical
    /\ lock' = NoRequest
    /\ early' = TRUE
    /\ UNCHANGED <<phase, answer, shop, crashes>>

(* The TTL ends (15 s, whatever the checkout still has to do).                 *)
LockExpires ==
    /\ lock # NoRequest
    /\ lock' = NoRequest
    /\ early' = (early \/ phase[lock] \in Critical)
    /\ UNCHANGED <<phase, answer, shop, crashes>>

-----------------------------------------------------------------------------
(* createOrder                                                                 *)

(* A stored answer is replayed; otherwise the request goes for the lock. The   *)
(* store is not read again under the lock.                                     *)
ReadKey(q) ==
    /\ IF q \in Keyed /\ stored # NoRequest
       THEN Step(q, "new", "done") /\ Reply(q, "replayed")
       ELSE Step(q, "new", "waiting") /\ UNCHANGED answer
    /\ UNCHANGED <<lock, early, shop, crashes>>

Acquire(q) ==
    /\ Step(q, "waiting", "locked")
    /\ acquireCheckoutLock(q)
    /\ UNCHANGED <<answer, early, shop, crashes>>

(* LOCK_WAIT_MS have passed: 409.                                              *)
GiveUp(q) ==
    /\ Step(q, "waiting", "done")
    /\ Reply(q, "blocked")
    /\ UNCHANGED <<lock, early, shop, crashes>>

(* processBuyNowItem, or processCartItems, which needs a cart; then the order  *)
(* is priced and validated.                                                    *)
ReadItems(q) ==
    /\ q \in BuyNow \/ cart # 0
    /\ Step(q, "locked", "read")
    /\ ordered' = [ordered EXCEPT ![q] = IF q \in BuyNow THEN 0 ELSE cart]
    /\ UNCHANGED <<answer, lock, early, cart, carts, made, stored, crashes>>

(* Mutant: the cart outlives its order.                                        *)
CartAfterKept(q) == cart

(* createCodOrder deletes the cart it was given in the order's transaction; a  *)
(* payment intent leaves it.                                                   *)
CartAfter(q) == IF q \in Cod /\ ordered[q] = cart THEN 0 ELSE cart

Make(q) ==
    /\ Step(q, "read", "made")
    /\ made' = made \cup {q}
    /\ cart' = CartAfter(q)
    /\ UNCHANGED <<answer, lock, early, carts, ordered, stored, crashes>>

(* Mutant: the answer goes out before it is stored, and is not.                *)
AnswerUnstored(q) ==
    /\ Step(q, "made", "releasing")
    /\ Reply(q, "created")
    /\ UNCHANGED <<lock, early, shop, crashes>>

(* The answer is stored under the key, then sent.                              *)
Answered(q) ==
    /\ Step(q, "made", "releasing")
    /\ Reply(q, "created")
    /\ stored' = IF q \in Keyed THEN q ELSE stored
    /\ UNCHANGED <<lock, early, cart, carts, ordered, made, crashes>>

(* Something threw: an empty cart, short stock, the gateway, Redis.            *)
Throw(q) ==
    /\ phase[q] \in {"locked", "read", "made"}
    /\ phase' = [phase EXCEPT ![q] = "releasing"]
    /\ Reply(q, "failed")
    /\ UNCHANGED <<lock, early, shop, crashes>>

Release(q) ==
    /\ Step(q, "releasing", "done")
    /\ releaseCheckoutLock
    /\ UNCHANGED <<answer, early, shop, crashes>>

(* The process dies with the request; the client never hears of it, unless it  *)
(* was answered.                                                               *)
Crash(q) ==
    /\ phase[q] \notin {"new", "done"}
    /\ crashes < MaxCrashes
    /\ crashes' = crashes + 1
    /\ phase' = [phase EXCEPT ![q] = "done"]
    /\ answer' = [answer EXCEPT ![q] = IF @ = "none" THEN "lost" ELSE @]
    /\ UNCHANGED <<lock, early, shop>>

(* The customer puts items into a new cart.                                    *)
FillCart ==
    /\ cart = 0 /\ carts < MaxCarts
    /\ carts' = carts + 1
    /\ cart' = carts + 1
    /\ UNCHANGED <<phase, answer, lock, early, ordered, made, stored, crashes>>

Proceed(q) ==
    \/ ReadKey(q) \/ Acquire(q) \/ ReadItems(q) \/ Make(q) \/ Answered(q)
    \/ Throw(q) \/ Release(q)

Next ==
    \/ \E q \in Request : Proceed(q) \/ GiveUp(q) \/ Crash(q)
    \/ LockExpires \/ FillCart

Spec == Init /\ [][Next]_vars

(* A handler runs to its end, the wait for the lock is bounded, the TTL runs.  *)
FairSpec ==
    /\ Spec
    /\ \A q \in Request : WF_vars(Proceed(q)) /\ WF_vars(GiveUp(q))
    /\ WF_vars(LockExpires)

-----------------------------------------------------------------------------

TypeOK ==
    /\ phase \in [Request -> Phase]
    /\ answer \in [Request -> Answer]
    /\ lock \in Request \cup {NoRequest}
    /\ early \in BOOLEAN
    /\ carts \in 0..MaxCarts /\ cart \in 0..carts
    /\ ordered \in [Request -> 0..carts]
    /\ made \subseteq Request
    /\ stored \in Keyed \cup {NoRequest}
    /\ crashes \in 0..MaxCrashes

(* As long as no checkout outlives the lock's TTL, the account has one         *)
(* checkout in progress, whoever waits, gives up, fails or dies.               *)
OneCheckoutWithinTTL ==
    ~early => \A p, q \in Request :
        phase[p] \in Critical /\ phase[q] \in Critical => p = q

(* As long as no checkout outlives the TTL, one cart becomes at most one COD   *)
(* order: the cart is read under the lock and gone when the lock is released.  *)
CartOrderedOnce ==
    ~early => \A p, q \in (made \cap Cod) \ BuyNow : ordered[p] = ordered[q] => p = q

(* What a retry with the key is answered stands for an order that exists, and  *)
(* within the day the key lives an answered client finds its answer again.     *)
ReplayStandsForOrder ==
    /\ stored # NoRequest => stored \in made
    /\ \A q \in Keyed : answer[q] \in {"created", "replayed"} => stored # NoRequest

(* A checkout that crashed does not shut its account out: the lock it left is  *)
(* free again in the end.                                                      *)
AccountNotShutOut == lock # NoRequest ~> lock = NoRequest
=============================================================================
