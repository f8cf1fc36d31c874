-------------------------------- MODULE Cart --------------------------------
(* The cart of one user: cartMutationService.ts under the Redis lock of        *)
(* cartLockService.ts, the repricing that every read of the cart writes back   *)
(* (cartHydrationService.ts), and a checkout that deletes the cart it ordered. *)
(* The lock has an owner's token but a TTL of 8 seconds, against Mongo calls   *)
(* of up to 5 seconds each; readers and the checkout do not take it.           *)
(*                                                                             *)
(* A line's quantity is the set of requests it adds up, so no two lines are    *)
(* alike and the lines are a set. Their order matters only when an item has    *)
(* two lines; then either may be the first.                                    *)
EXTENDS Integers

CONSTANTS Op,           \* requests that change the cart
          NoOp,
          Item,         \* cartItemIds: a variant with its custom answers
          Jobs,         \* what the requests may be: a kind and an item for each
          MaxReprices,  \* bound: reads that find a price changed
          MaxCheckouts, \* bound: checkouts
          MaxCrashes    \* bound: crashes

ASSUME OpAssumption ==
    /\ Jobs \subseteq [Op -> [kind : {"add", "update", "remove", "clear", "coupon", "none"},
                              item : Item]]
    /\ NoOp \notin Op
ASSUME BoundAssumption ==
    MaxReprices \in Nat /\ MaxCheckouts \in Nat /\ MaxCrashes \in Nat

VARIABLES
    job,        \* what each request does, chosen at the start
    cart,       \* the Cart document
    made,       \* carts created so far
    lock,       \* lock:cart:<user>: whose token it holds
    phase,      \* where each request is
    seen,       \* the version bumpCartVersion has read
    pending,    \* repriced carts being written back, as they were read
    reprices,
    checkout,   \* the cart a checkout in progress has read
    checkouts,
    crashes,
    added,      \* requests whose units were written to the cart (history)
    taken,      \* requests whose units were replaced, removed or ordered (history)
    early,      \* the lock's TTL has ended under a live request (history)
    overtaken   \* the cart has changed under a write-back or a checkout (history)

vars == <<job, cart, made, lock, phase, seen, pending, reprices, checkout, checkouts,
          crashes, added, taken, early, overtaken>>
readers == <<pending, reprices, checkout, checkouts>>
history == <<added, taken, early, overtaken>>

Line == [item : Item, from : (SUBSET Op) \ {{}}]
CartDoc == [id : Nat, version : Nat, lines : SUBSET Line]
NoCart == [id |-> 0, version |-> 0, lines |-> {}]

Phase == {"waiting", "locked", "pushing", "bumping", "swapping", "emptied",
          "hydrating", "releasing", "unlocking", "done"}

(* Inside withCartMutationLock, up to its finally.                             *)
Working == {"locked", "pushing", "bumping", "swapping", "emptied", "hydrating"}
Critical == Working \cup {"releasing", "unlocking"}

TypeOK ==
    /\ job \in Jobs
    /\ cart \in CartDoc
    /\ made \in Nat
    /\ lock \in Op \cup {NoOp}
    /\ phase \in [Op -> Phase]
    /\ seen \in [Op -> Nat]
    /\ pending \subseteq CartDoc
    /\ checkout \in CartDoc
    /\ reprices \in Nat /\ checkouts \in Nat /\ crashes \in Nat
    /\ added \subseteq Op /\ taken \subseteq Op
    /\ early \in BOOLEAN /\ overtaken \in BOOLEAN

Init ==
    /\ job \in Jobs
    /\ cart = NoCart
    /\ made = 0
    /\ lock = NoOp
    /\ phase = [o \in Op |-> IF job[o].kind = "none" THEN "done" ELSE "waiting"]
    /\ seen = [o \in Op |-> 0]
    /\ pending = {}
    /\ reprices = 0
    /\ checkout = NoCart
    /\ checkouts = 0
    /\ crashes = 0
    /\ added = {}
    /\ taken = {}
    /\ early = FALSE
    /\ overtaken = FALSE

Exists == cart.id # 0
Units(lines) == UNION {line.from : line \in lines}

(* items.$ is the first line of the item.                                      *)
LinesOf(i) == {line \in cart.lines : line.item = i}
Has(i) == LinesOf(i) # {}

Step(o, from, to) ==
    /\ phase[o] = from
    /\ phase' = [phase EXCEPT ![o] = to]

Write(lines) == cart' = [cart EXCEPT !.lines = lines, !.version = @ + 1]
WriteFrom(line, from) == Write((cart.lines \ {line}) \cup {[line EXCEPT !.from = from]})

-----------------------------------------------------------------------------
(* withCartMutationLock                                                        *)

(* Mutant: SET without NX.                                                     *)
AcquireOverwriting(o) ==
    /\ Step(o, "waiting", "locked")
    /\ lock' = o
    /\ UNCHANGED <<job, cart, made, seen, readers, crashes, history>>

Acquire(o) ==
    /\ lock = NoOp
    /\ Step(o, "waiting", "locked")
    /\ lock' = o
    /\ UNCHANGED <<job, cart, made, seen, readers, crashes, history>>

(* LOCK_MAX_WAIT_MS have passed: 409.                                          *)
GiveUp(o) ==
    /\ Step(o, "waiting", "done")
    /\ UNCHANGED <<job, cart, made, lock, seen, readers, crashes, history>>

LockExpires ==
    /\ lock # NoOp
    /\ lock' = NoOp
    /\ early' = (early \/ phase[lock] \in Critical)
    /\ UNCHANGED <<job, cart, made, phase, seen, readers, crashes, added, taken, overtaken>>

(* The finally: GET, compare the token, then DEL.                              *)
Release(o) ==
    /\ Step(o, "releasing", IF lock = o THEN "unlocking" ELSE "done")
    /\ UNCHANGED <<job, cart, made, lock, seen, readers, crashes, history>>

Unlock(o) ==
    /\ Step(o, "unlocking", "done")
    /\ lock' = NoOp
    /\ UNCHANGED <<job, cart, made, seen, readers, crashes, history>>

(* A call to Mongo or Redis throws inside the lock.                            *)
Throw(o) ==
    /\ phase[o] \in Working
    /\ phase' = [phase EXCEPT ![o] = "releasing"]
    /\ UNCHANGED <<job, cart, made, lock, seen, readers, crashes, history>>

Crash(o) ==
    /\ phase[o] \in Critical
    /\ crashes < MaxCrashes
    /\ crashes' = crashes + 1
    /\ phase' = [phase EXCEPT ![o] = "done"]
    /\ UNCHANGED <<job, cart, made, lock, seen, readers, history>>

-----------------------------------------------------------------------------
(* addItem, updateItemQty, clearCart                                           *)

(* $inc of the item's line when the cart has one; otherwise a second call      *)
(* pushes a line.                                                              *)
IncLine(o) ==
    /\ job[o].kind = "add"
    /\ IF Has(job[o].item)
       THEN /\ Step(o, "locked", "hydrating")
            /\ \E line \in LinesOf(job[o].item) : WriteFrom(line, line.from \cup {o})
            /\ added' = added \cup {o}
       ELSE Step(o, "locked", "pushing") /\ UNCHANGED <<cart, added>>
    /\ UNCHANGED <<job, made, lock, seen, readers, crashes, taken, early, overtaken>>

PushLine(o) ==
    /\ Step(o, "pushing", "hydrating")
    /\ LET line == [item |-> job[o].item, from |-> {o}] IN
       IF Exists
       THEN Write(cart.lines \cup {line}) /\ UNCHANGED made
       ELSE /\ cart' = [id |-> made + 1, version |-> 1, lines |-> {line}]
            /\ made' = made + 1
    /\ added' = added \cup {o}
    /\ UNCHANGED <<job, lock, seen, readers, crashes, taken, early, overtaken>>

(* $set of the line's quantity, or 404.                                        *)
SetQty(o) ==
    /\ job[o].kind = "update"
    /\ IF Has(job[o].item)
       THEN /\ Step(o, "locked", "hydrating")
            /\ \E line \in LinesOf(job[o].item) :
                  WriteFrom(line, {o}) /\ taken' = taken \cup line.from
            /\ added' = added \cup {o}
       ELSE Step(o, "locked", "releasing") /\ UNCHANGED <<cart, added, taken>>
    /\ UNCHANGED <<job, made, lock, seen, readers, crashes, early, overtaken>>

Clear(o) ==
    /\ job[o].kind = "clear"
    /\ Step(o, "locked", "releasing")
    /\ cart' = NoCart
    /\ taken' = taken \cup Units(cart.lines)
    /\ UNCHANGED <<job, made, lock, seen, readers, crashes, added, early, overtaken>>

-----------------------------------------------------------------------------
(* removeItem, applyCoupon, removeCoupon: the version is read, then the cart   *)
(* written if it still has that version, or else both again                    *)

StartBump(o) ==
    /\ \/ job[o].kind = "coupon"
       \/ job[o].kind = "remove" /\ Has(job[o].item)
    /\ Step(o, "locked", "bumping")
    /\ UNCHANGED <<job, cart, made, lock, seen, readers, crashes, history>>

NothingToRemove(o) ==
    /\ job[o].kind = "remove" /\ ~Has(job[o].item)
    /\ Step(o, "locked", "hydrating")
    /\ UNCHANGED <<job, cart, made, lock, seen, readers, crashes, history>>

(* Without a cart removeItem fails and a coupon is not applied.                *)
ReadVersion(o) ==
    /\ IF Exists
       THEN Step(o, "bumping", "swapping") /\ seen' = [seen EXCEPT ![o] = cart.version]
       ELSE /\ Step(o, "bumping", IF job[o].kind = "remove" THEN "releasing" ELSE "hydrating")
            /\ UNCHANGED seen
    /\ UNCHANGED <<job, cart, made, lock, readers, crashes, history>>

Remaining(o) == cart.lines \ LinesOf(job[o].item)

(* Mutant: the cart is deleted with its last line or not.                     *)
AlwaysEmptied(o) == TRUE

(* The version moved on: bumpCartVersion reads it again, at most 8 times       *)
(* (CART_VERSION_MAX_RETRIES) and with a jittered pause that is left out; the  *)
(* writes an instance allows are fewer, so it never gives up with a 409.       *)
Conflict(o) ==
    /\ ~(Exists /\ cart.version = seen[o])
    /\ Step(o, "swapping", "bumping")
    /\ UNCHANGED <<job, cart, made, lock, seen, readers, crashes, history>>

Emptied(o) == Remaining(o) = {}

Swap(o) ==
    /\ Exists /\ cart.version = seen[o]
    /\ IF job[o].kind = "coupon"
       THEN /\ Step(o, "swapping", "hydrating")
            /\ Write(cart.lines)
            /\ UNCHANGED taken
       ELSE /\ Step(o, "swapping", IF Emptied(o) THEN "emptied" ELSE "hydrating")
            /\ Write(Remaining(o))
            /\ taken' = taken \cup (Units(cart.lines) \ Units(Remaining(o)))
    /\ UNCHANGED <<job, made, lock, seen, readers, crashes, added, early, overtaken>>

(* The user's cart is deleted, whatever it holds by now.                       *)
DeleteEmpty(o) ==
    /\ Step(o, "emptied", "hydrating")
    /\ cart' = NoCart
    /\ UNCHANGED <<job, made, lock, seen, readers, crashes, history>>

-----------------------------------------------------------------------------
(* hydrateTotals                                                               *)

(* A read of the cart that finds a line's price changed writes the lines back  *)
(* as it read them, without waiting, without the lock and without a version.   *)
Hydrate ==
    \/ UNCHANGED <<pending, reprices>>
    \/ /\ Exists /\ cart.lines # {} /\ reprices < MaxReprices
       /\ pending' = pending \cup {cart}
       /\ reprices' = reprices + 1

HydrateAnswer(o) ==
    /\ Step(o, "hydrating", "releasing")
    /\ Hydrate
    /\ UNCHANGED <<job, cart, made, lock, seen, checkout, checkouts, crashes, history>>

GetCart ==
    /\ Hydrate
    /\ UNCHANGED <<job, cart, made, lock, phase, seen, checkout, checkouts, crashes, history>>

(* updateOne({_id}, {$set: {items}}).                                          *)
WriteBack(read) ==
    /\ pending' = pending \ {read}
    /\ IF cart.id = read.id
       THEN /\ cart' = [cart EXCEPT !.lines = read.lines]
            /\ overtaken' = (overtaken \/ cart.version # read.version)
       ELSE UNCHANGED <<cart, overtaken>>
    /\ UNCHANGED <<job, made, lock, phase, seen, reprices, checkout, checkouts, crashes,
                   added, taken, early>>

-----------------------------------------------------------------------------
(* A checkout of the cart: processCartItems, and createCodOrder's delete       *)

ReadCart ==
    /\ Exists /\ cart.lines # {} /\ checkout = NoCart /\ checkouts < MaxCheckouts
    /\ checkout' = cart
    /\ checkouts' = checkouts + 1
    /\ UNCHANGED <<job, cart, made, lock, phase, seen, pending, reprices, crashes, history>>

OrderCart ==
    /\ checkout # NoCart
    /\ checkout' = NoCart
    /\ taken' = taken \cup Units(checkout.lines)
    /\ IF cart.id = checkout.id
       THEN /\ cart' = NoCart
            /\ overtaken' = (overtaken \/ cart.version # checkout.version)
       ELSE UNCHANGED <<cart, overtaken>>
    /\ UNCHANGED <<job, made, lock, phase, seen, pending, reprices, checkouts, crashes,
                   added, early>>

-----------------------------------------------------------------------------

Proceed(o) ==
    \/ Acquire(o) \/ Release(o) \/ Unlock(o)
    \/ IncLine(o) \/ PushLine(o) \/ SetQty(o) \/ Clear(o)
    \/ StartBump(o) \/ NothingToRemove(o) \/ ReadVersion(o) \/ Conflict(o) \/ Swap(o)
    \/ DeleteEmpty(o) \/ HydrateAnswer(o)

Next ==
    \/ \E o \in Op : Proceed(o) \/ GiveUp(o) \/ Throw(o) \/ Crash(o)
    \/ LockExpires
    \/ GetCart
    \/ \E read \in pending : WriteBack(read)
    \/ ReadCart \/ OrderCart

Spec == Init /\ [][Next]_vars

-----------------------------------------------------------------------------
(* Properties                                                                  *)

(* cartLockService.ts: the lock "Prevents concurrent add/update races that     *)
(* create duplicate line items": the $inc-then-$push of one request and the    *)
(* calls of every other, as long as the lock lasts and no stale cart is        *)
(* written back.                                                               *)
OneLinePerItem ==
    ~early /\ ~overtaken =>
        \A k, l \in cart.lines : k.item = l.item => k = l

(* Units written to the cart stay there until a request or an order takes      *)
(* them, whoever creates, empties, deletes and creates the cart again: the     *)
(* delete that follows the removal of the last line takes nothing else.        *)
AddedUnitsStay ==
    ~early /\ ~overtaken => added \subseteq Units(cart.lines) \cup taken
=============================================================================
