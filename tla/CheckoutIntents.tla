--------------------------- MODULE CheckoutIntents ---------------------------
(* Online checkout. `createRazorpayIntent` opens a Razorpay order, takes the   *)
(* stock of the cart and records a CheckoutPaymentIntent that holds it; the    *)
(* customer pays at the gateway; the client's verify call, the webhook or the  *)
(* recovery job turns a captured payment into an order                         *)
(* (`finalizePaymentIntent`); and the auto-cancel job releases the holds of    *)
(* abandoned intents.                                                          *)
(*                                                                             *)
(* Each Mongo transaction is one step: production runs it on a replica set,    *)
(* all or nothing, and a write conflict retries it. The job's release is NOT   *)
(* in a transaction: it claims the intent, then puts the lines back one by one *)
(* and may crash in between. A line's quantity is one unit.                    *)
EXTENDS Integers, FiniteSets

CONSTANTS Intent,     \* checkout intents, each with its own Razorpay order
          Legacy,     \* intents stored without a soft hold
          Sku,        \* variants
          InitStock   \* units of each variant on the shelf at the start

ASSUME IntentAssumption == IsFiniteSet(Intent) /\ Legacy \subseteq Intent
ASSUME StockAssumption == InitStock \in [Sku -> Nat]

VARIABLES
    stock,    \* Product.variants[].stock
    intent,   \* CheckoutPaymentIntent documents
    orders,   \* number of Order documents with the intent's razorpayOrderId
    calls,    \* <<i, source>>: finalization in flight, past its own checks
    paid,     \* what Razorpay knows: no payment, captured in the hold window, or later
    owed,     \* <<i, s>>: released by the running job, not yet put back (job memory)
    lost      \* <<i, s>>: what a crash of the worker left in no document (auxiliary)

vars == <<stock, intent, orders, paid, calls, owed, lost>>

(* Time bands since createdAt: below 15 minutes, until 30 minutes (the recovery *)
(* job looks from here on), until 35 minutes (UNPAID_ORDER_CANCEL_AFTER_MS has  *)
(* passed), and past expiresAt (CHECKOUT_STOCK_HOLD_MS).                        *)
Age == 0 .. 3
RecoveryAge == 1
CutoffAge == 2
ExpiredAge == 3

Source == {"verify", "webhook", "recovery"}

Cart == (SUBSET Sku) \ {{}}

IntentDoc == [doc : {"none", "stored", "dropped"}, age : Age, held : BOOLEAN,
              consumed : BOOLEAN, linked : BOOLEAN, lines : SUBSET Sku]

NoIntent == [doc |-> "none", age |-> 0, held |-> FALSE, consumed |-> FALSE,
             linked |-> FALSE, lines |-> {}]

NewIntent(L, hold) == [doc |-> "stored", age |-> 0, held |-> hold, consumed |-> FALSE,
                       linked |-> FALSE, lines |-> L]

Stored(i) == intent[i].doc = "stored"
Expired(i) == intent[i].age = ExpiredAge
Open(i) == Stored(i) /\ ~intent[i].consumed

Init ==
    /\ stock = InitStock
    /\ intent \in [Intent -> {NoIntent} \cup {NewIntent(L, FALSE) : L \in Cart}]
    /\ \A i \in Intent : Stored(i) <=> i \in Legacy
    /\ orders = [i \in Intent |-> 0]
    /\ paid = [i \in Intent |-> "no"]
    /\ calls = {}
    /\ owed = {}
    /\ lost = {}

-----------------------------------------------------------------------------
(* inventoryService: the conditional decrement of every line and the increment *)

Available(L) == \A s \in L : stock[s] >= 1
Decrement(L) == [s \in Sku |-> IF s \in L THEN stock[s] - 1 ELSE stock[s]]
Increment(s) == [stock EXCEPT ![s] = @ + 1]

-----------------------------------------------------------------------------
(* Checkout and payment                                                        *)

(* One transaction: every line is decremented and the intent stored, or the    *)
(* whole of it is rolled back.                                                 *)
CreateRazorpayIntent(i, L) ==
    /\ intent[i].doc = "none"
    /\ Available(L)
    /\ stock' = Decrement(L)
    /\ intent' = [intent EXCEPT ![i] = NewIntent(L, TRUE)]
    /\ UNCHANGED <<orders, paid, owed, lost, calls>>

(* The gateway takes the money whenever the customer pays; its order does not  *)
(* expire with the intent.                                                     *)
CustomerPays(i) ==
    /\ intent[i].doc # "none"
    /\ paid[i] = "no"
    /\ paid' = [paid EXCEPT ![i] = IF Expired(i) THEN "late" ELSE "in_window"]
    /\ UNCHANGED <<stock, intent, orders, owed, lost, calls>>

(* Three callers turn a captured payment into an order. Each reads the intent  *)
(* first and finalizes some awaits later, when the intent may have changed; a  *)
(* payment-verify lock is held meanwhile, but it expires after 45 s and is     *)
(* released without a token, so nothing here relies on it.                     *)

(* The client's call after paying. It replays the order of a linked intent and *)
(* refuses an expired one before asking the gateway.                           *)
VerifyPayment(i) ==
    /\ Stored(i) /\ paid[i] # "no"
    /\ ~(intent[i].consumed /\ intent[i].linked)
    /\ ~Expired(i)
    /\ calls' = calls \cup {<<i, "verify">>}
    /\ UNCHANGED <<stock, intent, orders, paid, owed, lost>>

(* Razorpay's webhook, delivered never, once or many times.                    *)
HandleRazorpayWebhook(i) ==
    /\ Stored(i) /\ paid[i] # "no"
    /\ ~intent[i].linked
    /\ calls' = calls \cup {<<i, "webhook">>}
    /\ UNCHANGED <<stock, intent, orders, paid, owed, lost>>

(* The recovery job only looks at unconsumed intents between 15 minutes and    *)
(* their expiry.                                                               *)
RunPaymentRecoveryJob(i) ==
    /\ Open(i) /\ paid[i] # "no"
    /\ ~Expired(i)
    /\ intent[i].age >= RecoveryAge
    /\ calls' = calls \cup {<<i, "recovery">>}
    /\ UNCHANGED <<stock, intent, orders, paid, owed, lost>>

(* finalizePaymentIntent when an order with this razorpayOrderId exists: the   *)
(* intent is (re)linked to it.                                                 *)
LinkExistingOrder(i) ==
    /\ orders[i] > 0
    /\ intent' = [intent EXCEPT ![i] = [@ EXCEPT !.consumed = TRUE, !.linked = TRUE]]
    /\ UNCHANGED <<stock, orders>>

(* Mutant: the claim forgets consumedAt null.                                  *)
ClaimConsumed(i) ==
    /\ orders[i] = 0
    /\ ~Expired(i)
    /\ UNCHANGED stock
    /\ intent' = [intent EXCEPT ![i] =
                  [@ EXCEPT !.consumed = TRUE, !.held = FALSE, !.linked = TRUE]]
    /\ orders' = [orders EXCEPT ![i] = @ + 1]

(* Mutant: the order trusts every intent to hold its stock.                    *)
ClaimWithoutHold(i) == ~intent[i].consumed /\ ClaimConsumed(i)

(* finalizePaymentIntent otherwise: claim the intent (consumedAt null), create *)
(* the paid order from its hold, or from the shelf when it has none, and link  *)
(* it. An expired claim throws and the claim is rolled back with the rest.     *)
ClaimAndCreateOrder(i) ==
    /\ orders[i] = 0
    /\ ~intent[i].consumed
    /\ ~Expired(i)
    /\ \/ intent[i].held /\ UNCHANGED stock
       \/ ~intent[i].held /\ Available(intent[i].lines)
                          /\ stock' = Decrement(intent[i].lines)
    /\ intent' = [intent EXCEPT ![i] =
                  [@ EXCEPT !.consumed = TRUE, !.held = FALSE, !.linked = TRUE]]
    /\ orders' = [orders EXCEPT ![i] = @ + 1]

FinalizePaymentIntent(i, source) ==
    /\ <<i, source>> \in calls
    /\ Stored(i)
    /\ LinkExistingOrder(i) \/ ClaimAndCreateOrder(i)
    /\ calls' = calls \ {<<i, source>>}
    /\ UNCHANGED <<paid, owed, lost>>

(* The call ends without effect: the claim is lost to another step, the stock  *)
(* is gone, the gateway does not answer, or the process dies.                  *)
CallFails(i, source) ==
    /\ <<i, source>> \in calls
    /\ calls' = calls \ {<<i, source>>}
    /\ UNCHANGED <<stock, intent, orders, paid, owed, lost>>

-----------------------------------------------------------------------------
(* The auto-cancel job's treatment of intents                                  *)

(* Mutants: the release forgets the stockHeld condition; forgets to consume    *)
(* the intent; only claims intents that did not expire before the job ran.     *)
ReleaseUnheld(i) ==
    /\ Open(i) /\ intent[i].age >= CutoffAge
    /\ intent' = [intent EXCEPT ![i] = [@ EXCEPT !.held = FALSE, !.consumed = TRUE]]
    /\ owed' = owed \cup ({i} \X intent[i].lines)
    /\ UNCHANGED <<stock, orders, paid, lost, calls>>

ReleaseUnconsumed(i) ==
    /\ Open(i) /\ intent[i].held /\ intent[i].age >= CutoffAge
    /\ intent' = [intent EXCEPT ![i].held = FALSE]
    /\ owed' = owed \cup ({i} \X intent[i].lines)
    /\ UNCHANGED <<stock, orders, paid, lost, calls>>

ReleaseUnexpired(i) == intent[i].held /\ ~Expired(i) /\ ReleaseUnheld(i)

(* Claim an abandoned hold: createdAt before the cutoff is enough, and the     *)
(* gateway is not asked.                                                       *)
ReleaseHold(i) ==
    /\ Open(i)
    /\ intent[i].held
    /\ Expired(i) \/ intent[i].age >= CutoffAge
    /\ intent' = [intent EXCEPT ![i] = [@ EXCEPT !.held = FALSE, !.consumed = TRUE]]
    /\ owed' = owed \cup ({i} \X intent[i].lines)
    /\ UNCHANGED <<stock, orders, paid, lost, calls>>

(* Mutant: the restock reads the intent again.                                 *)
PutBackStoredLine(i, s) ==
    /\ Stored(i)
    /\ <<i, s>> \in owed
    /\ owed' = owed \ {<<i, s>>}
    /\ stock' = Increment(s)
    /\ UNCHANGED <<intent, orders, paid, lost, calls>>

PutBackLine(i, s) ==
    /\ <<i, s>> \in owed
    /\ owed' = owed \ {<<i, s>>}
    /\ stock' = Increment(s)
    /\ UNCHANGED <<intent, orders, paid, lost, calls>>

(* updateMany over the abandoned intents that hold nothing.                    *)
CloseUnheldIntent(i) ==
    /\ Open(i)
    /\ ~intent[i].held
    /\ intent[i].age >= CutoffAge
    /\ intent' = [intent EXCEPT ![i].consumed = TRUE]
    /\ UNCHANGED <<stock, orders, paid, owed, lost, calls>>

(* The worker dies: the lines it still had to put back are forgotten.          *)
WorkerCrash ==
    /\ owed # {}
    /\ lost' = lost \cup owed
    /\ owed' = {}
    /\ UNCHANGED <<stock, intent, orders, paid, calls>>

(* The TTL index removes expired intents that hold nothing.                    *)
DropExpiredIntent(i) ==
    /\ Stored(i)
    /\ Expired(i)
    /\ ~intent[i].held
    /\ intent' = [intent EXCEPT ![i].doc = "dropped"]
    /\ UNCHANGED <<stock, orders, paid, owed, lost, calls>>

TimePasses(i) ==
    /\ Stored(i)
    /\ ~Expired(i)
    /\ intent' = [intent EXCEPT ![i].age = @ + 1]
    /\ UNCHANGED <<stock, orders, paid, owed, lost, calls>>

Next ==
    \/ \E i \in Intent :
        \/ \E L \in Cart : CreateRazorpayIntent(i, L)
        \/ CustomerPays(i)
        \/ VerifyPayment(i)
        \/ HandleRazorpayWebhook(i)
        \/ RunPaymentRecoveryJob(i)
        \/ \E source \in Source :
               FinalizePaymentIntent(i, source) \/ CallFails(i, source)
        \/ ReleaseHold(i)
        \/ \E s \in Sku : PutBackLine(i, s)
        \/ CloseUnheldIntent(i)
        \/ DropExpiredIntent(i)
        \/ TimePasses(i)
    \/ WorkerCrash

Spec == Init /\ [][Next]_vars

(* The auto-cancel job runs every 15 minutes and pages through the stale        *)
(* intents; a started release goes on unless the worker dies; clocks advance.   *)
Fairness ==
    \A i \in Intent :
        /\ WF_vars(TimePasses(i))
        /\ WF_vars(ReleaseHold(i))
        /\ WF_vars(CloseUnheldIntent(i))
        /\ \A s \in Sku : WF_vars(PutBackLine(i, s))

FairSpec == Spec /\ Fairness

-----------------------------------------------------------------------------
(* Properties                                                                  *)

TypeOK ==
    /\ stock \in [Sku -> Nat]
    /\ intent \in [Intent -> IntentDoc]
    /\ orders \in [Intent -> Nat]
    /\ paid \in [Intent -> {"no", "in_window", "late"}]
    /\ calls \subseteq Intent \X Source
    /\ owed \subseteq Intent \X Sku
    /\ lost \subseteq Intent \X Sku

Released(i) == intent[i].consumed /\ orders[i] = 0

(* The intent's unit of s is off the shelf: held, sold, or on its way back.    *)
Owns(i, s) ==
    \/ s \in intent[i].lines /\ (intent[i].held \/ orders[i] > 0)
    \/ <<i, s>> \in owed \cup lost

Claims == {p \in Intent \X Sku : Owns(p[1], p[2])}

(* Whatever callers and job do to the same intent, in whatever order, no unit  *)
(* is sold twice, put back twice or forgotten: what is missing from the shelf  *)
(* is exactly what one hold, one order or one restock accounts for, and only a *)
(* crash in the middle of a release puts units in nobody's hands.              *)
UnitsAccounted ==
    \A s \in Sku :
        stock[s] + Cardinality({i \in Intent : Owns(i, s)}) = InitStock[s]

(* One payment makes at most one order, however many callers finalize it: the  *)
(* order takes over the hold, and an intent the job released has no order.     *)
OneOrderPerPayment ==
    \A i \in Intent :
        /\ orders[i] <= 1
        /\ orders[i] = 1 =>
              /\ paid[i] # "no"
              /\ intent[i].consumed /\ intent[i].linked /\ ~intent[i].held
              /\ \A s \in Sku : <<i, s>> \notin owed \cup lost
        /\ intent[i].linked => orders[i] = 1

(* Until an intent is consumed its stock stays set aside, so a payment that is *)
(* finalized cannot find the shelf empty; once consumed it holds nothing.      *)
OpenIntentHoldsStock ==
    \A i \in Intent :
        /\ Open(i) /\ i \notin Legacy => intent[i].held
        /\ intent[i].held => Open(i)

(* The job and the finalizers exclude each other: a released intent never      *)
(* becomes an order and a finalized one is never released or reopened.         *)
FateIsFinal ==
    [][\A i \in Intent : intent[i].consumed =>
          /\ intent'[i].consumed
          /\ intent'[i].linked = intent[i].linked
          /\ orders'[i] = orders[i]]_vars

(* The ledger's promise, kept step by step by checkout, payment and release.   *)
Ledger == INSTANCE StockLedger WITH Claimant <- Intent, onHand <- stock, claims <- Claims
LedgerSpec == Ledger!Spec

(* Every checkout comes to an end: paid or abandoned, its hold does not tie up  *)
(* stock for ever.                                                             *)
EveryCheckoutSettles == \A i \in Intent : Open(i) ~> ~Open(i)

(* Released units reach the shelf again unless a crash forgets them.           *)
ReleasedUnitsReturn ==
    \A i \in Intent, s \in Sku :
        <<i, s>> \in owed ~> <<i, s>> \notin owed

-----------------------------------------------------------------------------
(* What the repository says and the code does not do                           *)

(* src/README.md:44: payment recovery "Reconciles Razorpay payments captured   *)
(* at gateway but still `pending` locally". A payment captured in the window   *)
(* has its order or an intent that recovery can still find.                    *)
CapturedPaymentIsRecoverable ==
    \A i \in Intent :
        paid[i] = "in_window" => orders[i] = 1 \/ Open(i)
=============================================================================
