-------------------------- MODULE OrderReservation --------------------------
(* Orders and the stock reserved for them, from placement to cancellation or   *)
(* refund: `inventoryReserved` on the Order document is the flag every restock  *)
(* must claim. Customers cancel, prepare an online payment and pay; admins     *)
(* change the status, cancel, refund and delete; the auto-cancel job cancels   *)
(* stale unpaid Razorpay orders. Handlers read, await and write, so any of      *)
(* them can run between two steps of another.                                   *)
(*                                                                             *)
(* A Mongo transaction is one step. A line's quantity is one unit.             *)
EXTENDS Integers, FiniteSets

CONSTANTS Order,      \* order documents
          Sku,        \* variants
          InitStock,  \* units of each variant on the shelf at the start
          MaxEdits,   \* bound: status updates in flight
          MaxCrashes  \* bound: crashes of server or worker, requests that fail

ASSUME OrderAssumption == IsFiniteSet(Order)
ASSUME StockAssumption == InitStock \in [Sku -> Nat]
ASSUME BoundAssumption == MaxEdits \in Nat /\ MaxCrashes \in Nat

VARIABLES
    stock,       \* Product.variants[].stock
    order,       \* Order documents
    captured,    \* orders whose payment the gateway holds, not fully refunded
    edits,       \* <<o, status>>: a status decided on a read of o and not yet saved
    cancelling,  \* customerCancelOrder between its status claim and its transaction
    refunding,   \* processRefund between the gateway refund and its transaction
    job,         \* where the auto-cancel job is with each order
    owed,        \* <<o, s>>: lines the job still has to put back (job memory)
    crashes

vars == <<stock, order, captured, edits, cancelling, refunding, job, owed, crashes>>
handlers == <<edits, cancelling, refunding>>
worker == <<job, owed>>

Status == {"pending", "confirmed", "processing", "shipped", "delivered",
           "cancelled", "refunded"}

ALLOWED_STATUS_TRANSITIONS ==
    [s \in Status |->
        CASE s = "pending"    -> {"confirmed", "cancelled"}
          [] s = "confirmed"  -> {"processing", "cancelled"}
          [] s = "processing" -> {"shipped", "cancelled"}
          [] s = "shipped"    -> {"delivered", "cancelled", "refunded"}
          [] s = "delivered"  -> {"refunded"}
          [] s = "cancelled"  -> {"refunded"}
          [] s = "refunded"   -> {}]

Cancellable == {"pending", "confirmed"}

Cart == (SUBSET Sku) \ {{}}

(* link: whose Razorpay order it is (its intent's, or one made by              *)
(* prepareOrderPayment); payId: razorpayPaymentId is recorded.                 *)
OrderDoc == [status : Status \cup {"absent", "deleted"},
             pay : {"pending", "paid", "failed", "refunded"},
             method : {"cod", "razorpay"},
             link : {"none", "intent", "direct"},
             payId : BOOLEAN, reserved : BOOLEAN, lines : SUBSET Sku]

NoOrder == [status |-> "absent", pay |-> "pending", method |-> "cod", link |-> "none",
            payId |-> FALSE, reserved |-> FALSE, lines |-> {}]

CodOrder(L) == [NoOrder EXCEPT !.status = "pending", !.reserved = TRUE, !.lines = L]

PaidOrder(L) == [status |-> "confirmed", pay |-> "paid", method |-> "razorpay",
                 link |-> "intent", payId |-> TRUE, reserved |-> TRUE, lines |-> L]

Exists(o) == order[o].status \in Status

Init ==
    /\ stock = InitStock
    /\ order = [o \in Order |-> NoOrder]
    /\ captured = {}
    /\ edits = {}
    /\ cancelling = {}
    /\ refunding = {}
    /\ job = [o \in Order |-> "idle"]
    /\ owed = {}
    /\ crashes = 0

-----------------------------------------------------------------------------
(* Stock                                                                       *)

Available(L) == \A s \in L : stock[s] >= 1
Decrement(L) == [s \in Sku |-> IF s \in L THEN stock[s] - 1 ELSE stock[s]]
Increment(L) == [s \in Sku |-> IF s \in L THEN stock[s] + 1 ELSE stock[s]]

(* Mutants: the restock does not claim the flag; it does not clear it.         *)
RestoreUnclaimed(o, d) ==
    /\ order' = [order EXCEPT ![o] = [d EXCEPT !.reserved = FALSE]]
    /\ stock' = Increment(order[o].lines)

RestoreAndKeepFlag(o, d) ==
    /\ order' = [order EXCEPT ![o] = d]
    /\ IF order[o].reserved THEN stock' = Increment(order[o].lines) ELSE UNCHANGED stock

(* claimAndRestoreOrderStock inside the caller's transaction: whoever still    *)
(* finds the flag set clears it and puts every line back. d is the document    *)
(* the same transaction writes.                                                *)
RestoreAnd(o, d) ==
    IF order[o].reserved
    THEN /\ order' = [order EXCEPT ![o] = [d EXCEPT !.reserved = FALSE]]
         /\ stock' = Increment(order[o].lines)
    ELSE /\ order' = [order EXCEPT ![o] = d]
         /\ UNCHANGED stock

-----------------------------------------------------------------------------
(* Placement and payment                                                       *)

CreateCodOrder(o, L) ==
    /\ order[o].status = "absent"
    /\ Available(L)
    /\ stock' = Decrement(L)
    /\ order' = [order EXCEPT ![o] = CodOrder(L)]
    /\ UNCHANGED <<captured, handlers, worker, crashes>>

(* finalizePaymentIntent of an intent without a hold: the order takes its      *)
(* stock from the shelf.                                                       *)
CreatePaidOrder(o, L) ==
    /\ order[o].status = "absent"
    /\ Available(L)
    /\ stock' = Decrement(L)
    /\ order' = [order EXCEPT ![o] = PaidOrder(L)]
    /\ captured' = captured \cup {o}
    /\ UNCHANGED <<handlers, worker, crashes>>

(* prepareOrderPayment, first write: an unpaid order of any status becomes an  *)
(* online order.                                                               *)
SwitchToRazorpay(o) ==
    /\ Exists(o)
    /\ order[o].pay # "paid"
    /\ order[o].method # "razorpay"
    /\ order' = [order EXCEPT ![o].method = "razorpay"]
    /\ UNCHANGED <<stock, captured, handlers, worker, crashes>>

(* prepareOrderPayment, second write: the new gateway order is linked unless   *)
(* the order is paid or linked already.                                        *)
LinkRazorpayOrder(o) ==
    /\ Exists(o)
    /\ order[o].method = "razorpay"
    /\ order[o].pay # "paid"
    /\ order[o].link = "none"
    /\ order' = [order EXCEPT ![o].link = "direct"]
    /\ UNCHANGED <<stock, captured, handlers, worker, crashes>>

CustomerPays(o) ==
    /\ order[o].link = "direct"
    /\ ~order[o].payId
    /\ o \notin captured
    /\ captured' = captured \cup {o}
    /\ UNCHANGED <<stock, order, handlers, worker, crashes>>

(* finalizeDirectOrderVerification, for the client's verify call, a webhook    *)
(* (also a repeated one) or the recovery job: unless the order is paid, take   *)
(* its stock and confirm it.                                                   *)
FinalizeDirectOrder(o) ==
    /\ Exists(o)
    /\ order[o].link = "direct"
    /\ o \in captured
    /\ order[o].pay # "paid"
    /\ Available(order[o].lines)
    /\ stock' = Decrement(order[o].lines)
    /\ order' = [order EXCEPT ![o] = [@ EXCEPT !.pay = "paid", !.status = "confirmed",
                                               !.payId = TRUE, !.reserved = TRUE]]
    /\ UNCHANGED <<captured, handlers, worker, crashes>>

-----------------------------------------------------------------------------
(* The auto-cancel job, one order at a time and without a transaction          *)

(* The gateway is asked first when there is a gateway order: only "unpaid"     *)
(* goes on.                                                                    *)
CheckUnpaid(o) ==
    /\ job[o] = "idle"
    /\ order[o].method = "razorpay"
    /\ order[o].pay = "pending"
    /\ order[o].status \in Cancellable
    /\ order[o].link # "none" => o \notin captured
    /\ job' = [job EXCEPT ![o] = "checked"]
    /\ UNCHANGED <<stock, order, captured, handlers, owed, crashes>>

(* Mutants: the cancellation does not look at the payment again; it stops      *)
(* before the release.                                                         *)
AutoCancelUnseen(o) ==
    /\ job[o] = "checked"
    /\ IF order[o].status \in Cancellable
       THEN /\ order' = [order EXCEPT ![o] =
                         [@ EXCEPT !.status = "cancelled", !.pay = "failed"]]
            /\ job' = [job EXCEPT ![o] = IF order[o].reserved THEN "cancelled" ELSE "idle"]
       ELSE /\ job' = [job EXCEPT ![o] = "idle"]
            /\ UNCHANGED order
    /\ UNCHANGED <<stock, captured, handlers, owed, crashes>>

AutoCancelOnly(o) ==
    /\ job[o] = "checked"
    /\ job' = [job EXCEPT ![o] = "idle"]
    /\ order' = IF order[o].pay = "pending" /\ order[o].status \in Cancellable
                THEN [order EXCEPT ![o].status = "cancelled", ![o].pay = "failed"]
                ELSE order
    /\ UNCHANGED <<stock, captured, handlers, owed, crashes>>

AutoCancel(o) ==
    /\ job[o] = "checked"
    /\ IF order[o].pay = "pending" /\ order[o].status \in Cancellable
       THEN /\ order' = [order EXCEPT ![o] =
                         [@ EXCEPT !.status = "cancelled", !.pay = "failed"]]
            /\ job' = [job EXCEPT ![o] = IF order[o].reserved THEN "cancelled" ELSE "idle"]
       ELSE /\ job' = [job EXCEPT ![o] = "idle"]
            /\ UNCHANGED order
    /\ UNCHANGED <<stock, captured, handlers, owed, crashes>>

(* Mutant: the release looks for the payment status the cancellation replaced. *)
AutoReleasePending(o) ==
    /\ job[o] = "cancelled"
    /\ IF Exists(o) /\ order[o].reserved /\ order[o].pay = "pending"
       THEN /\ order' = [order EXCEPT ![o].reserved = FALSE]
            /\ owed' = owed \cup ({o} \X order[o].lines)
       ELSE UNCHANGED <<order, owed>>
    /\ job' = [job EXCEPT ![o] = "idle"]
    /\ UNCHANGED <<stock, captured, handlers, crashes>>

AutoRelease(o) ==
    /\ job[o] = "cancelled"
    /\ IF Exists(o) /\ order[o].reserved
       THEN /\ order' = [order EXCEPT ![o].reserved = FALSE]
            /\ owed' = owed \cup ({o} \X order[o].lines)
       ELSE UNCHANGED <<order, owed>>
    /\ job' = [job EXCEPT ![o] = "idle"]
    /\ UNCHANGED <<stock, captured, handlers, crashes>>

PutBackLine(o, s) ==
    /\ <<o, s>> \in owed
    /\ owed' = owed \ {<<o, s>>}
    /\ stock' = Increment({s})
    /\ UNCHANGED <<order, captured, handlers, job, crashes>>

-----------------------------------------------------------------------------
(* customerCancelOrder: the status claim, then the stock in a transaction      *)

CustomerCancel(o) ==
    /\ order[o].status \in Cancellable
    /\ order' = [order EXCEPT ![o].status = "cancelled"]
    /\ cancelling' = IF order[o].reserved THEN cancelling \cup {o} ELSE cancelling
    /\ UNCHANGED <<stock, captured, edits, refunding, worker, crashes>>

CustomerRestock(o) ==
    /\ o \in cancelling
    /\ cancelling' = cancelling \ {o}
    /\ IF Exists(o) THEN RestoreAnd(o, order[o]) ELSE UNCHANGED <<stock, order>>
    /\ UNCHANGED <<captured, edits, refunding, worker, crashes>>

-----------------------------------------------------------------------------
(* Admin handlers                                                              *)

(* updateOrderStatus reads the order and checks the transition...              *)
OpenStatusEdit(o, target) ==
    /\ Exists(o)
    /\ target \in ALLOWED_STATUS_TRANSITIONS[order[o].status]
    /\ <<o, target>> \notin edits
    /\ Cardinality(edits) < MaxEdits
    /\ edits' = edits \cup {<<o, target>>}
    /\ UNCHANGED <<stock, order, captured, cancelling, refunding, worker, crashes>>

(* ...and saves the new status over whatever the order has become. Delivery    *)
(* marks it paid.                                                              *)
SaveStatusEdit(o, target) ==
    /\ <<o, target>> \in edits
    /\ target # "cancelled"
    /\ edits' = edits \ {<<o, target>>}
    /\ IF Exists(o)
       THEN order' = [order EXCEPT ![o] =
               [@ EXCEPT !.status = target,
                         !.pay = IF target = "delivered" THEN "paid" ELSE order[o].pay]]
       ELSE UNCHANGED order
    /\ UNCHANGED <<stock, captured, cancelling, refunding, worker, crashes>>

(* createDelhiveryShipmentForOrder reads the order, asks the carrier for a      *)
(* waybill and saves the order as shipped.                                     *)
OpenShipment(o) ==
    /\ order[o].status \in {"confirmed", "processing"}
    /\ <<o, "shipped">> \notin edits
    /\ Cardinality(edits) < MaxEdits
    /\ edits' = edits \cup {<<o, "shipped">>}
    /\ UNCHANGED <<stock, order, captured, cancelling, refunding, worker, crashes>>

(* syncDelhiveryOrderById, for the tracking job or an admin, reads a shipped    *)
(* order and asks the carrier, who says it was delivered. An order read as     *)
(* cash on delivery is saved like an admin's "delivered". An order that an     *)
(* overlapping write took back from shipped is not followed any more (bound).  *)
OpenTracking(o) ==
    LET edit == <<o, IF order[o].method = "cod" THEN "delivered" ELSE "tracked">>
    IN  /\ order[o].status = "shipped"
        /\ edit \notin edits
        /\ Cardinality(edits) < MaxEdits
        /\ edits' = edits \cup {edit}
        /\ UNCHANGED <<stock, order, captured, cancelling, refunding, worker, crashes>>

(* ...and the save of another leaves the payment alone.                        *)
SaveTracking(o) ==
    /\ <<o, "tracked">> \in edits
    /\ edits' = edits \ {<<o, "tracked">>}
    /\ order' = IF Exists(o) THEN [order EXCEPT ![o].status = "delivered"] ELSE order
    /\ UNCHANGED <<stock, captured, cancelling, refunding, worker, crashes>>

(* A requested cancellation goes to cancelOrder, whose transaction only checks *)
(* that the order is not cancelled yet.                                        *)
AdminCancel(o) ==
    /\ <<o, "cancelled">> \in edits
    /\ edits' = edits \ {<<o, "cancelled">>}
    /\ IF Exists(o) /\ order[o].status # "cancelled"
       THEN RestoreAnd(o, [order[o] EXCEPT !.status = "cancelled"])
       ELSE UNCHANGED <<stock, order>>
    /\ UNCHANGED <<captured, cancelling, refunding, worker, crashes>>

(* processRefund: checks on a first read and, for an online order, the gateway *)
(* refund, in full or in part.                                                 *)
StartRefund(o, full) ==
    /\ Exists(o)
    /\ o \notin refunding
    /\ order[o].status # "refunded"
    /\ order[o].method = "razorpay" => order[o].payId /\ o \in captured
    /\ refunding' = refunding \cup {o}
    /\ captured' = IF full /\ order[o].method = "razorpay" THEN captured \ {o} ELSE captured
    /\ UNCHANGED <<stock, order, edits, cancelling, worker, crashes>>

(* Its transaction: refunded whatever happened meanwhile, and restocked unless *)
(* the order was cancelled.                                                    *)
CommitRefund(o) ==
    /\ o \in refunding
    /\ refunding' = refunding \ {o}
    /\ IF ~Exists(o) THEN UNCHANGED <<stock, order>>
       ELSE LET d == [order[o] EXCEPT !.status = "refunded", !.pay = "refunded"]
            IN  IF order[o].status # "cancelled" THEN RestoreAnd(o, d)
                ELSE order' = [order EXCEPT ![o] = d] /\ UNCHANGED stock
    /\ UNCHANGED <<captured, edits, cancelling, worker, crashes>>

DeleteOrder(o) ==
    /\ Exists(o)
    /\ order' = [order EXCEPT ![o] = [@ EXCEPT !.status = "deleted", !.reserved = FALSE]]
    /\ UNCHANGED <<stock, captured, handlers, worker, crashes>>

-----------------------------------------------------------------------------
(* Crashes and errors                                                          *)

ServerCrash ==
    /\ crashes < MaxCrashes
    /\ crashes' = crashes + 1
    /\ edits' = {}
    /\ cancelling' = {}
    /\ refunding' = {}
    /\ UNCHANGED <<stock, order, captured, worker>>

(* The second transaction of a cancellation or a refund throws: that request   *)
(* answers with an error, and nobody makes up for what it was still to do.     *)
RequestFails(o) ==
    /\ crashes < MaxCrashes
    /\ crashes' = crashes + 1
    /\ \/ o \in cancelling /\ cancelling' = cancelling \ {o} /\ UNCHANGED refunding
       \/ o \in refunding /\ refunding' = refunding \ {o} /\ UNCHANGED cancelling
    /\ UNCHANGED <<stock, order, captured, edits, worker>>

WorkerCrash ==
    /\ crashes < MaxCrashes
    /\ crashes' = crashes + 1
    /\ job' = [o \in Order |-> "idle"]
    /\ owed' = {}
    /\ UNCHANGED <<stock, order, captured, handlers>>

Next ==
    \/ \E o \in Order :
        \/ \E L \in Cart : CreateCodOrder(o, L) \/ CreatePaidOrder(o, L)
        \/ SwitchToRazorpay(o)
        \/ LinkRazorpayOrder(o)
        \/ CustomerPays(o)
        \/ FinalizeDirectOrder(o)
        \/ CheckUnpaid(o)
        \/ AutoCancel(o)
        \/ AutoRelease(o)
        \/ \E s \in Sku : PutBackLine(o, s)
        \/ CustomerCancel(o)
        \/ CustomerRestock(o)
        \/ RequestFails(o)
        \/ \E target \in Status :
               OpenStatusEdit(o, target) \/ SaveStatusEdit(o, target)
        \/ OpenShipment(o)
        \/ OpenTracking(o)
        \/ SaveTracking(o)
        \/ AdminCancel(o)
        \/ \E full \in BOOLEAN : StartRefund(o, full)
        \/ CommitRefund(o)
        \/ DeleteOrder(o)
    \/ ServerCrash
    \/ WorkerCrash

Spec == Init /\ [][Next]_vars

(* A request or a job pass that started goes on unless its process dies.       *)
Fairness ==
    \A o \in Order :
        /\ WF_vars(CustomerRestock(o))
        /\ WF_vars(AutoCancel(o))
        /\ WF_vars(AutoRelease(o))
        /\ \A s \in Sku : WF_vars(PutBackLine(o, s))

FairSpec == Spec /\ Fairness

-----------------------------------------------------------------------------
(* Properties                                                                  *)

TypeOK ==
    /\ stock \in [Sku -> Nat]
    /\ order \in [Order -> OrderDoc]
    /\ captured \subseteq Order
    /\ edits \subseteq Order \X (Status \cup {"tracked"})
    /\ cancelling \subseteq Order
    /\ refunding \subseteq Order
    /\ job \in [Order -> {"idle", "checked", "cancelled"}]
    /\ owed \subseteq Order \X Sku
    /\ crashes \in 0 .. MaxCrashes

Reserved(s) == {o \in Order : order[o].reserved /\ s \in order[o].lines}
Returning(s) == {o \in Order : <<o, s>> \in owed}

(* The shelf, the orders that say they hold a unit, and the job's unfinished   *)
(* restocks.                                                                   *)
Units(s) == stock[s] + Cardinality(Reserved(s)) + Cardinality(Returning(s))

(* However cancellations, refunds, payments, status edits, the job and crashes *)
(* interleave, a reservation is restocked at most once: the shelf never shows  *)
(* units some order still counts on, or more than there are.                   *)
NoStockMinted == \A s \in Sku : Units(s) <= InitStock[s]

(* While nothing crashes and no restock throws, a cancelled order that still   *)
(* holds stock is in the hands of the request or the job that cancelled it.    *)
CancelledIsReleased ==
    crashes = 0 =>
        \A o \in Order :
            order[o].status = "cancelled" /\ order[o].reserved =>
                o \in cancelling \/ job[o] = "cancelled"

(* A payment in the books is undone by a refund in progress and by nothing     *)
(* else: the job, which asks the gateway first and cancels later, never fails  *)
(* an order that was paid in between.                                          *)
PaidIsOnlyRefunded ==
    [][\A o \in Order : order[o].pay = "paid" /\ order'[o].status # "deleted" =>
          /\ order'[o].pay \in {"paid", "refunded"}
          /\ order'[o].pay = "refunded" => o \in refunding]_vars

(* While nothing crashes and no restock throws, the stock of a cancelled order *)
(* comes back, unless a payment or an admin revives the order first.           *)
CancelledStockReturns ==
    \A o \in Order :
        order[o].status = "cancelled" /\ order[o].reserved
            ~> crashes > 0 \/ order[o].status # "cancelled" \/ ~order[o].reserved

Claims ==
    {<<<<p[1], "order">>, p[2]>> : p \in
        {p \in Order \X Sku : order[p[1]].reserved /\ p[2] \in order[p[1]].lines}}
    \cup {<<<<p[1], "job">>, p[2]>> : p \in owed}

(* The ledger's promise, kept step by step by the handlers and the job.        *)
Ledger == INSTANCE StockLedger
    WITH Claimant <- Order \X {"order", "job"}, onHand <- stock, claims <- Claims
LedgerSpec == Ledger!Spec
=============================================================================
