---------------------------- MODULE OfflineOrder ----------------------------
(* Sales an admin records at the counter or for a B2B customer:                *)
(* `createOfflineOrder` of adminOfflineOrderController.ts. It runs without a   *)
(* transaction: stock is taken line by line, the order is created, the sale is *)
(* recorded with the customer's lead, and one catch around all of it puts the  *)
(* taken lines back. Other sales and a cancellation run between its awaits.    *)
EXTENDS Integers, FiniteSets, SequencesExt

CONSTANTS Sale,        \* sales being recorded
          Sku,         \* variants
          InitStock,   \* units of each variant at the start
          StockOps,    \* catalogStockOps of each sale, one unit per line
          MaxLost,     \* bound: increments of a rollback that fail
          MaxCrashes   \* bound: crashes of the API process

ASSUME SaleAssumption ==
    /\ IsFiniteSet(Sale) /\ IsFiniteSet(Sku)
    /\ InitStock \in [Sku -> Nat] /\ StockOps \in [Sale -> Seq(Sku)]
ASSUME BoundAssumption == MaxLost \in Nat /\ MaxCrashes \in Nat

VARIABLES
    onHand,       \* Product.variants[].stock
    phase,        \* where each sale's request is
    decremented,  \* the lines it has taken, as its catch would see them
    reservation,  \* its order's inventoryReserved, "none" before Order.create
    late,         \* a sale failed after its order was created (history)
    lost,         \* increments that failed during rollbacks
    crashes

saleVars == <<onHand, phase, decremented, reservation, late, lost, crashes>>

(* A sale that is left out was refused before it took anything.                *)
SaleInit(sales) ==
    /\ onHand = InitStock
    /\ phase = [s \in Sale |-> IF s \in sales THEN "new" ELSE "failed"]
    /\ decremented = [s \in Sale |-> <<>>]
    /\ reservation = [s \in Sale |-> "none"]
    /\ late = FALSE
    /\ lost = 0
    /\ crashes = 0

Count(seq, k) == Cardinality({i \in DOMAIN seq : seq[i] = k})

Step(s, from, to) ==
    /\ phase[s] = from
    /\ phase' = [phase EXCEPT ![s] = to]

(* Each line is checked against the stock it reads, on its own: two lines of   *)
(* one variant both pass with one unit left. Then the customer is looked up.   *)
CheckLines(s) ==
    /\ \A i \in DOMAIN StockOps[s] : onHand[StockOps[s][i]] >= 1
    /\ Step(s, "new", "taking")
    /\ UNCHANGED <<onHand, decremented, reservation, late, lost, crashes>>

NextLine(s) == StockOps[s][Len(decremented[s]) + 1]

(* decrementVariantStock matches no variant with enough stock: 409.            *)
ShortOf(s) == onHand[NextLine(s)] < 1

TakeLine(s) ==
    /\ Len(decremented[s]) < Len(StockOps[s])
    /\ IF ShortOf(s)
       THEN Step(s, "taking", "undoing") /\ UNCHANGED <<onHand, decremented>>
       ELSE /\ phase[s] = "taking"
            /\ onHand' = [onHand EXCEPT ![NextLine(s)] = @ - 1]
            /\ decremented' = [decremented EXCEPT ![s] = Append(@, NextLine(s))]
            /\ UNCHANGED phase
    /\ UNCHANGED <<reservation, late, lost, crashes>>

CreateOrder(s) ==
    /\ Len(decremented[s]) = Len(StockOps[s])
    /\ \/ /\ Step(s, "taking", "recording")
          /\ reservation' = [reservation EXCEPT
                                ![s] = IF StockOps[s] = <<>> THEN "released" ELSE "reserved"]
       \/ Step(s, "taking", "undoing") /\ UNCHANGED reservation
    /\ UNCHANGED <<onHand, decremented, late, lost, crashes>>

(* Stock log, audit and notifications swallow their errors; the customer lead  *)
(* (upsertOfflineCustomerRecord) does not, and its error reaches the catch.    *)
RecordSale(s) ==
    /\ \/ Step(s, "recording", "done") /\ UNCHANGED late
       \/ Step(s, "recording", "undoing") /\ late' = TRUE
    /\ UNCHANGED <<onHand, decremented, reservation, lost, crashes>>

PutBack(s) == [onHand EXCEPT ![Last(decremented[s])] = @ + 1]

(* Mutant: the rollback ends after the first line.                             *)
UndoOnce(s) ==
    /\ Step(s, "undoing", "failed")
    /\ IF decremented[s] # <<>>
       THEN onHand' = PutBack(s) /\ decremented' = [decremented EXCEPT ![s] = Front(@)]
       ELSE UNCHANGED <<onHand, decremented>>
    /\ UNCHANGED <<reservation, late, lost, crashes>>

(* The catch puts the taken lines back, the last one first; an increment that  *)
(* throws is skipped. Then the error is answered.                              *)
UndoLine(s) ==
    /\ phase[s] = "undoing"
    /\ IF decremented[s] # <<>>
       THEN /\ \/ onHand' = PutBack(s) /\ UNCHANGED lost
               \/ lost < MaxLost /\ lost' = lost + 1 /\ UNCHANGED onHand
            /\ decremented' = [decremented EXCEPT ![s] = Front(@)]
            /\ UNCHANGED phase
       ELSE Step(s, "undoing", "failed") /\ UNCHANGED <<onHand, decremented, lost>>
    /\ UNCHANGED <<reservation, late, crashes>>

(* A cancellation or refund of the order claims inventoryReserved and puts     *)
(* every line back (adminOrderService.ts).                                     *)
CancelOrder(s) ==
    /\ reservation[s] = "reserved"
    /\ reservation' = [reservation EXCEPT ![s] = "released"]
    /\ onHand' = [k \in Sku |-> onHand[k] + Count(StockOps[s], k)]
    /\ UNCHANGED <<phase, decremented, late, lost, crashes>>

Crash(s) ==
    /\ phase[s] \in {"taking", "recording", "undoing"}
    /\ crashes < MaxCrashes
    /\ crashes' = crashes + 1
    /\ phase' = [phase EXCEPT ![s] = "dead"]
    /\ UNCHANGED <<onHand, decremented, reservation, late, lost>>

Proceed(s) == TakeLine(s) \/ CreateOrder(s) \/ RecordSale(s) \/ UndoLine(s)

SaleNext == \E s \in Sale : CheckLines(s) \/ Proceed(s) \/ CancelOrder(s) \/ Crash(s)

-----------------------------------------------------------------------------
(* What a sale holds of a variant: its order's lines once there is an order,   *)
(* before that the lines it has taken.                                         *)
Holding(s, k) ==
    CASE reservation[s] = "none" -> Count(decremented[s], k)
      [] reservation[s] = "reserved" -> Count(StockOps[s], k)
      [] reservation[s] = "released" -> 0

(* A sale that runs out of stock gives back what it took before it is answered.*)
FailedSaleEnds ==
    \A s \in Sale : phase[s] = "undoing" ~> phase[s] = "dead" \/
        (phase[s] = "failed" /\ decremented[s] = <<>>)
=============================================================================
