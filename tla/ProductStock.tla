---------------------------- MODULE ProductStock ----------------------------
(* The other writers of a product's stock, beside the counter sales of         *)
(* OfflineOrder: the product form of the admin, which sends back every         *)
(* variant's stock with the updatedAt it was loaded with, stock adjustments,   *)
(* purchase invoices and the reconciliation of totalStock with the variants.   *)
EXTENDS OfflineOrder, Totals

CONSTANTS Receipt,     \* requests that record the one delivery there is
          Keyed,       \* those that carry its idempotency key
          Delivered,   \* the variant the delivery adds a unit of
          Scenario     \* bound: sales and deliveries there are, a drift of totalStock,
                       \* and how often an admin adjusts, opens a form or voids

ASSUME ReceiptAssumption == Keyed \subseteq Receipt /\ Delivered \in Sku
ASSUME ScenarioAssumption == \A c \in Scenario :
    c.sales \subseteq Sale /\ c.receipts \subseteq Receipt /\ c.drift \in Int /\ c.changes \in Nat

VARIABLES
    total,     \* Product.totalStock
    form,      \* the product form
    receipt,   \* where each request for the delivery is
    invoice,   \* its purchase invoices: an active one, the key in the index
    job,       \* the reconciliation
    changes,   \* left to the admins
    moved,     \* history: units that adjustments, forms and deliveries meant to add
    blind      \* history: a form without updatedAt was saved over a newer product

product == <<onHand, total>>
desk == <<form, receipt, invoice, job>>
stockVars == <<saleVars, total, desk, changes, moved, blind>>

Sum(f) == Total(f, Sku)

NoForm == [open |-> FALSE, saw |-> InitStock, typed |-> InitStock,
           current |-> TRUE, dated |-> TRUE]
NoJob == [pc |-> "idle", sum |-> 0]

(* A delivery that a scenario leaves out was answered before; a product may    *)
(* have drifted before the job existed.                                        *)
StockInit == \E c \in Scenario :
    /\ SaleInit(c.sales)
    /\ total = Sum(InitStock) + c.drift
    /\ form = NoForm
    /\ receipt = [r \in Receipt |-> IF r \in c.receipts THEN "new" ELSE "done"]
    /\ invoice = [active |-> FALSE, keyUsed |-> FALSE]
    /\ job = NoJob
    /\ changes = c.changes
    /\ moved = [k \in Sku |-> 0]
    /\ blind = FALSE

(* Every write to the product gives it a new updatedAt.                        *)
Touch == form' = [form EXCEPT !.current = ~form.open]

Change ==
    /\ changes > 0
    /\ changes' = changes - 1

(* decrementVariantStock and incrementVariantStock move totalStock in the      *)
(* same write.                                                                 *)
Carry == total' = total + Sum(onHand') - Sum(onHand)

SaleStep(A) ==
    /\ A
    /\ Carry
    /\ IF onHand' # onHand THEN Touch ELSE UNCHANGED form
    /\ UNCHANGED <<receipt, invoice, job, changes, moved, blind>>

-----------------------------------------------------------------------------
(* Adjustments and deliveries: one transaction each                            *)

(* A save of the document recomputes totalStock.                               *)
Save(newStock) ==
    /\ onHand' = newStock
    /\ total' = Sum(newStock)
    /\ Touch

Others == <<phase, decremented, reservation, late, lost, crashes>>

(* adjustVariantStock, refused below zero.                                     *)
AdjustStock(k, delta) ==
    /\ onHand[k] + delta >= 0
    /\ Change
    /\ Save([onHand EXCEPT ![k] = @ + delta])
    /\ moved' = [moved EXCEPT ![k] = @ + delta]
    /\ UNCHANGED <<Others, receipt, invoice, job, blind>>

(* createPurchaseInvoice looks for an active invoice with the key or with the  *)
(* number, and answers with it or with 409...                                  *)
CheckReceipt(r) ==
    /\ receipt[r] = "new"
    /\ receipt' = [receipt EXCEPT ![r] = IF invoice.active THEN "done" ELSE "checked"]
    /\ UNCHANGED <<saleVars, total, form, invoice, job, changes, moved, blind>>

(* The two unique indexes: numbers of active invoices, keys of all.            *)
Indexed(r) == invoice.active \/ (r \in Keyed /\ invoice.keyUsed)

(* ...and records the invoice and its units together, or nothing.              *)
RecordReceipt(r) ==
    /\ receipt[r] = "checked"
    /\ receipt' = [receipt EXCEPT ![r] = "done"]
    /\ IF Indexed(r)
       THEN UNCHANGED <<product, form, invoice, moved>>
       ELSE /\ invoice' = [active |-> TRUE, keyUsed |-> invoice.keyUsed \/ r \in Keyed]
            /\ Save([onHand EXCEPT ![Delivered] = @ + 1])
            /\ moved' = [moved EXCEPT ![Delivered] = @ + 1]
    /\ UNCHANGED <<Others, job, changes, blind>>

(* voidPurchaseInvoice leaves the stock as it is.                              *)
VoidInvoice ==
    /\ invoice.active
    /\ Change
    /\ invoice' = [invoice EXCEPT !.active = FALSE]
    /\ UNCHANGED <<saleVars, total, form, receipt, job, moved, blind>>

-----------------------------------------------------------------------------
(* The product form                                                            *)

(* The form is loaded, with or without updatedAt, and one stock is changed.    *)
OpenForm(k, delta, dated) ==
    /\ ~form.open
    /\ onHand[k] + delta >= 0
    /\ Change
    /\ form' = [open |-> TRUE, saw |-> onHand, typed |-> [onHand EXCEPT ![k] = @ + delta],
                current |-> TRUE, dated |-> dated]
    /\ UNCHANGED <<saleVars, total, receipt, invoice, job, moved, blind>>

SaveForm ==
    /\ onHand' = form.typed
    /\ total' = Sum(form.typed)
    /\ moved' = [k \in Sku |-> moved[k] + form.typed[k] - form.saw[k]]
    /\ form' = NoForm

(* Mutant: the filter of the update is the id alone.                           *)
UpdateById ==
    /\ form.open
    /\ SaveForm
    /\ blind' = (blind \/ ~(form.dated \/ form.current))
    /\ UNCHANGED <<Others, receipt, invoice, job, changes>>

(* updateProduct filters by the updatedAt it was sent, if it was; a product    *)
(* that changed since is answered with 409.                                    *)
UpdateProduct ==
    /\ form.open
    /\ IF form.dated /\ ~form.current
       THEN form' = NoForm /\ UNCHANGED <<product, moved>>
       ELSE SaveForm
    /\ blind' = (blind \/ ~(form.dated \/ form.current))
    /\ UNCHANGED <<Others, receipt, invoice, job, changes>>

-----------------------------------------------------------------------------
(* runInventoryReconciliation, for a product in its batch                      *)

(* Mutant: only a total that is too small is taken for a drift.                *)
FindShortage ==
    /\ job.pc = "idle"
    /\ Sum(onHand) > total
    /\ job' = [job EXCEPT !.pc = "found"]
    /\ UNCHANGED <<saleVars, total, form, receipt, invoice, changes, moved, blind>>

FindDrift ==
    /\ job.pc = "idle"
    /\ Sum(onHand) # total
    /\ job' = [job EXCEPT !.pc = "found"]
    /\ UNCHANGED <<saleVars, total, form, receipt, invoice, changes, moved, blind>>

(* syncProductTotalStock reads the variants...                                 *)
ReadVariants ==
    /\ job.pc = "found"
    /\ job' = [pc |-> "read", sum |-> Sum(onHand)]
    /\ UNCHANGED <<saleVars, total, form, receipt, invoice, changes, moved, blind>>

(* ...and stores their sum, outside a transaction.                             *)
StoreTotal ==
    /\ job.pc = "read"
    /\ total' = job.sum
    /\ job' = NoJob
    /\ Touch
    /\ UNCHANGED <<saleVars, receipt, invoice, changes, moved, blind>>

Reconcile == FindDrift \/ ReadVariants \/ StoreTotal

Delta == {-1, 1}

StockNext ==
    \/ SaleStep(SaleNext)
    \/ \E k \in Sku, delta \in Delta :
          \/ AdjustStock(k, delta)
          \/ \E dated \in BOOLEAN : OpenForm(k, delta, dated)
    \/ \E r \in Receipt : CheckReceipt(r) \/ RecordReceipt(r)
    \/ VoidInvoice
    \/ UpdateProduct
    \/ Reconcile

StockSpec == StockInit /\ [][StockNext]_stockVars

(* A sale that has begun runs to its end; the job's timer fires again and a    *)
(* pass goes on.                                                               *)
StockFairSpec ==
    /\ StockSpec
    /\ \A s \in Sale : WF_stockVars(SaleStep(Proceed(s)))
    /\ WF_stockVars(Reconcile)

-----------------------------------------------------------------------------
(* Properties                                                                  *)

(* Unless a form without updatedAt was saved over a newer product, no writer   *)
(* undoes another: each variant has what it started with and what adjustments, *)
(* forms and deliveries meant to add, less what sales hold. It is never        *)
(* negative, whatever the forms do.                                            *)
StockIsExplained ==
    \A k \in Sku :
        /\ onHand[k] >= 0
        /\ ~blind /\ ~late /\ lost = 0 =>
              onHand[k] + Total([s \in Sale |-> Holding(s, k)], Sale)
                  = InitStock[k] + moved[k]

(* A total that has drifted is put right again when the product is left alone  *)
(* for long enough, although the job itself, overtaken between its read and    *)
(* its write, can make it drift.                                               *)
DriftIsFixed == total # Sum(onHand) ~> total = Sum(onHand)
=============================================================================
