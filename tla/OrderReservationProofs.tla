----------------------- MODULE OrderReservationProofs -----------------------
(* Proofs about OrderReservation, and about GiftOrders on top of it, for any     *)
(* number of orders, variants, units, updates and answers in flight, crashes.   *)
EXTENDS GiftOrders, FiniteSetTheorems, TLAPS

(* What a step of the gifting workflow does to orders and stock: what any      *)
(* handler of an order may do, or it makes an order that reserves nothing.      *)
MakesGiftOrder ==
    /\ \E o \in Order : order[o].status = "absent" /\ order' = [order EXCEPT ![o] = GiftDoc]
    /\ UNCHANGED <<stock, captured, handlers, worker, crashes>>

(* The steps of orders with and without gifting. What holds of AnySpec holds   *)
(* of both.                                                                    *)
AnyStep == [Next]_vars \/ MakesGiftOrder
AnySpec == Init /\ [][AnyStep]_vars

(* A step of the gifting workflow is a step of an order's handler, leaves the  *)
(* orders alone, or makes a gift order.                                        *)
LEMMA GiftSteps == [GiftNext]_allVars => [Next]_vars \/ MakesGiftOrder
<1> SUFFICES ASSUME [GiftNext]_allVars PROVE [Next]_vars \/ MakesGiftOrder
  OBVIOUS
<1>1. CASE OrderStep(Next) \/ UNCHANGED allVars
  BY <1>1 DEF OrderStep, allVars
<1>2. ASSUME NEW u \in Update \cup Answer,
             \/ SaveUpdate(u) \/ SaveRejection(u) \/ FindLinkedOrder(u)
             \/ \E next \in DOMAIN ADMIN_TRANSITIONS : OpenUpdate(u, next)
             \/ \E answer \in {"approved_by_user", "rejected_by_user"} : OpenAnswer(u, answer)
      PROVE  UNCHANGED vars
  BY <1>2 DEF SaveUpdate, SaveRejection, SaveRequest, FindLinkedOrder, OpenUpdate, OpenAnswer
<1>3. ASSUME NEW a \in Answer, NEW o \in Order, AcceptQuote(a, o)
      PROVE  UNCHANGED vars \/ MakesGiftOrder
  BY <1>3 DEF AcceptQuote, Accept, MakeOrder, MakesGiftOrder, vars, handlers, worker
<1> QED BY <1>1, <1>2, <1>3 DEF GiftNext

LEMMA Specs == Spec \/ GiftSpec => AnySpec
<1>1. [GiftNext]_allVars => [AnyStep]_vars
  BY GiftSteps DEF AnyStep
<1>2. [Next]_vars => [AnyStep]_vars
  BY DEF AnyStep
<1>3. GiftInit => Init
  BY DEF GiftInit
<1> QED BY <1>1, <1>2, <1>3, PTL DEF Spec, GiftSpec, AnySpec

-----------------------------------------------------------------------------
(* Types                                                                       *)

(* The document a restock writes has the type of the one it was given, and the *)
(* shelf stays in the naturals.                                                *)
LEMMA RestoreType ==
    ASSUME TypeOK, NEW o \in Order, NEW d \in OrderDoc, RestoreAnd(o, d)
    PROVE  stock' \in [Sku -> Nat] /\ order' \in [Order -> OrderDoc]
<1> DEFINE e == [d EXCEPT !.reserved = FALSE]
<1>1. e \in OrderDoc
  BY DEF OrderDoc
<1>2. \/ order' = [order EXCEPT ![o] = e] /\ stock' = Increment(order[o].lines)
      \/ order' = [order EXCEPT ![o] = d] /\ UNCHANGED stock
  BY DEF RestoreAnd
<1> HIDE DEF e
<1>3. order' \in [Order -> OrderDoc]
  BY <1>1, <1>2 DEF TypeOK
<1>4. stock' \in [Sku -> Nat]
  BY <1>2 DEF TypeOK, Increment
<1> QED BY <1>3, <1>4

LEMMA TypeStep == TypeOK /\ [Next]_vars => TypeOK'
<1> SUFFICES ASSUME TypeOK, [Next]_vars PROVE TypeOK'
  OBVIOUS
<1>a. /\ order \in [Order -> OrderDoc] /\ stock \in [Sku -> Nat]
      /\ \A o \in Order : order[o] \in OrderDoc /\ order[o].lines \in SUBSET Sku
  BY DEF TypeOK, OrderDoc
<1> USE DEF handlers, worker
<1>1. ASSUME NEW o \in Order, NEW L \in Cart, CreateCodOrder(o, L) PROVE TypeOK'
  <2>1. CodOrder(L) \in OrderDoc
    BY DEF Cart, CodOrder, NoOrder, OrderDoc, Status
  <2> QED BY <1>1, <2>1 DEF CreateCodOrder, TypeOK, Available, Decrement, Cart
<1>2. ASSUME NEW o \in Order, NEW L \in Cart, CreatePaidOrder(o, L) PROVE TypeOK'
  <2>1. PaidOrder(L) \in OrderDoc
    BY DEF Cart, PaidOrder, OrderDoc, Status
  <2> QED BY <1>2, <2>1 DEF CreatePaidOrder, TypeOK, Available, Decrement, Cart
<1>3. ASSUME NEW o \in Order, SwitchToRazorpay(o) PROVE TypeOK'
  BY <1>3, <1>a DEF SwitchToRazorpay, TypeOK, OrderDoc
<1>4. ASSUME NEW o \in Order, LinkRazorpayOrder(o) PROVE TypeOK'
  BY <1>4, <1>a DEF LinkRazorpayOrder, TypeOK, OrderDoc
<1>5. ASSUME NEW o \in Order, CustomerPays(o) PROVE TypeOK'
  BY <1>5 DEF CustomerPays, TypeOK
<1>6. ASSUME NEW o \in Order, FinalizeDirectOrder(o) PROVE TypeOK'
  <2>1. stock' \in [Sku -> Nat]
    BY <1>6, <1>a DEF FinalizeDirectOrder, Available, Decrement
  <2>2. order' \in [Order -> OrderDoc]
    <3> DEFINE d == [order[o] EXCEPT !.pay = "paid", !.status = "confirmed",
                                     !.payId = TRUE, !.reserved = TRUE]
    <3>1. d \in OrderDoc
      BY <1>a DEF OrderDoc, Status
    <3>2. order' = [order EXCEPT ![o] = d]
      BY <1>6 DEF FinalizeDirectOrder
    <3> HIDE DEF d
    <3> QED BY <3>1, <3>2, <1>a
  <2> QED BY <1>6, <2>1, <2>2 DEF FinalizeDirectOrder, TypeOK
<1>7. ASSUME NEW o \in Order, CheckUnpaid(o) PROVE TypeOK'
  BY <1>7 DEF CheckUnpaid, TypeOK
<1>8. ASSUME NEW o \in Order, AutoCancel(o) PROVE TypeOK'
  <2>1. order' \in [Order -> OrderDoc]
    <3> DEFINE d == [order[o] EXCEPT !.status = "cancelled", !.pay = "failed"]
    <3>1. d \in OrderDoc
      BY <1>a DEF OrderDoc, Status
    <3>2. order' = [order EXCEPT ![o] = d] \/ UNCHANGED order
      BY <1>8 DEF AutoCancel
    <3> HIDE DEF d
    <3> QED BY <3>1, <3>2, <1>a
  <2>2. job' \in [Order -> {"idle", "checked", "cancelled"}]
    BY <1>8 DEF AutoCancel, TypeOK
  <2> QED BY <1>8, <2>1, <2>2 DEF AutoCancel, TypeOK
<1>9. ASSUME NEW o \in Order, AutoRelease(o) PROVE TypeOK'
  <2>1. order' \in [Order -> OrderDoc]
    <3> DEFINE d == [order[o] EXCEPT !.reserved = FALSE]
    <3>1. d \in OrderDoc
      BY <1>a DEF OrderDoc
    <3>2. order' = [order EXCEPT ![o] = d] \/ UNCHANGED order
      BY <1>9 DEF AutoRelease
    <3> HIDE DEF d
    <3> QED BY <3>1, <3>2, <1>a
  <2>2. owed' \subseteq Order \X Sku
    BY <1>9, <1>a DEF AutoRelease, TypeOK
  <2>3. job' \in [Order -> {"idle", "checked", "cancelled"}]
    BY <1>9 DEF AutoRelease, TypeOK
  <2> QED BY <1>9, <2>1, <2>2, <2>3 DEF AutoRelease, TypeOK
<1>10. ASSUME NEW o \in Order, NEW s \in Sku, PutBackLine(o, s) PROVE TypeOK'
  BY <1>10 DEF PutBackLine, TypeOK, Increment
<1>11. ASSUME NEW o \in Order, CustomerCancel(o) PROVE TypeOK'
  <2>1. order' \in [Order -> OrderDoc]
    BY <1>11, <1>a DEF CustomerCancel, OrderDoc, Status
  <2> QED BY <1>11, <2>1 DEF CustomerCancel, TypeOK
<1>12. ASSUME NEW o \in Order, CustomerRestock(o) PROVE TypeOK'
  <2>1. stock' \in [Sku -> Nat] /\ order' \in [Order -> OrderDoc]
    BY <1>12, <1>a, RestoreType DEF CustomerRestock
  <2> QED BY <1>12, <2>1 DEF CustomerRestock, TypeOK
<1>13. ASSUME NEW o \in Order, NEW target \in Status, OpenStatusEdit(o, target)
       PROVE  TypeOK'
  BY <1>13 DEF OpenStatusEdit, TypeOK
<1>14. ASSUME NEW o \in Order, NEW target \in Status, SaveStatusEdit(o, target)
       PROVE  TypeOK'
  <2>1. order' \in [Order -> OrderDoc]
    <3> DEFINE d == [order[o] EXCEPT !.status = target,
                         !.pay = IF target = "delivered" THEN "paid" ELSE order[o].pay]
    <3>1. d \in OrderDoc
      BY <1>a DEF OrderDoc
    <3>2. order' = [order EXCEPT ![o] = d] \/ UNCHANGED order
      BY <1>14 DEF SaveStatusEdit
    <3> HIDE DEF d
    <3> QED BY <3>1, <3>2, <1>a
  <2> QED BY <1>14, <2>1 DEF SaveStatusEdit, TypeOK
<1>15. ASSUME NEW o \in Order, AdminCancel(o) PROVE TypeOK'
  <2>1. [order[o] EXCEPT !.status = "cancelled"] \in OrderDoc
    BY <1>a DEF OrderDoc, Status
  <2>2. stock' \in [Sku -> Nat] /\ order' \in [Order -> OrderDoc]
    BY <1>15, <1>a, <2>1, RestoreType DEF AdminCancel
  <2> QED BY <1>15, <2>2 DEF AdminCancel, TypeOK
<1>16. ASSUME NEW o \in Order, NEW full \in BOOLEAN, StartRefund(o, full) PROVE TypeOK'
  BY <1>16 DEF StartRefund, TypeOK
<1>17. ASSUME NEW o \in Order, CommitRefund(o) PROVE TypeOK'
  <2> DEFINE d == [order[o] EXCEPT !.status = "refunded", !.pay = "refunded"]
  <2>1. d \in OrderDoc
    BY <1>a DEF OrderDoc, Status
  <2>2. \/ UNCHANGED <<stock, order>>
        \/ RestoreAnd(o, d)
        \/ order' = [order EXCEPT ![o] = d] /\ UNCHANGED stock
    BY <1>17 DEF CommitRefund
  <2> HIDE DEF d
  <2>3. stock' \in [Sku -> Nat] /\ order' \in [Order -> OrderDoc]
    BY <1>a, <2>1, <2>2, RestoreType
  <2> QED BY <1>17, <2>3 DEF CommitRefund, TypeOK
<1>18. ASSUME NEW o \in Order, DeleteOrder(o) PROVE TypeOK'
  <2>1. order' \in [Order -> OrderDoc]
    <3> DEFINE d == [order[o] EXCEPT !.status = "deleted", !.reserved = FALSE]
    <3>1. d \in OrderDoc
      BY <1>a DEF OrderDoc
    <3>2. order' = [order EXCEPT ![o] = d]
      BY <1>18 DEF DeleteOrder
    <3> HIDE DEF d
    <3> QED BY <3>1, <3>2, <1>a
  <2> QED BY <1>18, <2>1 DEF DeleteOrder, TypeOK
<1>19. CASE ServerCrash \/ \E o \in Order : RequestFails(o)
  BY <1>19, BoundAssumption DEF ServerCrash, RequestFails, TypeOK
<1>20. CASE WorkerCrash
  BY <1>20, BoundAssumption DEF WorkerCrash, TypeOK
<1>21. CASE UNCHANGED vars
  BY <1>21 DEF vars, TypeOK
<1>22. ASSUME NEW o \in Order, OpenShipment(o) \/ OpenTracking(o) PROVE TypeOK'
  <2>1. edits' \subseteq Order \X (Status \cup {"tracked"})
    BY <1>22 DEF OpenShipment, OpenTracking, TypeOK, Status
  <2> QED BY <1>22, <2>1 DEF OpenShipment, OpenTracking, TypeOK
<1>23. ASSUME NEW o \in Order, SaveTracking(o) PROVE TypeOK'
  <2> DEFINE d == [order[o] EXCEPT !.status = "delivered"]
  <2>1. d \in OrderDoc
    BY <1>a DEF OrderDoc, Status
  <2>2. order' = [order EXCEPT ![o] = d] \/ UNCHANGED order
    BY <1>23 DEF SaveTracking
  <2> HIDE DEF d
  <2>3. order' \in [Order -> OrderDoc]
    BY <2>1, <2>2, <1>a
  <2> QED BY <1>23, <2>3 DEF SaveTracking, TypeOK
<1> QED BY <1>1, <1>2, <1>3, <1>4, <1>5, <1>6, <1>7, <1>8, <1>9, <1>10, <1>11, <1>12,
           <1>13, <1>14, <1>15, <1>16, <1>17, <1>18, <1>19, <1>20, <1>21, <1>22, <1>23
        DEF Next

(* A gift order is an order document.                                          *)
LEMMA GiftTypeStep == ASSUME TypeOK, MakesGiftOrder PROVE TypeOK'
<1>1. GiftDoc \in OrderDoc
  BY GiftAssumption DEF GiftDoc, NoOrder, OrderDoc, Status
<1> QED BY <1>1 DEF MakesGiftOrder, TypeOK, handlers, worker

LEMMA TypeInit == Init => TypeOK
BY StockAssumption, BoundAssumption DEF Init, TypeOK, NoOrder, OrderDoc

(* Every variable keeps its type: whatever handlers and job do to an order, no *)
(* variant is oversold.                                                        *)
THEOREM TypeCorrect == Spec \/ GiftSpec => []TypeOK
<1>1. TypeOK /\ [AnyStep]_vars => TypeOK'
  BY TypeStep, GiftTypeStep DEF AnyStep
<1> QED BY <1>1, TypeInit, Specs, PTL DEF AnySpec

-----------------------------------------------------------------------------
(* What a step does to one order, whichever it is about                        *)

(* Cancelled, holding stock and in nobody's hands.                             *)
Stranded(o) ==
    /\ order[o].status = "cancelled" /\ order[o].reserved
    /\ o \notin cancelling /\ job[o] # "cancelled"

(* No order becomes absent again, is pending again or loses its payment but to *)
(* a refund, and no step strands one.                                          *)
OrderMoves(o) ==
    /\ order'[o].status = "absent" => order'[o] = order[o]
    /\ order'[o].pay = "pending" => order[o].pay = "pending" \/ order[o].status = "absent"
    /\ order[o].pay = "paid" /\ order'[o].status # "deleted" =>
          \/ order'[o].pay = "paid" \/ order[o].status = "absent"
          \/ order'[o].pay = "refunded" /\ o \in refunding
    /\ crashes' = 0 /\ Stranded(o)' => crashes = 0 /\ Stranded(o)

(* The job cancels only pending orders, and owes lines only of an order it has *)
(* cancelled and is done with.                                                 *)
JobMoves(o) ==
    /\ job'[o] = "cancelled" =>
          job[o] = "cancelled" \/ (order[o].pay = "pending" /\ order'[o].pay = "failed")
    /\ \A s \in Sku : <<o, s>> \in owed' \ owed => job[o] = "cancelled" /\ job'[o] = "idle"

(* A step that writes one document, as most do.                                *)
LEMMA WriteMoves ==
    ASSUME TypeOK, NEW p \in Order, NEW o \in Order, NEW d, order' = [order EXCEPT ![o] = d],
           d.status # "absent",
           d.pay = "pending" => order[o].pay = "pending" \/ order[o].status = "absent",
           order[o].pay = "paid" /\ d.status # "deleted" =>
               \/ d.pay = "paid" \/ order[o].status = "absent"
               \/ d.pay = "refunded" /\ o \in refunding,
           crashes' = crashes,
           d.status = "cancelled" /\ d.reserved /\ o \notin cancelling' /\ job'[o] # "cancelled"
               => Stranded(o),
           \A q \in Order \ {o} : job'[q] = job[q] /\ (q \in cancelling' <=> q \in cancelling)
    PROVE  OrderMoves(p)
<1>1. order'[p] = IF p = o THEN d ELSE order[p]
  BY DEF TypeOK
<1> QED BY <1>1 DEF OrderMoves, Stranded

(* Every handler, the job, a crash and a gift order move an order so.          *)
LEMMA OrderWrites ==
    ASSUME TypeOK, AnyStep, NEW p \in Order PROVE OrderMoves(p)
<1>a. /\ order \in [Order -> OrderDoc] /\ crashes \in Nat /\ order[p] \in OrderDoc
      /\ \A o \in Order : order[o] \in OrderDoc /\ order[o].status \in Status \cup {"absent", "deleted"}
                          /\ order[o].reserved \in BOOLEAN
                          /\ order[o].pay \in {"pending", "paid", "failed", "refunded"}
  BY BoundAssumption DEF TypeOK, OrderDoc
<1>b. ASSUME UNCHANGED order,
             \/ crashes' # 0
             \/ /\ UNCHANGED crashes
                /\ \A q \in Order : Exists(q) /\ order[q].reserved =>
                       /\ q \in cancelling => q \in cancelling'
                       /\ job[q] = "cancelled" => job'[q] = "cancelled"
      PROVE  OrderMoves(p)
  BY <1>b, <1>a DEF OrderMoves, Stranded, Exists, Status
<1> USE DEF handlers, worker
<1>1. ASSUME NEW o \in Order, NEW L \in Cart, CreateCodOrder(o, L) \/ CreatePaidOrder(o, L)
      PROVE  OrderMoves(p)
  <2>1. \E d \in {CodOrder(L), PaidOrder(L)} : order' = [order EXCEPT ![o] = d]
    BY <1>1 DEF CreateCodOrder, CreatePaidOrder
  <2>2. CodOrder(L).status = "pending" /\ PaidOrder(L).status = "confirmed"
    BY DEF CodOrder, PaidOrder, NoOrder
  <2>3. order[o].status = "absent" /\ UNCHANGED <<crashes, job, cancelling>>
    BY <1>1 DEF CreateCodOrder, CreatePaidOrder
  <2> QED BY <2>1, <2>2, <2>3, WriteMoves
<1>2. ASSUME NEW o \in Order, SwitchToRazorpay(o) \/ LinkRazorpayOrder(o)
      PROVE  OrderMoves(p)
  <2> DEFINE d == [order[o] EXCEPT !.method = "razorpay"]
             e == [order[o] EXCEPT !.link = "direct"]
  <2>1. \A x \in {d, e} : x.status = order[o].status /\ x.pay = order[o].pay
                          /\ x.reserved = order[o].reserved
    BY <1>a DEF OrderDoc
  <2>2. order' = [order EXCEPT ![o] = d] \/ order' = [order EXCEPT ![o] = e]
    BY <1>2 DEF SwitchToRazorpay, LinkRazorpayOrder
  <2> HIDE DEF d, e
  <2>3. PICK x : /\ order' = [order EXCEPT ![o] = x]
                 /\ x.status = order[o].status /\ x.pay = order[o].pay
                 /\ x.reserved = order[o].reserved
    BY <2>1, <2>2
  <2>4. order[o].status # "absent" /\ UNCHANGED <<crashes, job, cancelling>>
    BY <1>2 DEF SwitchToRazorpay, LinkRazorpayOrder, Exists, Status
  <2>5. x.status = "cancelled" /\ x.reserved /\ o \notin cancelling' /\ job'[o] # "cancelled"
            => Stranded(o)
    BY <2>3, <2>4 DEF Stranded
  <2> QED BY <2>3, <2>4, <2>5, WriteMoves
<1>3. ASSUME NEW o \in Order, FinalizeDirectOrder(o) PROVE OrderMoves(p)
  <2> DEFINE d == [order[o] EXCEPT !.pay = "paid", !.status = "confirmed",
                                   !.payId = TRUE, !.reserved = TRUE]
  <2>1. d.pay = "paid" /\ d.status = "confirmed"
    BY <1>a DEF OrderDoc
  <2>2. order' = [order EXCEPT ![o] = d] /\ UNCHANGED <<crashes, job, cancelling>>
    BY <1>3 DEF FinalizeDirectOrder
  <2> HIDE DEF d
  <2> QED BY <2>1, <2>2, WriteMoves
<1>4. ASSUME NEW o \in Order, AutoCancel(o) PROVE OrderMoves(p)
  <2> DEFINE d == [order[o] EXCEPT !.status = "cancelled", !.pay = "failed"]
  <2>1. d.status = "cancelled" /\ d.pay = "failed" /\ d.reserved = order[o].reserved
    BY <1>a DEF OrderDoc
  <2>2. CASE /\ order' = [order EXCEPT ![o] = d] /\ order[o].pay = "pending"
             /\ job' = [job EXCEPT ![o] = IF order[o].reserved THEN "cancelled" ELSE "idle"]
             /\ UNCHANGED <<crashes, cancelling>>
    <3> HIDE DEF d
    <3>1. /\ order[o].reserved => job'[o] = "cancelled"
          /\ \A q \in Order \ {o} : job'[q] = job[q]
      BY <2>2 DEF TypeOK
    <3> QED BY <2>1, <2>2, <3>1, WriteMoves
  <2>3. CASE /\ UNCHANGED <<order, crashes, cancelling>>
             /\ job[o] = "checked" /\ job' = [job EXCEPT ![o] = "idle"]
    BY <2>3, <1>b DEF TypeOK
  <2> QED BY <1>4, <2>2, <2>3 DEF AutoCancel
<1>5. ASSUME NEW o \in Order, AutoRelease(o) PROVE OrderMoves(p)
  <2> DEFINE d == [order[o] EXCEPT !.reserved = FALSE]
  <2>1. d.status = order[o].status /\ d.pay = order[o].pay /\ ~d.reserved
    BY <1>a DEF OrderDoc
  <2>2. /\ job' = [job EXCEPT ![o] = "idle"] /\ UNCHANGED <<crashes, cancelling>>
        /\ \A q \in Order \ {o} : job'[q] = job[q]
    BY <1>5 DEF AutoRelease, TypeOK
  <2>3. CASE Exists(o) /\ order[o].reserved /\ order' = [order EXCEPT ![o] = d]
    <3> HIDE DEF d
    <3>1. order[o].status # "absent"
      BY <2>3 DEF Exists, Status
    <3> QED BY <2>1, <2>2, <2>3, <3>1, WriteMoves
  <2>4. CASE ~(Exists(o) /\ order[o].reserved) /\ UNCHANGED order
    BY <2>2, <2>4, <1>b
  <2> QED BY <1>5, <2>3, <2>4 DEF AutoRelease
<1>6. ASSUME NEW o \in Order, CustomerCancel(o) PROVE OrderMoves(p)
  <2> DEFINE d == [order[o] EXCEPT !.status = "cancelled"]
  <2>1. d.status = "cancelled" /\ d.pay = order[o].pay /\ d.reserved = order[o].reserved
    BY <1>a DEF OrderDoc
  <2>2. /\ order' = [order EXCEPT ![o] = d] /\ UNCHANGED <<crashes, job>>
        /\ cancelling' = IF order[o].reserved THEN cancelling \cup {o} ELSE cancelling
    BY <1>6 DEF CustomerCancel
  <2> HIDE DEF d
  <2> QED BY <2>1, <2>2, WriteMoves
<1>7. ASSUME NEW o \in Order, NEW d \in OrderDoc, RestoreAnd(o, d), Exists(o),
             d.status \in Status,
             d.pay = order[o].pay \/ (d.pay = "refunded" /\ o \in refunding),
             d.reserved = order[o].reserved, UNCHANGED <<crashes, job>>,
             \A q \in Order \ {o} : q \in cancelling' <=> q \in cancelling
      PROVE  OrderMoves(p)
  <2> DEFINE e == [d EXCEPT !.reserved = FALSE]
  <2>1. e.status = d.status /\ e.pay = d.pay /\ ~e.reserved
    BY DEF OrderDoc
  <2>2. \E x \in {d, e} : order' = [order EXCEPT ![o] = x] /\ ~x.reserved
    BY <1>7, <1>a, <2>1 DEF RestoreAnd
  <2>3. order[o].status # "absent" /\ d.status # "absent"
    BY <1>7 DEF Exists, Status
  <2> HIDE DEF e
  <2> QED BY <1>7, <2>1, <2>2, <2>3, WriteMoves
<1>8. ASSUME NEW o \in Order, CustomerRestock(o) PROVE OrderMoves(p)
  <2>1. /\ UNCHANGED <<crashes, job>>
        /\ \A q \in Order \ {o} : q \in cancelling' <=> q \in cancelling
    BY <1>8 DEF CustomerRestock
  <2>2. CASE Exists(o) /\ RestoreAnd(o, order[o])
    <3> DEFINE d == order[o]
    <3>1. d \in OrderDoc /\ d.status \in Status /\ d.pay = order[o].pay
          /\ d.reserved = order[o].reserved /\ RestoreAnd(o, d)
      BY <1>a, <2>2 DEF Exists
    <3> HIDE DEF d
    <3> QED BY <1>7, <2>1, <2>2, <3>1
  <2>3. CASE ~Exists(o) /\ UNCHANGED order
    BY <1>b, <2>1, <2>3
  <2> QED BY <1>8, <2>2, <2>3 DEF CustomerRestock
<1>9. ASSUME NEW o \in Order, NEW target \in Status, SaveStatusEdit(o, target)
      PROVE  OrderMoves(p)
  <2> DEFINE d == [order[o] EXCEPT !.status = target,
                       !.pay = IF target = "delivered" THEN "paid" ELSE order[o].pay]
  <2>1. d.status = target /\ (d.pay = "paid" \/ d.pay = order[o].pay)
    BY <1>a DEF OrderDoc
  <2>2. target \notin {"cancelled", "absent"} /\ UNCHANGED <<crashes, job, cancelling>>
    BY <1>9 DEF SaveStatusEdit, Status
  <2>3. order' = [order EXCEPT ![o] = d] \/ UNCHANGED order
    BY <1>9 DEF SaveStatusEdit
  <2> HIDE DEF d
  <2> QED BY <1>b, <2>1, <2>2, <2>3, WriteMoves
<1>10. ASSUME NEW o \in Order, SaveTracking(o) PROVE OrderMoves(p)
  <2> DEFINE d == [order[o] EXCEPT !.status = "delivered"]
  <2>1. d.status = "delivered" /\ d.pay = order[o].pay
    BY <1>a DEF OrderDoc
  <2>2. /\ UNCHANGED <<crashes, job, cancelling>>
        /\ order' = [order EXCEPT ![o] = d] \/ UNCHANGED order
    BY <1>10 DEF SaveTracking
  <2> HIDE DEF d
  <2> QED BY <1>b, <2>1, <2>2, WriteMoves
<1>11. ASSUME NEW o \in Order, AdminCancel(o) PROVE OrderMoves(p)
  <2> DEFINE d == [order[o] EXCEPT !.status = "cancelled"]
  <2>1. d \in OrderDoc /\ d.status = "cancelled" /\ d.pay = order[o].pay
        /\ d.reserved = order[o].reserved
    BY <1>a DEF OrderDoc, Status
  <2>2. /\ UNCHANGED <<crashes, job, cancelling>>
        /\ (Exists(o) /\ RestoreAnd(o, d)) \/ UNCHANGED order
    BY <1>11 DEF AdminCancel
  <2> HIDE DEF d
  <2>3. "cancelled" \in Status
    BY DEF Status
  <2>4. CASE Exists(o) /\ RestoreAnd(o, d)
    BY <1>7, <2>1, <2>2, <2>3, <2>4
  <2> QED BY <1>b, <2>2, <2>4
<1>12. ASSUME NEW o \in Order, CommitRefund(o) PROVE OrderMoves(p)
  <2> DEFINE d == [order[o] EXCEPT !.status = "refunded", !.pay = "refunded"]
  <2>1. d \in OrderDoc /\ d.status = "refunded" /\ d.pay = "refunded"
        /\ d.reserved = order[o].reserved
    BY <1>a DEF OrderDoc, Status
  <2>2. /\ UNCHANGED <<crashes, job, cancelling>> /\ o \in refunding
        /\ \/ Exists(o) /\ RestoreAnd(o, d)
           \/ order' = [order EXCEPT ![o] = d]
           \/ UNCHANGED order
    BY <1>12 DEF CommitRefund
  <2> HIDE DEF d
  <2>3. "refunded" \in Status
    BY DEF Status
  <2>4. CASE order' = [order EXCEPT ![o] = d]
    BY <2>1, <2>2, <2>4, WriteMoves
  <2> QED BY <1>b, <1>7, <2>1, <2>2, <2>3, <2>4
<1>13. ASSUME NEW o \in Order, DeleteOrder(o) PROVE OrderMoves(p)
  <2> DEFINE d == [order[o] EXCEPT !.status = "deleted", !.reserved = FALSE]
  <2>1. d.status = "deleted" /\ d.pay = order[o].pay
    BY <1>a DEF OrderDoc
  <2>2. order' = [order EXCEPT ![o] = d] /\ UNCHANGED <<crashes, job, cancelling>>
    BY <1>13 DEF DeleteOrder
  <2> HIDE DEF d
  <2> QED BY <2>1, <2>2, WriteMoves
<1>14. ASSUME NEW o \in Order,
              \/ CustomerPays(o) \/ CheckUnpaid(o)
              \/ \E s \in Sku : PutBackLine(o, s)
              \/ \E target \in Status : OpenStatusEdit(o, target)
              \/ OpenShipment(o) \/ OpenTracking(o)
              \/ \E full \in BOOLEAN : StartRefund(o, full)
       PROVE  OrderMoves(p)
  <2>1. UNCHANGED <<order, crashes, cancelling>>
    BY <1>14 DEF CustomerPays, CheckUnpaid, PutBackLine, OpenStatusEdit, OpenShipment,
                 OpenTracking, StartRefund
  <2>2. \A q \in Order : job[q] = "cancelled" => job'[q] = "cancelled"
    BY <1>14 DEF CustomerPays, CheckUnpaid, PutBackLine, OpenStatusEdit, OpenShipment,
                 OpenTracking, StartRefund, TypeOK
  <2> QED BY <1>b, <2>1, <2>2
<1>15. CASE ServerCrash \/ WorkerCrash \/ \E o \in Order : RequestFails(o)
  <2>1. crashes' # 0 /\ UNCHANGED order
    BY <1>15, <1>a DEF ServerCrash, WorkerCrash, RequestFails
  <2> QED BY <1>b, <2>1
<1>16. CASE UNCHANGED vars
  BY <1>16, <1>b DEF vars
<1>17. CASE MakesGiftOrder
  <2>1. PICK o \in Order : order[o].status = "absent" /\ order' = [order EXCEPT ![o] = GiftDoc]
    BY <1>17 DEF MakesGiftOrder
  <2>2. GiftDoc.status = "pending"
    BY DEF GiftDoc, NoOrder
  <2>3. UNCHANGED <<crashes, job, cancelling>>
    BY <1>17 DEF MakesGiftOrder
  <2> QED BY <2>1, <2>2, <2>3, WriteMoves
<1> QED BY <1>1, <1>2, <1>3, <1>4, <1>5, <1>6, <1>8, <1>9, <1>10, <1>11, <1>12, <1>13,
           <1>14, <1>15, <1>16, <1>17 DEF AnyStep, Next

-----------------------------------------------------------------------------
(* The inductive invariant                                                     *)

(* An order that is not placed yet has no payment and no stock.                *)
Untouched == \A o \in Order :
    order[o].status = "absent" => order[o].pay = "pending" /\ ~order[o].reserved

(* What the job has cancelled, and what it owes, is of orders that left        *)
(* "pending" for good: it never cancels them a second time.                    *)
JobSettled ==
    /\ \A o \in Order : job[o] = "cancelled" => order[o].pay # "pending"
    /\ \A o \in Order, s \in Sku :
          <<o, s>> \in owed => order[o].pay # "pending" /\ job[o] # "cancelled"

OInv == TypeOK /\ Untouched /\ JobSettled

(* Only AutoCancel starts a release, and only AutoRelease makes the job owe.   *)
LEMMA JobWrites ==
    ASSUME TypeOK, AnyStep, NEW o \in Order PROVE JobMoves(o)
<1>a. /\ \A q \in Order : order[q] \in OrderDoc
      /\ order \in [Order -> OrderDoc] /\ job \in [Order -> {"idle", "checked", "cancelled"}]
  BY DEF TypeOK
<1>b. ASSUME owed' \subseteq owed, job'[o] = "cancelled" => job[o] = "cancelled"
      PROVE  JobMoves(o)
  BY <1>b DEF JobMoves
<1> USE DEF handlers, worker
<1>1. ASSUME NEW q \in Order, AutoCancel(q) PROVE JobMoves(o)
  <2>1. CASE o = q
    <3> DEFINE d == [order[q] EXCEPT !.status = "cancelled", !.pay = "failed"]
    <3>1. d.pay = "failed"
      BY <1>a DEF OrderDoc
    <3>2. UNCHANGED owed /\ (job'[o] = "cancelled" => order[o].pay = "pending" /\ order'[o] = d)
      BY <1>1, <1>a, <2>1 DEF AutoCancel
    <3> HIDE DEF d
    <3> QED BY <3>1, <3>2 DEF JobMoves
  <2>2. CASE o # q
    <3>1. UNCHANGED owed /\ job'[o] = job[o]
      BY <1>1, <1>a, <2>2 DEF AutoCancel
    <3> QED BY <3>1, <1>b
  <2> QED BY <2>1, <2>2
<1>2. ASSUME NEW q \in Order, AutoRelease(q) PROVE JobMoves(o)
  <2>1. /\ job[q] = "cancelled" /\ job' = [job EXCEPT ![q] = "idle"]
        /\ owed' \subseteq owed \cup ({q} \X order[q].lines)
    BY <1>2 DEF AutoRelease
  <2> QED BY <2>1, <1>a DEF JobMoves
<1>3. ASSUME NEW q \in Order, CheckUnpaid(q) PROVE JobMoves(o)
  BY <1>3, <1>a, <1>b DEF CheckUnpaid
<1>4. ASSUME NEW q \in Order, NEW s \in Sku, PutBackLine(q, s) PROVE JobMoves(o)
  BY <1>4, <1>b DEF PutBackLine
<1>5. ASSUME UNCHANGED worker PROVE JobMoves(o)
  BY <1>5, <1>b
<1>6. CASE \/ ServerCrash \/ WorkerCrash \/ UNCHANGED vars \/ MakesGiftOrder
           \/ \E q \in Order : RequestFails(q)
  BY <1>6, <1>b DEF ServerCrash, WorkerCrash, RequestFails, vars, MakesGiftOrder
<1>7. ASSUME NEW q \in Order, NEW L \in Cart, CreateCodOrder(q, L) \/ CreatePaidOrder(q, L)
      PROVE  UNCHANGED worker
  BY <1>7 DEF CreateCodOrder, CreatePaidOrder
<1>8. ASSUME NEW q \in Order,
             \/ SwitchToRazorpay(q) \/ LinkRazorpayOrder(q) \/ CustomerPays(q)
             \/ FinalizeDirectOrder(q) \/ CustomerCancel(q) \/ CustomerRestock(q)
             \/ OpenShipment(q) \/ OpenTracking(q) \/ SaveTracking(q) \/ AdminCancel(q)
             \/ CommitRefund(q) \/ DeleteOrder(q)
      PROVE  UNCHANGED worker
  BY <1>8 DEF SwitchToRazorpay, LinkRazorpayOrder, CustomerPays, FinalizeDirectOrder,
              CustomerCancel, CustomerRestock, OpenShipment, OpenTracking, SaveTracking,
              AdminCancel, CommitRefund, DeleteOrder
<1>9. ASSUME NEW q \in Order, NEW target, NEW full,
             OpenStatusEdit(q, target) \/ SaveStatusEdit(q, target) \/ StartRefund(q, full)
      PROVE  UNCHANGED worker
  BY <1>9 DEF OpenStatusEdit, SaveStatusEdit, StartRefund
<1> QED BY <1>1, <1>2, <1>3, <1>4, <1>5, <1>6, <1>7, <1>8, <1>9 DEF AnyStep, Next

(* Pending is left for good, so the job settles an order once.                 *)
LEMMA OInvStep == OInv /\ AnyStep => OInv'
<1> SUFFICES ASSUME OInv, AnyStep PROVE OInv'
  OBVIOUS
<1>1. TypeOK /\ TypeOK'
  BY TypeStep, GiftTypeStep DEF OInv, AnyStep
<1>2. \A o \in Order : OrderMoves(o) /\ JobMoves(o)
  BY <1>1, OrderWrites, JobWrites
<1>3. Untouched'
  BY <1>2 DEF OInv, Untouched, OrderMoves
<1>4. ASSUME NEW o \in Order, order[o].pay # "pending" PROVE order'[o].pay # "pending"
  BY <1>2, <1>4 DEF OInv, Untouched, OrderMoves
<1>5. JobSettled'
  <2>1. ASSUME NEW o \in Order, job'[o] = "cancelled" PROVE order'[o].pay # "pending"
    BY <1>2, <1>4, <2>1 DEF OInv, JobSettled, JobMoves
  <2>2. ASSUME NEW o \in Order, NEW s \in Sku, <<o, s>> \in owed'
        PROVE  order'[o].pay # "pending" /\ job'[o] # "cancelled"
    BY <1>2, <1>4, <2>2 DEF OInv, JobSettled, JobMoves
  <2> QED BY <2>1, <2>2 DEF JobSettled
<1> QED BY <1>1, <1>3, <1>5 DEF OInv

(* The invariant holds with and without gifting.                               *)
LEMMA OInvariant == AnySpec => []OInv
<1>1. Init => OInv
  BY TypeInit DEF Init, NoOrder, Untouched, JobSettled, OInv
<1>2. OInv /\ [AnyStep]_vars => OInv'
  BY OInvStep DEF AnyStep
<1> QED BY <1>1, <1>2, PTL DEF AnySpec

-----------------------------------------------------------------------------
(* Payments and cancellations                                                  *)

LEMMA PaidStep ==
    ASSUME OInv, AnyStep, NEW o \in Order, order[o].pay = "paid", order'[o].status # "deleted"
    PROVE  /\ order'[o].pay \in {"paid", "refunded"}
           /\ order'[o].pay = "refunded" => o \in refunding
BY OrderWrites DEF OInv, Untouched, OrderMoves

(* A payment in the books is undone by a refund in progress and by nothing     *)
(* else; the job's late cancellation in particular never fails a paid order.   *)
THEOREM PaidRefunded == Spec \/ GiftSpec => PaidIsOnlyRefunded
<1>1. OInv /\ [AnyStep]_vars =>
        [\A o \in Order : order[o].pay = "paid" /\ order'[o].status # "deleted" =>
          /\ order'[o].pay \in {"paid", "refunded"}
          /\ order'[o].pay = "refunded" => o \in refunding]_vars
  BY PaidStep
<1> QED BY <1>1, OInvariant, Specs, PTL DEF AnySpec, PaidIsOnlyRefunded

LEMMA ReleasedStep == OInv /\ CancelledIsReleased /\ AnyStep => CancelledIsReleased'
<1> SUFFICES ASSUME OInv, CancelledIsReleased, AnyStep, crashes' = 0, NEW o \in Order
             PROVE  ~Stranded(o)'
  BY DEF CancelledIsReleased, Stranded
<1> QED BY OrderWrites DEF OInv, OrderMoves, CancelledIsReleased, Stranded

(* While nothing crashes, a cancelled order that holds stock is in the hands   *)
(* of the request or the job that cancelled it, whatever else happens to it.   *)
THEOREM CancelledReleased == Spec \/ GiftSpec => []CancelledIsReleased
<1>1. Init => CancelledIsReleased
  BY DEF Init, NoOrder, CancelledIsReleased
<1>2. OInv /\ CancelledIsReleased /\ [AnyStep]_vars => CancelledIsReleased'
  BY ReleasedStep DEF AnyStep
<1> QED BY <1>1, <1>2, OInvariant, Specs, PTL DEF AnySpec

-----------------------------------------------------------------------------
(* The stock ledger: what orders hold and what the job owes are its claims      *)

Claimant == Order \X {"order", "job"}

(* The units orders say they hold.                                             *)
Holds == {p \in Order \X Sku : order[p[1]].reserved /\ p[2] \in order[p[1]].lines}

(* Claims, read back: an order's are what it holds, the job's what it owes.    *)
ClaimsRead ==
    /\ Claims \subseteq Claimant \X Sku
    /\ \A o \in Order, s \in Sku :
         /\ <<<<o, "order">>, s>> \in Claims <=> <<o, s>> \in Holds
         /\ <<<<o, "job">>, s>> \in Claims <=> <<o, s>> \in owed

LEMMA InClaims == TypeOK => ClaimsRead
<1> SUFFICES ASSUME TypeOK PROVE ClaimsRead
  OBVIOUS
<1>1. /\ Claims = {<<<<p[1], "order">>, p[2]>> : p \in Holds}
                    \cup {<<<<p[1], "job">>, p[2]>> : p \in owed}
      /\ Holds \subseteq Order \X Sku /\ owed \subseteq Order \X Sku
  BY DEF Claims, Holds, TypeOK
<1>2. Claims \subseteq Claimant \X Sku
  BY <1>1 DEF Claimant
<1>3. ASSUME NEW o \in Order, NEW s \in Sku
      PROVE  /\ <<<<o, "order">>, s>> \in Claims <=> <<o, s>> \in Holds
             /\ <<<<o, "job">>, s>> \in Claims <=> <<o, s>> \in owed
  <2>1. /\ <<o, s>> \in Holds => <<<<o, "order">>, s>> \in Claims
        /\ <<o, s>> \in owed => <<<<o, "job">>, s>> \in Claims
    BY <1>1
  <2>2. /\ <<<<o, "order">>, s>> \in Claims => <<o, s>> \in Holds
        /\ <<<<o, "job">>, s>> \in Claims => <<o, s>> \in owed
    BY <1>1
  <2> QED BY <2>1, <2>2
<1> QED BY <1>2, <1>3 DEF ClaimsRead

LEMMA InClaimsAfter == TypeOK' => ClaimsRead'
BY InClaims, PTL

(* The claims after a step are the set that agrees with what orders and the    *)
(* job own then.                                                               *)
LEMMA ClaimsAre ==
    ASSUME ClaimsRead', NEW C \in SUBSET (Claimant \X Sku),
           \A o \in Order, s \in Sku :
               /\ <<<<o, "order">>, s>> \in C <=> <<o, s>> \in Holds'
               /\ <<<<o, "job">>, s>> \in C <=> <<o, s>> \in owed'
    PROVE  Claims' = C
<1>1. ASSUME NEW x \in Claimant \X Sku PROVE x \in C <=> x \in Claims'
  <2>1. PICK o \in Order, k \in {"order", "job"}, s \in Sku : x = <<<<o, k>>, s>>
    BY DEF Claimant
  <2>2. /\ <<<<o, "order">>, s>> \in C <=> <<<<o, "order">>, s>> \in Claims'
        /\ <<<<o, "job">>, s>> \in C <=> <<<<o, "job">>, s>> \in Claims'
    BY DEF ClaimsRead
  <2> QED BY <2>1, <2>2
<1>2. Claims' \subseteq Claimant \X Sku
  BY DEF ClaimsRead
<1> QED BY <1>1, <1>2

(* The six moves a step makes on the ledger, said of Holds, owed and stock: an  *)
(* order takes units off the shelf; gives them back; hands them to the job; the *)
(* job puts one back; units are taken for nobody; claims are forgotten.        *)
LEMMA TakesForOrder ==
    ASSUME ClaimsRead, ClaimsRead', NEW o \in Order, NEW L \in SUBSET Sku,
           UNCHANGED owed, Holds' = Holds \cup ({o} \X L), \A s \in L : <<o, s>> \notin Holds,
           \A s \in L : stock[s] > 0, stock' = Decrement(L)
    PROVE  Ledger!Take(<<o, "order">>, L)
<1> DEFINE C == Claims \cup ({<<o, "order">>} \X L)
<1>1. C \in SUBSET (Claimant \X Sku)
  BY DEF ClaimsRead, Claimant
<1>2. \A p \in Order, s \in Sku :
          /\ <<<<p, "order">>, s>> \in C <=> <<p, s>> \in Holds'
          /\ <<<<p, "job">>, s>> \in C <=> <<p, s>> \in owed'
  BY DEF ClaimsRead
<1> HIDE DEF C
<1>3. Claims' = C
  BY <1>1, <1>2, ClaimsAre
<1>4. \A s \in L : <<<<o, "order">>, s>> \notin Claims
  BY DEF ClaimsRead
<1> QED BY <1>3, <1>4 DEF C, Decrement, Ledger!Take, Ledger!Minus

LEMMA ReturnsOrders ==
    ASSUME ClaimsRead, ClaimsRead', NEW o \in Order, NEW L \in SUBSET Sku,
           UNCHANGED owed, Holds' = Holds \ ({o} \X L), \A s \in L : <<o, s>> \in Holds,
           stock' = Increment(L)
    PROVE  Ledger!Return(<<o, "order">>, L)
<1> DEFINE C == Claims \ ({<<o, "order">>} \X L)
<1>1. C \in SUBSET (Claimant \X Sku)
  BY DEF ClaimsRead
<1>2. \A p \in Order, s \in Sku :
          /\ <<<<p, "order">>, s>> \in C <=> <<p, s>> \in Holds'
          /\ <<<<p, "job">>, s>> \in C <=> <<p, s>> \in owed'
  BY DEF ClaimsRead
<1> HIDE DEF C
<1>3. Claims' = C
  BY <1>1, <1>2, ClaimsAre
<1>4. \A s \in L : <<<<o, "order">>, s>> \in Claims
  BY DEF ClaimsRead
<1> QED BY <1>3, <1>4 DEF C, Increment, Ledger!Return, Ledger!Plus

LEMMA HandsToJob ==
    ASSUME ClaimsRead, ClaimsRead', NEW o \in Order, NEW L \in SUBSET Sku,
           owed' = owed \cup ({o} \X L), \A s \in L : <<o, s>> \notin owed,
           Holds' = Holds \ ({o} \X L), \A s \in L : <<o, s>> \in Holds,
           UNCHANGED stock
    PROVE  Ledger!Transfer(<<o, "order">>, <<o, "job">>, L)
<1> DEFINE C == (Claims \ ({<<o, "order">>} \X L)) \cup ({<<o, "job">>} \X L)
<1>1. C \in SUBSET (Claimant \X Sku)
  BY DEF ClaimsRead, Claimant
<1>2. \A p \in Order, s \in Sku :
          /\ <<<<p, "order">>, s>> \in C <=> <<p, s>> \in Holds'
          /\ <<<<p, "job">>, s>> \in C <=> <<p, s>> \in owed'
  BY DEF ClaimsRead
<1> HIDE DEF C
<1>3. Claims' = C
  BY <1>1, <1>2, ClaimsAre
<1>4. \A s \in L : <<<<o, "order">>, s>> \in Claims /\ <<<<o, "job">>, s>> \notin Claims
  BY DEF ClaimsRead
<1>5. {<<o, "order">>} \X L \subseteq Claims
  <2> SUFFICES ASSUME NEW s \in L PROVE <<<<o, "order">>, s>> \in Claims
    OBVIOUS
  <2> QED BY <1>4
<1>6. ({<<o, "job">>} \X L) \cap Claims = {}
  <2>1. ASSUME NEW x \in {<<o, "job">>} \X L PROVE x \notin Claims
    <3>1. PICK s \in L : x = <<<<o, "job">>, s>>
      OBVIOUS
    <3> QED BY <1>4, <3>1
  <2> QED BY <2>1
<1> QED BY <1>3, <1>5, <1>6 DEF C, Ledger!Transfer

LEMMA JobReturns ==
    ASSUME ClaimsRead, ClaimsRead', NEW o \in Order, NEW s \in Sku,
           UNCHANGED Holds, <<o, s>> \in owed, owed' = owed \ {<<o, s>>},
           stock' = Increment({s})
    PROVE  Ledger!Return(<<o, "job">>, {s})
<1> DEFINE C == Claims \ ({<<o, "job">>} \X {s})
<1>1. C \in SUBSET (Claimant \X Sku)
  BY DEF ClaimsRead
<1>2. \A p \in Order, t \in Sku :
          /\ <<<<p, "order">>, t>> \in C <=> <<p, t>> \in Holds'
          /\ <<<<p, "job">>, t>> \in C <=> <<p, t>> \in owed'
  BY DEF ClaimsRead
<1> HIDE DEF C
<1>3. Claims' = C
  BY <1>1, <1>2, ClaimsAre
<1>4. <<<<o, "job">>, s>> \in Claims
  BY DEF ClaimsRead
<1> QED BY <1>3, <1>4 DEF C, Increment, Ledger!Return, Ledger!Plus

LEMMA LosesUnits ==
    ASSUME ClaimsRead, ClaimsRead', NEW L \in SUBSET Sku, UNCHANGED <<Holds, owed>>,
           \A s \in L : stock[s] > 0, stock' = Decrement(L)
    PROVE  Ledger!Shrink(L)
<1>1. Claims' = Claims
  <2>1. Claims \in SUBSET (Claimant \X Sku)
    BY DEF ClaimsRead
  <2>2. \A p \in Order, s \in Sku :
          /\ <<<<p, "order">>, s>> \in Claims <=> <<p, s>> \in Holds'
          /\ <<<<p, "job">>, s>> \in Claims <=> <<p, s>> \in owed'
    BY DEF ClaimsRead
  <2> HIDE DEF Claims
  <2> QED BY <2>1, <2>2, ClaimsAre
<1> QED BY <1>1 DEF Decrement, Ledger!Shrink, Ledger!Minus

LEMMA DropsClaims ==
    ASSUME ClaimsRead, ClaimsRead', owed' \subseteq owed, UNCHANGED stock, Holds' \subseteq Holds
    PROVE  Ledger!Forget(Claims \ Claims')
<1>1. ASSUME NEW x \in Claimant \X Sku, x \in Claims' PROVE x \in Claims
  <2>1. PICK o \in Order, k \in {"order", "job"}, s \in Sku : x = <<<<o, k>>, s>>
    BY DEF Claimant
  <2> QED BY <1>1, <2>1 DEF ClaimsRead
<1>2. Claims' \subseteq Claims
  BY <1>1 DEF ClaimsRead
<1> QED BY <1>2 DEF Ledger!Forget

(* What writing a document does to what orders hold.                           *)
LEMMA HoldsAfter ==
    ASSUME TypeOK, NEW o \in Order, NEW d, d.lines \subseteq Sku,
           order' = [order EXCEPT ![o] = d]
    PROVE  /\ d.lines = order[o].lines /\ d.reserved = order[o].reserved => Holds' = Holds
           /\ ~d.reserved => Holds' = Holds \ ({o} \X order[o].lines) /\ Holds' \subseteq Holds
           /\ ~d.reserved /\ ~order[o].reserved => Holds' = Holds
           /\ d.reserved /\ ~order[o].reserved =>
                /\ Holds' = Holds \cup ({o} \X d.lines)
                /\ \A s \in d.lines : <<o, s>> \notin Holds
           /\ order[o].reserved => \A s \in order[o].lines : <<o, s>> \in Holds
<1>1. /\ order'[o] = d /\ \A p \in Order \ {o} : order'[p] = order[p]
      /\ order[o].lines \subseteq Sku
  BY DEF TypeOK, OrderDoc
<1>2. /\ \A s \in Sku : <<o, s>> \in Holds' <=> d.reserved /\ s \in d.lines
      /\ \A s \in Sku : <<o, s>> \in Holds <=> order[o].reserved /\ s \in order[o].lines
      /\ \A p \in Order \ {o}, s \in Sku : <<p, s>> \in Holds' <=> <<p, s>> \in Holds
      /\ Holds \subseteq Order \X Sku /\ Holds' \subseteq Order \X Sku
  BY <1>1 DEF Holds
<1> HIDE DEF Holds
<1>3. ASSUME d.lines = order[o].lines, d.reserved = order[o].reserved PROVE Holds' = Holds
  <2>1. ASSUME NEW p \in Order, NEW s \in Sku PROVE <<p, s>> \in Holds' <=> <<p, s>> \in Holds
    BY <1>2, <1>3
  <2> QED BY <1>2, <2>1
<1>4. ASSUME ~d.reserved PROVE Holds' = Holds \ ({o} \X order[o].lines)
  <2>1. ASSUME NEW p \in Order, NEW s \in Sku
        PROVE  <<p, s>> \in Holds' <=> <<p, s>> \in Holds \ ({o} \X order[o].lines)
    BY <1>2, <1>4
  <2> QED BY <1>2, <2>1
<1>5. ASSUME ~d.reserved, ~order[o].reserved PROVE Holds' = Holds
  <2>1. ASSUME NEW p \in Order, NEW s \in Sku PROVE <<p, s>> \in Holds' <=> <<p, s>> \in Holds
    BY <1>2, <1>5
  <2> QED BY <1>2, <2>1
<1>6. ASSUME d.reserved, ~order[o].reserved PROVE Holds' = Holds \cup ({o} \X d.lines)
  <2>1. ASSUME NEW p \in Order, NEW s \in Sku
        PROVE  <<p, s>> \in Holds' <=> <<p, s>> \in Holds \cup ({o} \X d.lines)
    BY <1>2, <1>6
  <2>2. Holds \cup ({o} \X d.lines) \subseteq Order \X Sku
    BY <1>2
  <2> QED BY <1>2, <2>1, <2>2
<1> QED BY <1>1, <1>2, <1>3, <1>4, <1>5, <1>6

(* claimAndRestoreOrderStock returns what the order holds, or does nothing.    *)
LEMMA RestoreOnLedger ==
    ASSUME TypeOK, ClaimsRead, ClaimsRead', NEW o \in Order, NEW d \in OrderDoc,
           d.lines = order[o].lines, d.reserved = order[o].reserved,
           RestoreAnd(o, d), UNCHANGED owed
    PROVE  Ledger!Next
<1> DEFINE e == [d EXCEPT !.reserved = FALSE]
           L == order[o].lines
<1>1. ~e.reserved /\ e.lines = L /\ L \in SUBSET Sku /\ d.lines \subseteq Sku
  BY DEF OrderDoc
<1>2. CASE order[o].reserved /\ order' = [order EXCEPT ![o] = e] /\ stock' = Increment(L)
  <2> HIDE DEF e
  <2>1. Holds' = Holds \ ({o} \X L) /\ \A s \in L : <<o, s>> \in Holds
    BY <1>1, <1>2, HoldsAfter
  <2>2. Ledger!Return(<<o, "order">>, L)
    BY <1>1, <1>2, <2>1, ReturnsOrders
  <2> QED BY <1>1, <2>2 DEF Ledger!Next
<1>3. CASE ~order[o].reserved /\ order' = [order EXCEPT ![o] = d] /\ UNCHANGED stock
  <2>1. Holds' = Holds
    BY <1>1, <1>3, HoldsAfter
  <2>2. Ledger!Forget(Claims \ Claims')
    BY <1>3, <2>1, DropsClaims
  <2> QED BY <2>2 DEF Ledger!Next
<1> QED BY <1>2, <1>3 DEF RestoreAnd

(* Every step is one of these moves.                                           *)
LEMMA LedgerStep ==
    ASSUME OInv, OInv', AnyStep PROVE Ledger!Next
<1>a. /\ TypeOK /\ ClaimsRead /\ ClaimsRead'
      /\ \A o \in Order : order[o] \in OrderDoc /\ order[o].lines \in SUBSET Sku
                          /\ order[o].reserved \in BOOLEAN
      /\ stock \in [Sku -> Nat]
  BY InClaims, InClaimsAfter DEF OInv, TypeOK, OrderDoc
<1>b. ASSUME UNCHANGED stock, owed' \subseteq owed, Holds' \subseteq Holds PROVE Ledger!Next
  BY <1>a, <1>b, DropsClaims DEF Ledger!Next
<1>c. ASSUME UNCHANGED order, UNCHANGED stock, owed' \subseteq owed PROVE Ledger!Next
  <2>1. Holds' = Holds
    BY <1>c DEF Holds
  <2> QED BY <1>b, <1>c, <2>1
<1>d. ASSUME NEW o \in Order, NEW d, d.lines = order[o].lines, d.reserved = order[o].reserved,
             order' = [order EXCEPT ![o] = d] \/ UNCHANGED order, UNCHANGED <<stock, owed>>
      PROVE  Ledger!Next
  <2>1. CASE order' = [order EXCEPT ![o] = d]
    <3>1. Holds' = Holds
      BY <1>a, <1>d, <2>1, HoldsAfter
    <3> QED BY <1>b, <1>d, <3>1
  <2> QED BY <1>c, <1>d, <2>1
<1> USE DEF handlers, worker
<1>1. ASSUME NEW o \in Order, NEW L \in Cart, CreateCodOrder(o, L) \/ CreatePaidOrder(o, L)
      PROVE  Ledger!Next
  <2>1. PICK d \in {CodOrder(L), PaidOrder(L)} : order' = [order EXCEPT ![o] = d]
    BY <1>1 DEF CreateCodOrder, CreatePaidOrder
  <2>2. d.reserved /\ d.lines = L /\ L \in SUBSET Sku
    <3>1. /\ CodOrder(L).reserved /\ CodOrder(L).lines = L
          /\ PaidOrder(L).reserved /\ PaidOrder(L).lines = L
      BY DEF CodOrder, PaidOrder, NoOrder
    <3>2. L \in SUBSET Sku
      BY DEF Cart
    <3> QED BY <3>1, <3>2
  <2>3. /\ ~order[o].reserved /\ stock' = Decrement(L) /\ UNCHANGED owed
        /\ \A s \in L : stock[s] >= 1
    BY <1>1 DEF CreateCodOrder, CreatePaidOrder, OInv, Untouched, Available
  <2>4. Holds' = Holds \cup ({o} \X L) /\ \A s \in L : <<o, s>> \notin Holds
    BY <1>a, <2>1, <2>2, <2>3, HoldsAfter
  <2>5. \A s \in L : stock[s] > 0
    BY <1>a, <2>2, <2>3
  <2>6. Ledger!Take(<<o, "order">>, L)
    BY <1>a, <2>2, <2>3, <2>4, <2>5, TakesForOrder
  <2> QED BY <2>2, <2>6 DEF Ledger!Next
<1>2. ASSUME NEW o \in Order, SwitchToRazorpay(o) \/ LinkRazorpayOrder(o)
      PROVE  Ledger!Next
  <2> DEFINE d == [order[o] EXCEPT !.method = "razorpay"]
             e == [order[o] EXCEPT !.link = "direct"]
  <2>1. /\ d.lines = order[o].lines /\ d.reserved = order[o].reserved
        /\ e.lines = order[o].lines /\ e.reserved = order[o].reserved
    BY <1>a DEF OrderDoc
  <2>2. order' = [order EXCEPT ![o] = d] \/ order' = [order EXCEPT ![o] = e]
    BY <1>2 DEF SwitchToRazorpay, LinkRazorpayOrder
  <2>3. UNCHANGED <<stock, owed>>
    BY <1>2 DEF SwitchToRazorpay, LinkRazorpayOrder
  <2> HIDE DEF d, e
  <2> QED BY <2>1, <2>2, <2>3, <1>d
<1>3. ASSUME NEW o \in Order, FinalizeDirectOrder(o) PROVE Ledger!Next
  <2> DEFINE d == [order[o] EXCEPT !.pay = "paid", !.status = "confirmed",
                                   !.payId = TRUE, !.reserved = TRUE]
             L == order[o].lines
  <2>1. d.lines = L /\ d.reserved /\ L \in SUBSET Sku
    BY <1>a DEF OrderDoc
  <2>2. /\ order' = [order EXCEPT ![o] = d] /\ stock' = Decrement(L) /\ UNCHANGED owed
        /\ \A s \in L : stock[s] >= 1
    BY <1>3 DEF FinalizeDirectOrder, Available
  <2> HIDE DEF d
  <2>3. \A s \in L : stock[s] > 0
    BY <1>a, <2>1, <2>2
  <2>4. CASE order[o].reserved
    <3>1. d.reserved = order[o].reserved
      BY <1>a, <2>1, <2>4
    <3>2. UNCHANGED <<Holds, owed>>
      BY <1>a, <2>1, <2>2, <3>1, HoldsAfter
    <3>3. Ledger!Shrink(L)
      BY <1>a, <2>1, <2>2, <2>3, <3>2, LosesUnits
    <3> QED BY <2>1, <3>3 DEF Ledger!Next
  <2>5. CASE ~order[o].reserved
    <3>1. Holds' = Holds \cup ({o} \X L) /\ \A s \in L : <<o, s>> \notin Holds
      BY <1>a, <2>1, <2>2, <2>5, HoldsAfter
    <3>2. Ledger!Take(<<o, "order">>, L)
      BY <1>a, <2>1, <2>2, <2>3, <3>1, TakesForOrder
    <3> QED BY <2>1, <3>2 DEF Ledger!Next
  <2> QED BY <2>4, <2>5
<1>4. ASSUME NEW o \in Order, AutoCancel(o) PROVE Ledger!Next
  <2> DEFINE d == [order[o] EXCEPT !.status = "cancelled", !.pay = "failed"]
  <2>1. d.lines = order[o].lines /\ d.reserved = order[o].reserved
    BY <1>a DEF OrderDoc
  <2>2. (order' = [order EXCEPT ![o] = d] \/ UNCHANGED order) /\ UNCHANGED <<stock, owed>>
    BY <1>4 DEF AutoCancel
  <2> HIDE DEF d
  <2> QED BY <2>1, <2>2, <1>d
<1>5. ASSUME NEW o \in Order, AutoRelease(o) PROVE Ledger!Next
  <2> DEFINE d == [order[o] EXCEPT !.reserved = FALSE]
             L == order[o].lines
  <2>1. d.lines = L /\ ~d.reserved /\ L \in SUBSET Sku
    BY <1>a DEF OrderDoc
  <2>2. job[o] = "cancelled" /\ UNCHANGED stock
    BY <1>5 DEF AutoRelease
  <2>3. CASE /\ order[o].reserved /\ order' = [order EXCEPT ![o] = d]
             /\ owed' = owed \cup ({o} \X L)
    <3> HIDE DEF d
    <3>1. Holds' = Holds \ ({o} \X L) /\ \A s \in L : <<o, s>> \in Holds
      BY <1>a, <2>1, <2>3, HoldsAfter
    <3>2. \A s \in L : <<o, s>> \notin owed
      BY <2>1, <2>2 DEF OInv, JobSettled
    <3>3. Ledger!Transfer(<<o, "order">>, <<o, "job">>, L)
      BY <1>a, <2>1, <2>2, <2>3, <3>1, <3>2, HandsToJob
    <3> QED BY <2>1, <3>3 DEF Ledger!Next
  <2>4. CASE UNCHANGED <<order, owed>>
    BY <2>2, <2>4, <1>c
  <2> QED BY <1>5, <2>3, <2>4 DEF AutoRelease
<1>6. ASSUME NEW o \in Order, NEW s \in Sku, PutBackLine(o, s) PROVE Ledger!Next
  <2>1. UNCHANGED Holds
    BY <1>6 DEF PutBackLine, Holds
  <2>2. Ledger!Return(<<o, "job">>, {s})
    BY <1>a, <1>6, <2>1, JobReturns DEF PutBackLine
  <2> QED BY <2>2 DEF Ledger!Next
<1>7. ASSUME NEW o \in Order, CustomerCancel(o) PROVE Ledger!Next
  <2> DEFINE d == [order[o] EXCEPT !.status = "cancelled"]
  <2>1. d.lines = order[o].lines /\ d.reserved = order[o].reserved
    BY <1>a DEF OrderDoc
  <2>2. order' = [order EXCEPT ![o] = d] /\ UNCHANGED <<stock, owed>>
    BY <1>7 DEF CustomerCancel
  <2> HIDE DEF d
  <2> QED BY <2>1, <2>2, <1>d
<1>8. ASSUME NEW o \in Order, CustomerRestock(o) PROVE Ledger!Next
  <2>1. UNCHANGED owed /\ (RestoreAnd(o, order[o]) \/ UNCHANGED <<stock, order>>)
    BY <1>8 DEF CustomerRestock
  <2> QED BY <2>1, <1>a, <1>c, RestoreOnLedger
<1>9. ASSUME NEW o \in Order, NEW target \in Status, SaveStatusEdit(o, target)
      PROVE  Ledger!Next
  <2> DEFINE d == [order[o] EXCEPT !.status = target,
                       !.pay = IF target = "delivered" THEN "paid" ELSE order[o].pay]
  <2>1. d.lines = order[o].lines /\ d.reserved = order[o].reserved
    BY <1>a DEF OrderDoc
  <2>2. (order' = [order EXCEPT ![o] = d] \/ UNCHANGED order) /\ UNCHANGED <<stock, owed>>
    BY <1>9 DEF SaveStatusEdit
  <2> HIDE DEF d
  <2> QED BY <2>1, <2>2, <1>d
<1>10. ASSUME NEW o \in Order, AdminCancel(o) PROVE Ledger!Next
  <2> DEFINE d == [order[o] EXCEPT !.status = "cancelled"]
  <2>1. d \in OrderDoc /\ d.lines = order[o].lines /\ d.reserved = order[o].reserved
    BY <1>a DEF OrderDoc, Status
  <2>2. UNCHANGED owed /\ (RestoreAnd(o, d) \/ UNCHANGED <<stock, order>>)
    BY <1>10 DEF AdminCancel
  <2> HIDE DEF d
  <2> QED BY <2>1, <2>2, <1>a, <1>c, RestoreOnLedger
<1>11. ASSUME NEW o \in Order, CommitRefund(o) PROVE Ledger!Next
  <2> DEFINE d == [order[o] EXCEPT !.status = "refunded", !.pay = "refunded"]
  <2>1. d \in OrderDoc /\ d.lines = order[o].lines /\ d.reserved = order[o].reserved
    BY <1>a DEF OrderDoc, Status
  <2>2. /\ UNCHANGED owed
        /\ \/ UNCHANGED <<stock, order>>
           \/ RestoreAnd(o, d)
           \/ order' = [order EXCEPT ![o] = d] /\ UNCHANGED stock
    BY <1>11 DEF CommitRefund
  <2> HIDE DEF d
  <2> QED BY <2>1, <2>2, <1>a, <1>c, <1>d, RestoreOnLedger
<1>12. ASSUME NEW o \in Order, DeleteOrder(o) PROVE Ledger!Next
  <2> DEFINE d == [order[o] EXCEPT !.status = "deleted", !.reserved = FALSE]
  <2>1. d.lines = order[o].lines /\ ~d.reserved
    BY <1>a DEF OrderDoc
  <2>2. order' = [order EXCEPT ![o] = d] /\ UNCHANGED <<stock, owed>>
    BY <1>12 DEF DeleteOrder
  <2> HIDE DEF d
  <2>3. Holds' \subseteq Holds
    BY <1>a, <2>1, <2>2, HoldsAfter
  <2> QED BY <1>b, <2>2, <2>3
<1>13. ASSUME NEW o \in Order,
              \/ CustomerPays(o) \/ CheckUnpaid(o)
              \/ \E target \in Status : OpenStatusEdit(o, target)
              \/ OpenShipment(o) \/ OpenTracking(o)
              \/ \E full \in BOOLEAN : StartRefund(o, full)
       PROVE  Ledger!Next
  <2>1. UNCHANGED <<stock, order, owed>>
    BY <1>13 DEF CustomerPays, CheckUnpaid, OpenStatusEdit, OpenShipment, OpenTracking,
                 StartRefund
  <2> QED BY <2>1, <1>c
<1>14. CASE ServerCrash \/ WorkerCrash \/ UNCHANGED vars \/ \E o \in Order : RequestFails(o)
  <2>1. UNCHANGED <<stock, order>> /\ owed' \subseteq owed
    BY <1>14 DEF ServerCrash, WorkerCrash, RequestFails, vars
  <2> QED BY <2>1, <1>c
<1>15. ASSUME NEW o \in Order, SaveTracking(o) PROVE Ledger!Next
  <2> DEFINE d == [order[o] EXCEPT !.status = "delivered"]
  <2>1. d.lines = order[o].lines /\ d.reserved = order[o].reserved
    BY <1>a DEF OrderDoc
  <2>2. (order' = [order EXCEPT ![o] = d] \/ UNCHANGED order) /\ UNCHANGED <<stock, owed>>
    BY <1>15 DEF SaveTracking
  <2> HIDE DEF d
  <2> QED BY <2>1, <2>2, <1>d
<1>16. CASE MakesGiftOrder
  <2>1. PICK o \in Order : order[o].status = "absent" /\ order' = [order EXCEPT ![o] = GiftDoc]
    BY <1>16 DEF MakesGiftOrder
  <2>2. ~GiftDoc.reserved /\ GiftDoc.lines \subseteq Sku
    BY GiftAssumption DEF GiftDoc, NoOrder
  <2>3. Holds' \subseteq Holds
    BY <1>a, <2>1, <2>2, HoldsAfter
  <2> QED BY <1>16, <2>3, <1>b DEF MakesGiftOrder
<1> QED BY <1>1, <1>2, <1>3, <1>4, <1>5, <1>6, <1>7, <1>8, <1>9, <1>10, <1>11, <1>12,
           <1>13, <1>14, <1>15, <1>16 DEF AnyStep, Next
-----------------------------------------------------------------------------
(* Placement, payment, cancellation, refund, deletion and the job implement    *)
(* the stock ledger: a unit is taken off the shelf, handed on or put back by   *)
(* the one party that owns it, and at worst lost.                              *)
THEOREM ImplementsLedger == Spec \/ GiftSpec => LedgerSpec
<1>1. Init => Ledger!Init
  BY DEF Init, NoOrder, Ledger!Init, Claims
<1>2. OInv /\ OInv' /\ [AnyStep]_vars => [Ledger!Next]_(Ledger!ledgerVars)
  BY LedgerStep DEF AnyStep
<1> QED BY <1>1, <1>2, OInvariant, Specs, PTL DEF AnySpec, LedgerSpec, Ledger!Spec

(* Hence the ledger's own theorem about these claims.                          *)
Kept == INSTANCE StockLedgerProofs
    WITH Claimant <- Order \X {"order", "job"}, onHand <- stock, claims <- Claims

(* The ledger counts as this module does.                                      *)
LEMMA SameCount ==
    ASSUME NEW S
    PROVE  (Kept!IsFiniteSet(S) <=> IsFiniteSet(S)) /\ Kept!Cardinality(S) = Cardinality(S)
<1>1. Kept!IsFiniteSet(S) <=> IsFiniteSet(S)
  BY DEF Kept!IsFiniteSet, IsFiniteSet
<1>2. Kept!Cardinality(S) = Cardinality(S)
  BY DEF Kept!Cardinality, Cardinality
<1> QED BY <1>1, <1>2

LEMMA LedgerKept == LedgerSpec => [](Kept!LedgerTypeOK /\ Kept!NoUnitMinted)
<1>1. Kept!LedgerAssumption
  <2>1. {"order", "job"} = {"order"} \cup {"job"}
    OBVIOUS
  <2>2. IsFiniteSet({"order", "job"})
    <3>1. IsFiniteSet({"order"}) /\ IsFiniteSet({"job"})
      BY FS_Singleton
    <3>2. IsFiniteSet({"order"} \cup {"job"})
      BY <3>1, FS_Union
    <3> QED BY <2>1, <3>2
  <2>3. IsFiniteSet(Order \X {"order", "job"})
    BY <2>2, OrderAssumption, FS_Product
  <2> QED BY <2>3, SameCount, StockAssumption DEF Kept!LedgerAssumption
<1>2. Kept!Spec => [](Kept!LedgerTypeOK /\ Kept!NoUnitMinted)
  BY <1>1, Kept!LedgerKeepsUnits
<1>3. LedgerSpec => Kept!Spec
  BY DEF LedgerSpec,
         Ledger!Spec, Ledger!Init, Ledger!Next, Ledger!ledgerVars, Ledger!Take,
         Ledger!Return, Ledger!Transfer, Ledger!Shrink, Ledger!Forget, Ledger!Minus,
         Ledger!Plus, Kept!Spec, Kept!Init, Kept!Next, Kept!ledgerVars, Kept!Take,
         Kept!Return, Kept!Transfer, Kept!Shrink, Kept!Forget, Kept!Minus, Kept!Plus
<1> QED BY <1>2, <1>3

(* Tagging the elements of a set does not change their number.                 *)
LEMMA Tagged ==
    ASSUME NEW S, IsFiniteSet(S), NEW k
    PROVE  /\ IsFiniteSet({<<x, k>> : x \in S})
           /\ Cardinality({<<x, k>> : x \in S}) = Cardinality(S)
<1> DEFINE T == {<<x, k>> : x \in S}
           f == [x \in S |-> <<x, k>>]
<1>1. f \in Surjection(S, T) /\ f \in Injection(S, T)
  BY DEF Surjection, Injection, IsInjective
<1> HIDE DEF f, T
<1>2. IsFiniteSet(T) /\ Cardinality(T) = Cardinality(S)
  BY <1>1, FS_Surjection
<1> QED BY <1>2 DEF T

(* Who owns a unit of s on the ledger: the orders that hold one, the job for    *)
(* each it owes.                                                               *)
LEMMA OwnersAreOrders ==
    ASSUME TypeOK, NEW s \in Sku
    PROVE  Cardinality(Kept!Owners(s)) = Cardinality(Reserved(s)) + Cardinality(Returning(s))
<1> DEFINE A == {<<o, "order">> : o \in Reserved(s)}
           B == {<<o, "job">> : o \in Returning(s)}
<1>1. Kept!Owners(s) = A \cup B
  <2>1. \A o \in Order : /\ <<<<o, "order">>, s>> \in Claims <=> o \in Reserved(s)
                         /\ <<<<o, "job">>, s>> \in Claims <=> o \in Returning(s)
    BY InClaims DEF ClaimsRead, Holds, Reserved, Returning
  <2>2. Reserved(s) \subseteq Order /\ Returning(s) \subseteq Order
    BY DEF Reserved, Returning
  <2>3. ASSUME NEW c \in Claimant PROVE <<c, s>> \in Claims <=> c \in A \cup B
    <3>1. PICK o \in Order, k \in {"order", "job"} : c = <<o, k>>
      BY DEF Claimant
    <3>2. CASE k = "order"
      BY <2>1, <3>1, <3>2
    <3>3. CASE k = "job"
      BY <2>1, <3>1, <3>3
    <3> QED BY <3>1, <3>2, <3>3
  <2>4. A \cup B \subseteq Claimant
    <3>1. A \subseteq Claimant
      BY <2>2 DEF Claimant
    <3>2. B \subseteq Claimant
      BY <2>2 DEF Claimant
    <3> QED BY <3>1, <3>2
  <2> HIDE DEF A, B
  <2>5. Kept!Owners(s) = {c \in Claimant : <<c, s>> \in Claims}
    BY DEF Kept!Owners, Claimant
  <2> QED BY <2>3, <2>4, <2>5
<1>2. A \cap B = {}
  OBVIOUS
<1>3. IsFiniteSet(Reserved(s)) /\ IsFiniteSet(Returning(s))
  BY OrderAssumption, FS_Subset DEF Reserved, Returning
<1>4. /\ IsFiniteSet(A) /\ Cardinality(A) = Cardinality(Reserved(s))
      /\ IsFiniteSet(B) /\ Cardinality(B) = Cardinality(Returning(s))
  BY <1>3, Tagged
<1> HIDE DEF A, B
<1>5. Cardinality(A \cup B) = Cardinality(A) + Cardinality(B) - 0
  BY <1>2, <1>4, FS_Union, FS_EmptySet
<1>6. Cardinality(Reserved(s)) \in Nat /\ Cardinality(Returning(s)) \in Nat
  BY <1>3, FS_CardinalityType
<1> QED BY <1>1, <1>4, <1>5, <1>6

(* What the ledger keeps is the bound on shelf, reservations and returns.      *)
LEMMA LedgerBound == TypeOK /\ Kept!NoUnitMinted => NoStockMinted
<1> SUFFICES ASSUME TypeOK, Kept!NoUnitMinted, NEW s \in Sku
             PROVE  Units(s) <= InitStock[s]
  BY DEF NoStockMinted
<1>1. stock[s] + Cardinality(Kept!Owners(s)) <= InitStock[s]
  BY SameCount DEF Kept!NoUnitMinted
<1>2. Cardinality(Reserved(s)) \in Nat /\ Cardinality(Returning(s)) \in Nat /\ stock[s] \in Nat
  BY OrderAssumption, FS_Subset, FS_CardinalityType DEF Reserved, Returning, TypeOK
<1> QED BY <1>1, <1>2, OwnersAreOrders DEF Units

(* A reservation is restocked at most once: however cancellations, refunds,     *)
(* payments, edits, deletions, gifts, the job and crashes interleave, shelf and *)
(* outstanding reservations never add up to more than there was.                *)
THEOREM NothingMinted == Spec \/ GiftSpec => []NoStockMinted
BY ImplementsLedger, LedgerKept, LedgerBound, TypeCorrect, PTL

-----------------------------------------------------------------------------
GiftStatus == {"none", "new", "price_quoted", "approved_by_user", "rejected_by_user",
               "cancelled"}

(* A request that has been ordered stays linked to its order.                   *)
Linked ==
    /\ gift \in [status : GiftStatus, order : Order \cup {NoOrderId}]
    /\ made \in {0, 1}
    /\ made = 1 => gift.order # NoOrderId

(* One gifting request makes one order at most, however many answers overlap    *)
(* and whatever stale updates write to its status: the link alone decides.      *)
THEOREM OrderedOnce == GiftSpec => []GiftOrderedOnce
<1>1. GiftInit => Linked
  <2> SUFFICES ASSUME NEW status \in {"none", "new"}, made = 0,
                      gift = [status |-> status, order |-> NoOrderId]
               PROVE  Linked
    BY DEF GiftInit
  <2>1. status \in GiftStatus /\ NoOrderId \in Order \cup {NoOrderId}
    BY DEF GiftStatus
  <2> QED BY <2>1 DEF Linked
<1>2. Linked /\ [GiftNext]_allVars => Linked'
  <2> SUFFICES ASSUME Linked, [GiftNext]_allVars PROVE Linked'
    OBVIOUS
  <2>1. CASE UNCHANGED <<gift, made>>
    BY <2>1 DEF Linked
  <2>2. ASSUME NEW c, call[c] \in GiftStatus, SaveRequest(c) PROVE Linked'
    BY <2>2 DEF SaveRequest, Linked
  <2>3. ASSUME NEW a \in Answer, NEW o \in Order, AcceptQuote(a, o) PROVE Linked'
    <3>1. \/ UNCHANGED <<gift, made>>
          \/ gift.order = NoOrderId /\ MakeOrder(o)
      BY <2>3 DEF AcceptQuote, Accept
    <3>2. CASE gift.order = NoOrderId /\ MakeOrder(o)
      <4>1. made = 0
        BY <3>2 DEF Linked
      <4>2. gift' = [status |-> "approved_by_user", order |-> o] /\ made' = 1
        BY <3>2, <4>1 DEF MakeOrder
      <4>3. "approved_by_user" \in GiftStatus /\ o # NoOrderId
        BY GiftAssumption DEF GiftStatus
      <4> QED BY <4>2, <4>3 DEF Linked
    <3> QED BY <2>1, <3>1, <3>2
  <2>4. CASE OrderStep(Next) \/ UNCHANGED allVars
    BY <2>1, <2>4 DEF OrderStep, giftVars, allVars
  <2>5. ASSUME NEW u,
               \/ FindLinkedOrder(u)
               \/ \E next \in DOMAIN ADMIN_TRANSITIONS : OpenUpdate(u, next)
               \/ \E answer \in {"approved_by_user", "rejected_by_user"} : OpenAnswer(u, answer)
        PROVE  Linked'
    BY <2>1, <2>5 DEF FindLinkedOrder, OpenUpdate, OpenAnswer
  <2>6. ASSUME NEW u, SaveUpdate(u) \/ SaveRejection(u) PROVE Linked'
    <3>1. DOMAIN ADMIN_TRANSITIONS \subseteq GiftStatus
      BY DEF ADMIN_TRANSITIONS, GiftStatus
    <3>2. call[u] \in GiftStatus /\ SaveRequest(u)
      BY <2>6, <3>1 DEF SaveUpdate, SaveRejection, GiftStatus
    <3> QED BY <3>2, <2>2
  <2> QED BY <2>3, <2>4, <2>5, <2>6 DEF GiftNext
<1>3. Linked => GiftOrderedOnce
  BY DEF Linked, GiftOrderedOnce
<1> QED BY <1>1, <1>2, <1>3, PTL DEF GiftSpec
=============================================================================
