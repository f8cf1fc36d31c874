----------------------------- MODULE GiftOrders -----------------------------
(* Custom gifts: a customer's gifting request is quoted by an admin, answered  *)
(* by the customer and becomes an order that holds no stock and is handled by  *)
(* everything OrderReservation knows. Admins and the customer read the request *)
(* and save it later over whatever it has become; only the order is made in a  *)
(* transaction. There is one request; a call whose process dies never goes on. *)
EXTENDS OrderReservation

CONSTANTS Custom,     \* the SKU of a gift order's lines, which no product has
          Update,     \* updates of the request by admins
          Answer,     \* the customer's answers to the quote
          GiftEdits,  \* bound: status updates in flight for a gift order
          NoOrderId   \* no linkedOrderId

ASSUME GiftAssumption ==
    /\ Custom \in Sku /\ InitStock[Custom] = 0 /\ NoOrderId \notin Order
    /\ Update \cap Answer = {} /\ GiftEdits \in Nat

VARIABLES
    gift,   \* GiftingRequest: status and linkedOrderId
    call,   \* the updates and answers under way: the status they will save
    made    \* orders made for the request; of two only the first is followed

giftVars == <<gift, call, made>>
allVars == <<vars, giftVars>>

ADMIN_TRANSITIONS ==
    [s \in {"new", "price_quoted", "approved_by_user", "rejected_by_user", "cancelled"} |->
        CASE s = "new" -> {"price_quoted", "cancelled"}
          [] s = "cancelled" -> {}
          [] OTHER -> {"cancelled"}]

(* A shop with checkouts, or one with a gifting request.                       *)
GiftInit == \E status \in {"none", "new"} :
    /\ Init
    /\ gift = [status |-> status, order |-> NoOrderId]
    /\ call = [c \in Update \cup Answer |-> "idle"]
    /\ made = 0

(* Whatever happens to orders meanwhile.                                       *)
OrderStep(A) ==
    /\ A
    /\ gift.status # "none" =>
          /\ Cardinality(edits') <= GiftEdits
          /\ \A o \in Order : order[o].status = "absent" => order'[o].status = "absent"
    /\ UNCHANGED giftVars

-----------------------------------------------------------------------------
(* updateGiftingRequestAdmin: the check of the transition, then the save. A    *)
(* status that stays as it was read is not written.                            *)

OpenUpdate(u, next) ==
    /\ call[u] = "idle"
    /\ gift.status # "none"
    /\ next \in ADMIN_TRANSITIONS[gift.status]
    /\ call' = [call EXCEPT ![u] = next]
    /\ UNCHANGED <<vars, gift, made>>

SaveRequest(c) ==
    /\ call' = [call EXCEPT ![c] = "done"]
    /\ gift' = [gift EXCEPT !.status = call[c]]
    /\ UNCHANGED <<vars, made>>

SaveUpdate(u) == call[u] \in DOMAIN ADMIN_TRANSITIONS /\ SaveRequest(u)

-----------------------------------------------------------------------------
(* respondToQuote                                                              *)

OpenAnswer(a, answer) ==
    /\ call[a] = "idle"
    /\ gift.status = "price_quoted"
    /\ call' = [call EXCEPT ![a] = answer]
    /\ UNCHANGED <<vars, gift, made>>

SaveRejection(a) == call[a] = "rejected_by_user" /\ SaveRequest(a)

(* createOrderFromGiftingQuote answers with the linked order if it is there,   *)
(* found by the key of an earlier answer or by the request.                    *)
FindLinkedOrder(a) ==
    /\ call[a] = "approved_by_user"
    /\ call' = [call EXCEPT ![a] =
          IF gift.order # NoOrderId /\ Exists(gift.order) THEN "done" ELSE "ordering"]
    /\ UNCHANGED <<vars, gift, made>>

GiftDoc == [NoOrder EXCEPT !.status = "pending", !.lines = {Custom}]

MakeOrder(o) ==
    /\ made' = made + 1
    /\ IF made = 0
       THEN /\ order[o].status = "absent"
            /\ order' = [order EXCEPT ![o] = GiftDoc]
            /\ gift' = [status |-> "approved_by_user", order |-> o]
       ELSE gift' = [gift EXCEPT !.status = "approved_by_user"] /\ UNCHANGED order

Accept(a, o, allowed) ==
    /\ call[a] = "ordering"
    /\ call' = [call EXCEPT ![a] = "done"]
    /\ IF allowed THEN MakeOrder(o) ELSE UNCHANGED <<order, gift, made>>
    /\ UNCHANGED <<stock, captured, handlers, worker, crashes>>

(* Mutant: the transaction looks at the status alone.                          *)
AcceptByStatus(a, o) == Accept(a, o, gift.status = "price_quoted")

(* Its transaction makes the order of a quoted request without a linked order, *)
(* and links it; any other request is refused.                                 *)
AcceptQuote(a, o) ==
    Accept(a, o, gift.status = "price_quoted" /\ gift.order = NoOrderId)

GiftNext ==
    \/ OrderStep(Next)
    \/ \E u \in Update :
          SaveUpdate(u) \/ \E next \in DOMAIN ADMIN_TRANSITIONS : OpenUpdate(u, next)
    \/ \E a \in Answer :
          \/ \E answer \in {"approved_by_user", "rejected_by_user"} : OpenAnswer(a, answer)
          \/ SaveRejection(a)
          \/ FindLinkedOrder(a)
          \/ \E o \in Order : AcceptQuote(a, o)

GiftSpec == GiftInit /\ [][GiftNext]_allVars

(* As in OrderReservation; nobody has to quote or to answer.                   *)
GiftFairSpec ==
    /\ GiftSpec
    /\ \A o \in Order :
        /\ WF_allVars(OrderStep(CustomerRestock(o)))
        /\ WF_allVars(OrderStep(AutoCancel(o)))
        /\ WF_allVars(OrderStep(AutoRelease(o)))
        /\ \A s \in Sku : WF_allVars(OrderStep(PutBackLine(o, s)))

-----------------------------------------------------------------------------
(* Properties                                                                  *)

(* However answers overlap, and although saves of older reads take the status  *)
(* back to quoted and admins delete orders, a request is ordered once.         *)
GiftOrderedOnce == made <= 1
=============================================================================
