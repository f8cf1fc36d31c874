------------------------ MODULE CheckoutIntentsProofs ------------------------
(* Proofs about CheckoutIntents for any number of intents, variants and units. *)
EXTENDS CheckoutIntents, FiniteSetTheorems, TLAPS

(* The initial shelf and intents have their types.                             *)
LEMMA TypeInit == Init => TypeOK
<1> SUFFICES ASSUME Init PROVE TypeOK
  OBVIOUS
<1>1. {NoIntent} \cup {NewIntent(L, FALSE) : L \in Cart} \subseteq IntentDoc
  <2>1. NoIntent \in IntentDoc
    BY DEF NoIntent, IntentDoc, Age
  <2>2. \A L \in Cart : NewIntent(L, FALSE) \in IntentDoc
    BY DEF Cart, NewIntent, IntentDoc, Age
  <2> QED BY <2>1, <2>2
<1>2. intent \in [Intent -> IntentDoc]
  BY <1>1 DEF Init
<1> QED BY <1>2, StockAssumption DEF Init, TypeOK

(* Every action keeps the types; the conditional decrement keeps stock in Nat. *)
LEMMA TypeStep == TypeOK /\ [Next]_vars => TypeOK'
<1> SUFFICES ASSUME TypeOK, [Next]_vars PROVE TypeOK'
  OBVIOUS
<1> USE DEF TypeOK, IntentDoc, Age, Source
<1>1. ASSUME NEW i \in Intent, NEW L \in Cart, CreateRazorpayIntent(i, L) PROVE TypeOK'
  BY <1>1 DEF CreateRazorpayIntent, NewIntent, Cart, Available, Decrement
<1>2. ASSUME NEW i \in Intent, CustomerPays(i) PROVE TypeOK'
  BY <1>2 DEF CustomerPays
<1>3. ASSUME NEW i \in Intent, VerifyPayment(i) PROVE TypeOK'
  BY <1>3 DEF VerifyPayment
<1>4. ASSUME NEW i \in Intent, HandleRazorpayWebhook(i) PROVE TypeOK'
  BY <1>4 DEF HandleRazorpayWebhook
<1>5. ASSUME NEW i \in Intent, RunPaymentRecoveryJob(i) PROVE TypeOK'
  BY <1>5 DEF RunPaymentRecoveryJob
<1>6. ASSUME NEW i \in Intent, NEW source \in Source, FinalizePaymentIntent(i, source)
      PROVE  TypeOK'
  <2>1. CASE LinkExistingOrder(i)
    <3> DEFINE d == [intent[i] EXCEPT !.consumed = TRUE, !.linked = TRUE]
    <3>1. d \in IntentDoc
      OBVIOUS
    <3>2. intent' = [intent EXCEPT ![i] = d]
      BY <2>1 DEF LinkExistingOrder
    <3> HIDE DEF d
    <3>3. intent' \in [Intent -> IntentDoc]
      BY <3>1, <3>2
    <3> QED BY <1>6, <2>1, <3>3 DEF FinalizePaymentIntent, LinkExistingOrder
  <2>2. CASE ClaimAndCreateOrder(i)
    <3>1. stock' \in [Sku -> Nat]
      <4>1. CASE UNCHANGED stock
        BY <4>1
      <4>2. CASE Available(intent[i].lines) /\ stock' = Decrement(intent[i].lines)
        BY <4>2 DEF Available, Decrement
      <4> QED BY <2>2, <4>1, <4>2 DEF ClaimAndCreateOrder
    <3>2. intent' \in [Intent -> IntentDoc] /\ orders' \in [Intent -> Nat]
      <4> DEFINE d == [intent[i] EXCEPT !.consumed = TRUE, !.held = FALSE,
                                        !.linked = TRUE]
      <4>1. d \in IntentDoc
        OBVIOUS
      <4>2. intent' = [intent EXCEPT ![i] = d] /\ orders' = [orders EXCEPT ![i] = @ + 1]
        BY <2>2 DEF ClaimAndCreateOrder
      <4> HIDE DEF d
      <4> QED BY <4>1, <4>2
    <3> QED BY <1>6, <3>1, <3>2 DEF FinalizePaymentIntent
  <2> QED BY <1>6, <2>1, <2>2 DEF FinalizePaymentIntent
<1>7. ASSUME NEW i \in Intent, NEW source \in Source, CallFails(i, source) PROVE TypeOK'
  BY <1>7 DEF CallFails
<1>8. ASSUME NEW i \in Intent, ReleaseHold(i) PROVE TypeOK'
  BY <1>8 DEF ReleaseHold
<1>9. ASSUME NEW i \in Intent, NEW s \in Sku, PutBackLine(i, s) PROVE TypeOK'
  BY <1>9 DEF PutBackLine, Increment
<1>10. ASSUME NEW i \in Intent, CloseUnheldIntent(i) PROVE TypeOK'
  BY <1>10 DEF CloseUnheldIntent
<1>11. ASSUME NEW i \in Intent, DropExpiredIntent(i) PROVE TypeOK'
  BY <1>11 DEF DropExpiredIntent
<1>12. ASSUME NEW i \in Intent, TimePasses(i) PROVE TypeOK'
  BY <1>12 DEF TimePasses, Expired, ExpiredAge
<1>13. CASE WorkerCrash
  BY <1>13 DEF WorkerCrash
<1>14. CASE UNCHANGED vars
  BY <1>14 DEF vars
<1> QED BY <1>1, <1>2, <1>3, <1>4, <1>5, <1>6, <1>7, <1>8, <1>9, <1>10, <1>11,
           <1>12, <1>13, <1>14 DEF Next

(* Every variable keeps its type; in particular no interleaving of checkouts,  *)
(* payments and releases drives the stock of a variant below zero.             *)
THEOREM TypeCorrect == Spec => []TypeOK
BY TypeInit, TypeStep, PTL DEF Spec

-----------------------------------------------------------------------------

(* The inductive invariant. The exclusion of job and finalizers rests on three *)
(* facts the properties do not say: an intent that was never stored is clean,  *)
(* units on their way back belong to a consumed intent, once, and a            *)
(* finalization in flight saw a captured payment.                              *)
UnstoredIsClean ==
    \A i \in Intent : intent[i].doc = "none" =>
        ~intent[i].consumed /\ ~intent[i].held /\ orders[i] = 0 /\ paid[i] = "no"

ReturnsAreConsumed ==
    /\ \A i \in Intent, s \in Sku : <<i, s>> \in owed \cup lost => intent[i].consumed
    /\ owed \cap lost = {}

CallsArePaid == \A i \in Intent, c \in Source : <<i, c>> \in calls => paid[i] # "no"

IInv ==
    /\ TypeOK
    /\ OneOrderPerPayment
    /\ OpenIntentHoldsStock
    /\ UnstoredIsClean
    /\ ReturnsAreConsumed
    /\ CallsArePaid

(* Job and finalizers race for an intent through its consumedAt claim alone:   *)
(* one payment makes at most one order, and stock stays set aside until the    *)
(* claim decides whose it is.                                                  *)
LEMMA IInvInductive == IInv /\ TypeOK' /\ [Next]_vars => IInv'
<1> SUFFICES ASSUME IInv, TypeOK', [Next]_vars PROVE IInv'
  OBVIOUS
<1>0. /\ TypeOK /\ OneOrderPerPayment /\ OpenIntentHoldsStock /\ UnstoredIsClean
      /\ ReturnsAreConsumed /\ CallsArePaid
      /\ IInv' <=> /\ TypeOK' /\ OneOrderPerPayment' /\ OpenIntentHoldsStock'
                   /\ UnstoredIsClean' /\ ReturnsAreConsumed' /\ CallsArePaid'
  BY DEF IInv
<1>a. /\ intent \in [Intent -> IntentDoc] /\ orders \in [Intent -> Nat]
      /\ \A i \in Intent : orders[i] \in Nat /\ orders'[i] \in Nat
  BY DEF IInv, TypeOK
<1> USE DEF OneOrderPerPayment, OpenIntentHoldsStock, UnstoredIsClean,
            ReturnsAreConsumed, CallsArePaid, Open, Stored
<1>b. \A i \in Intent : ~intent[i].consumed => orders[i] = 0 /\ ~intent[i].linked
  BY <1>0, <1>a
<1>1. ASSUME NEW i \in Intent, NEW L \in Cart, CreateRazorpayIntent(i, L) PROVE IInv'
  BY <1>1, <1>0, <1>a, <1>b, SMTT(20) DEF CreateRazorpayIntent, NewIntent, IntentDoc
<1>2. ASSUME NEW i \in Intent, CustomerPays(i) PROVE IInv'
  BY <1>2, <1>0, <1>a, <1>b, SMTT(20) DEF CustomerPays, IntentDoc
<1>3. ASSUME NEW i \in Intent, VerifyPayment(i) PROVE IInv'
  BY <1>3, <1>0, <1>a, <1>b, SMTT(20) DEF VerifyPayment, IntentDoc
<1>4. ASSUME NEW i \in Intent, HandleRazorpayWebhook(i) PROVE IInv'
  BY <1>4, <1>0, <1>a, <1>b, SMTT(20) DEF HandleRazorpayWebhook, IntentDoc
<1>5. ASSUME NEW i \in Intent, RunPaymentRecoveryJob(i) PROVE IInv'
  BY <1>5, <1>0, <1>a, <1>b, SMTT(20) DEF RunPaymentRecoveryJob, IntentDoc
<1>6. ASSUME NEW i \in Intent, NEW source \in Source, FinalizePaymentIntent(i, source)
      PROVE  IInv'
  <2>1. CASE LinkExistingOrder(i)
    BY <1>6, <2>1, <1>0, <1>a, SMTT(20) DEF FinalizePaymentIntent, LinkExistingOrder, IntentDoc
  <2>2. CASE ClaimAndCreateOrder(i)
    <3> DEFINE d == [intent[i] EXCEPT !.consumed = TRUE, !.held = FALSE,
                                      !.linked = TRUE]
    <3>1. d.doc = intent[i].doc /\ d.consumed /\ d.linked /\ ~d.held
      BY <1>a DEF IntentDoc
    <3>2. /\ intent[i].doc = "stored" /\ ~intent[i].consumed /\ orders[i] = 0
          /\ paid[i] # "no" /\ UNCHANGED <<paid, owed, lost>>
      <4>1. Stored(i) /\ UNCHANGED <<paid, owed, lost>>
        BY <1>6 DEF FinalizePaymentIntent
      <4>2. paid[i] # "no"
        BY <1>6, <1>0 DEF FinalizePaymentIntent
      <4>3. ~intent[i].consumed /\ orders[i] = 0
        BY <2>2 DEF ClaimAndCreateOrder
      <4> QED BY <4>1, <4>2, <4>3
    <3>3. intent' = [intent EXCEPT ![i] = d] /\ orders' = [orders EXCEPT ![i] = @ + 1]
      BY <2>2 DEF ClaimAndCreateOrder
    <3> HIDE DEF d
    <3>4. orders'[i] = 1 /\ intent'[i] = d
      BY <3>2, <3>3, <1>a
    <3>5. \A j \in Intent \ {i} : intent'[j] = intent[j] /\ orders'[j] = orders[j]
      BY <3>3, <1>a
    <3>6. CallsArePaid'
      BY <1>6, <1>0 DEF FinalizePaymentIntent
    <3> QED BY <3>1, <3>2, <3>4, <3>5, <3>6, <1>0
  <2> QED BY <1>6, <2>1, <2>2 DEF FinalizePaymentIntent
<1>7. ASSUME NEW i \in Intent, NEW source \in Source, CallFails(i, source) PROVE IInv'
  BY <1>7, <1>0, <1>a, <1>b, SMTT(20) DEF CallFails, IntentDoc
<1>8. ASSUME NEW i \in Intent, ReleaseHold(i) PROVE IInv'
  <2> DEFINE d == [intent[i] EXCEPT !.held = FALSE, !.consumed = TRUE]
  <2>1. d.doc = intent[i].doc /\ d.linked = intent[i].linked /\ d.consumed /\ ~d.held
    BY <1>a DEF IntentDoc
  <2>2. /\ intent[i].doc = "stored" /\ ~intent[i].consumed
        /\ UNCHANGED <<orders, paid, lost>>
        /\ owed' = owed \cup ({i} \X intent[i].lines)
    BY <1>8 DEF ReleaseHold
  <2>3. intent' = [intent EXCEPT ![i] = d]
    BY <1>8 DEF ReleaseHold
  <2> HIDE DEF d
  <2>4. intent'[i] = d /\ \A j \in Intent \ {i} : intent'[j] = intent[j]
    BY <2>3, <1>a
  <2>5. orders[i] = 0 /\ ~intent[i].linked
    BY <2>2, <1>b
  <2>6. \A j \in Intent \ {i}, s \in Sku : <<j, s>> \in owed' <=> <<j, s>> \in owed
    BY <2>2
  <2>7. OneOrderPerPayment'
    BY <1>0, <2>1, <2>2, <2>4, <2>5, <2>6
  <2>11. OpenIntentHoldsStock'
    BY <1>0, <2>1, <2>2, <2>4, <2>5
  <2>8. UnstoredIsClean'
    <3>1. intent'[i].doc = "stored"
      BY <2>1, <2>2, <2>4
    <3>2. \A j \in Intent \ {i} : intent'[j] = intent[j]
                                  /\ orders'[j] = orders[j] /\ paid'[j] = paid[j]
      BY <2>2, <2>4
    <3> SUFFICES ASSUME NEW j \in Intent, intent'[j].doc = "none"
                 PROVE  /\ ~intent'[j].consumed /\ ~intent'[j].held
                        /\ orders'[j] = 0 /\ paid'[j] = "no"
      BY DEF UnstoredIsClean
    <3>3. j # i
      BY <3>1
    <3> QED BY <3>2, <3>3, <1>0
  <2>9. ReturnsAreConsumed'
    <3>1. \A j \in Intent, s \in Sku : <<j, s>> \in (owed \cup lost)' => intent'[j].consumed
      <4> SUFFICES ASSUME NEW j \in Intent, NEW s \in Sku, <<j, s>> \in (owed \cup lost)'
                   PROVE  intent'[j].consumed
        OBVIOUS
      <4>1. CASE j = i
        BY <4>1, <2>1, <2>4
      <4>2. CASE j # i
        BY <4>2, <1>0, <2>2, <2>4, <2>6
      <4> QED BY <4>1, <4>2
    <3>2. \A s \in Sku : <<i, s>> \notin lost
      BY <1>0, <2>2
    <3>3. owed' \cap lost' = {}
      BY <3>2, <1>0, <2>2 DEF TypeOK
    <3> QED BY <3>1, <3>3
  <2>10. CallsArePaid'
    BY <1>8, <1>0 DEF ReleaseHold
  <2> QED BY <1>0, <2>7, <2>8, <2>11, <2>9, <2>10
<1>9. ASSUME NEW i \in Intent, NEW s \in Sku, PutBackLine(i, s) PROVE IInv'
  BY <1>9, <1>0, <1>a, <1>b, SMTT(20) DEF PutBackLine, IntentDoc
<1>10. ASSUME NEW i \in Intent, CloseUnheldIntent(i) PROVE IInv'
  BY <1>10, <1>0, <1>a, <1>b, SMTT(20) DEF CloseUnheldIntent, IntentDoc
<1>11. ASSUME NEW i \in Intent, DropExpiredIntent(i) PROVE IInv'
  BY <1>11, <1>0, <1>a, <1>b, SMTT(20) DEF DropExpiredIntent, IntentDoc
<1>12. ASSUME NEW i \in Intent, TimePasses(i) PROVE IInv'
  BY <1>12, <1>0, <1>a, <1>b, SMTT(20) DEF TimePasses, IntentDoc
<1>13. CASE WorkerCrash
  BY <1>13, <1>0, <1>a, <1>b, SMTT(20) DEF WorkerCrash, IntentDoc
<1>14. CASE UNCHANGED vars
  BY <1>14, <1>0, <1>a, <1>b, SMTT(20) DEF vars, IntentDoc
<1> QED BY <1>1, <1>2, <1>3, <1>4, <1>5, <1>6, <1>7, <1>8, <1>9, <1>10, <1>11,
           <1>12, <1>13, <1>14 DEF Next

(* The strengthening holds in every reachable state, for every instance.       *)
THEOREM Invariant == Spec => []IInv
<1>1. Init => TypeOK
  BY TypeInit
<1>2. Init => IInv
  <2> SUFFICES ASSUME Init PROVE IInv
    OBVIOUS
  <2>1. TypeOK /\ owed = {} /\ lost = {} /\ calls = {}
    BY <1>1 DEF Init
  <2>2. \A i \in Intent : /\ orders[i] = 0 /\ paid[i] = "no"
                          /\ Stored(i) <=> i \in Legacy
    BY DEF Init
  <2>3. \A i \in Intent : ~intent[i].held /\ ~intent[i].consumed /\ ~intent[i].linked
    <3>1. \A d \in {NoIntent} \cup {NewIntent(L, FALSE) : L \in Cart} :
                ~d.held /\ ~d.consumed /\ ~d.linked
      BY DEF NoIntent, NewIntent
    <3> HIDE DEF NoIntent, NewIntent
    <3> QED BY <3>1 DEF Init
  <2> QED BY <2>1, <2>2, <2>3 DEF IInv, OneOrderPerPayment, OpenIntentHoldsStock,
                UnstoredIsClean, ReturnsAreConsumed, CallsArePaid, Open
<1>3. TypeOK /\ [Next]_vars => TypeOK'
  BY TypeStep
<1>4. IInv => TypeOK
  BY DEF IInv
<1> QED BY <1>2, <1>3, <1>4, IInvInductive, PTL DEF Spec

(* One payment makes at most one order, whichever of client, webhook and       *)
(* recovery job finalizes it, however often and whenever the job releases.     *)
THEOREM OneOrder == Spec => []OneOrderPerPayment
BY Invariant, PTL DEF IInv

(* An unconsumed checkout still holds its stock; a consumed one holds none.    *)
THEOREM HoldsStock == Spec => []OpenIntentHoldsStock
BY Invariant, PTL DEF IInv

(* The consumedAt claim decides once and for all between order and release.    *)
THEOREM Fate == Spec => FateIsFinal
<1>1. ASSUME IInv, [Next]_vars, NEW i \in Intent, intent[i].consumed
      PROVE  /\ intent'[i].consumed /\ intent'[i].linked = intent[i].linked
             /\ orders'[i] = orders[i]
  <2>0. /\ intent \in [Intent -> IntentDoc] /\ orders \in [Intent -> Nat]
        /\ orders[i] \in Nat
    BY <1>1 DEF IInv, TypeOK
  <2>1. ASSUME NEW j \in Intent, NEW L \in Cart, CreateRazorpayIntent(j, L)
        PROVE  intent'[i] = intent[i] /\ UNCHANGED orders
    <3>1. intent[j].doc = "none" /\ UNCHANGED orders
          /\ intent' = [intent EXCEPT ![j] = NewIntent(L, TRUE)]
      BY <2>1 DEF CreateRazorpayIntent
    <3>2. i # j
      BY <3>1, <1>1 DEF IInv, UnstoredIsClean
    <3> QED BY <3>1, <3>2, <2>0
  <2>2. ASSUME NEW j \in Intent, NEW source \in Source, FinalizePaymentIntent(j, source)
        PROVE  /\ intent'[i].consumed /\ intent'[i].linked = intent[i].linked
               /\ orders'[i] = orders[i]
    <3>1. CASE ClaimAndCreateOrder(j)
      BY <3>1, <1>1, <2>0 DEF ClaimAndCreateOrder
    <3>2. CASE LinkExistingOrder(j)
      <4>1. orders[j] = 1 /\ intent[j].linked /\ intent[j].consumed
        BY <3>2, <1>1 DEF LinkExistingOrder, IInv, OneOrderPerPayment, TypeOK
      <4>2. [intent[j] EXCEPT !.consumed = TRUE, !.linked = TRUE] = intent[j]
        BY <4>1, <2>0 DEF IntentDoc
      <4>3. intent' = [intent EXCEPT ![j] = intent[j]] /\ UNCHANGED orders
        BY <4>2, <3>2 DEF LinkExistingOrder
      <4> QED BY <4>3, <2>0, <1>1
    <3> QED BY <2>2, <3>1, <3>2 DEF FinalizePaymentIntent
  <2>3. ASSUME NEW j \in Intent, ReleaseHold(j) \/ CloseUnheldIntent(j)
        PROVE  intent'[i] = intent[i] /\ UNCHANGED orders
    BY <2>3, <1>1, <2>0 DEF ReleaseHold, CloseUnheldIntent, Open
  <2>4. ASSUME NEW j \in Intent, DropExpiredIntent(j) \/ TimePasses(j)
        PROVE  /\ intent'[i].consumed /\ intent'[i].linked = intent[i].linked
               /\ UNCHANGED orders
    BY <2>4, <1>1, <2>0 DEF DropExpiredIntent, TimePasses, IntentDoc
  <2>5. ASSUME NEW j \in Intent,
               \/ CustomerPays(j) \/ VerifyPayment(j) \/ HandleRazorpayWebhook(j)
               \/ RunPaymentRecoveryJob(j)
               \/ \E source \in Source : CallFails(j, source)
               \/ \E s \in Sku : PutBackLine(j, s)
        PROVE  UNCHANGED <<intent, orders>>
    BY <2>5 DEF CustomerPays, VerifyPayment, HandleRazorpayWebhook, RunPaymentRecoveryJob,
                CallFails, PutBackLine
  <2>6. CASE WorkerCrash \/ UNCHANGED vars
    BY <2>6, <1>1 DEF WorkerCrash, vars
  <2> QED BY <1>1, <2>1, <2>2, <2>3, <2>4, <2>5, <2>6 DEF Next
<1>2. IInv /\ [Next]_vars =>
          [\A i \in Intent : intent[i].consumed =>
              /\ intent'[i].consumed
              /\ intent'[i].linked = intent[i].linked
              /\ orders'[i] = orders[i]]_vars
  BY <1>1
<1> QED BY <1>2, Invariant, PTL DEF Spec, FateIsFinal

-----------------------------------------------------------------------------
(* Conservation and refinement: what a step does to the shelf and the claims.  *)

TakesUnits(i, L) ==
    /\ \A s \in L : stock[s] > 0 /\ <<i, s>> \notin Claims
    /\ stock' = Decrement(L)
    /\ Claims' = Claims \cup ({i} \X L)

ReturnsUnit(i, s) ==
    /\ <<i, s>> \in Claims
    /\ stock' = Increment(s)
    /\ Claims' = Claims \ {<<i, s>>}

(* A step that changes nobody's ownership leaves the claims alone.             *)
LEMMA SameClaims ==
    ASSUME \A j \in Intent, s \in Sku : Owns(j, s)' <=> Owns(j, s)
    PROVE  Claims' = Claims
BY DEF Claims

(* Every step takes the units of a cart off the shelf for one intent, puts one *)
(* owned unit back, or moves none.                                             *)
LEMMA UnitMoves ==
    ASSUME IInv, [Next]_vars
    PROVE  \/ \E i \in Intent, L \in SUBSET Sku : TakesUnits(i, L)
           \/ \E i \in Intent, s \in Sku : ReturnsUnit(i, s)
           \/ UNCHANGED <<stock, Claims>>
<1>0. /\ intent \in [Intent -> IntentDoc] /\ orders \in [Intent -> Nat]
      /\ owed \subseteq Intent \X Sku /\ lost \subseteq Intent \X Sku
      /\ OneOrderPerPayment /\ OpenIntentHoldsStock /\ UnstoredIsClean
      /\ ReturnsAreConsumed
      /\ \A j \in Intent : intent[j].lines \in SUBSET Sku
  BY DEF IInv, TypeOK, IntentDoc
<1>1. ASSUME NEW i \in Intent, NEW L \in Cart, CreateRazorpayIntent(i, L)
      PROVE  TakesUnits(i, L)
  <2>1. /\ intent[i].doc = "none" /\ Available(L) /\ stock' = Decrement(L)
        /\ intent' = [intent EXCEPT ![i] = NewIntent(L, TRUE)]
        /\ UNCHANGED <<orders, owed, lost>>
    BY <1>1 DEF CreateRazorpayIntent
  <2>2. \A s \in Sku : ~Owns(i, s)
    BY <2>1, <1>0 DEF UnstoredIsClean, ReturnsAreConsumed, Owns
  <2>3. intent'[i].held /\ intent'[i].lines = L
    BY <2>1, <1>0 DEF NewIntent
  <2>4. \A s \in Sku : Owns(i, s)' <=> s \in L
    BY <2>1, <2>2, <2>3 DEF Owns
  <2>5. \A j \in Intent \ {i}, s \in Sku : Owns(j, s)' <=> Owns(j, s)
    BY <2>1, <1>0 DEF Owns
  <2>6. Claims' = Claims \cup ({i} \X L)
    BY <2>4, <2>5, <2>2 DEF Claims, Cart
  <2>7. \A s \in L : stock[s] > 0
    BY <2>1 DEF Available, Cart, IInv, TypeOK
  <2> QED BY <2>1, <2>2, <2>6, <2>7 DEF TakesUnits, Claims
<1>2. ASSUME NEW i \in Intent, NEW source \in Source, FinalizePaymentIntent(i, source)
      PROVE  TakesUnits(i, intent[i].lines) \/ UNCHANGED <<stock, Claims>>
  <2>1. CASE LinkExistingOrder(i)
    <3>1. intent'[i].held = intent[i].held /\ intent'[i].lines = intent[i].lines
      BY <2>1, <1>0 DEF LinkExistingOrder, IntentDoc
    <3>2. \A j \in Intent \ {i} : intent'[j] = intent[j]
      BY <2>1, <1>0 DEF LinkExistingOrder
    <3>3. UNCHANGED <<stock, orders, owed, lost>>
      BY <1>2, <2>1 DEF FinalizePaymentIntent, LinkExistingOrder
    <3> QED BY <3>1, <3>2, <3>3, SameClaims DEF Owns
  <2>2. CASE ClaimAndCreateOrder(i)
    <3> DEFINE d == [intent[i] EXCEPT !.consumed = TRUE, !.held = FALSE,
                                      !.linked = TRUE]
    <3>1. d.lines = intent[i].lines /\ ~d.held
      BY <1>0 DEF IntentDoc
    <3>2. /\ ~intent[i].consumed /\ orders[i] = 0
          /\ intent' = [intent EXCEPT ![i] = d]
          /\ orders' = [orders EXCEPT ![i] = @ + 1]
          /\ UNCHANGED <<owed, lost>>
      BY <1>2, <2>2 DEF FinalizePaymentIntent, ClaimAndCreateOrder
    <3> HIDE DEF d
    <3>3. intent'[i].lines = intent[i].lines /\ ~intent'[i].held /\ orders'[i] = 1
      BY <3>1, <3>2, <1>0
    <3>4. \A j \in Intent \ {i}, s \in Sku : Owns(j, s)' <=> Owns(j, s)
      BY <3>2, <1>0 DEF Owns
    <3>5. \A s \in Sku : <<i, s>> \notin owed \cup lost
      BY <3>2, <1>0 DEF ReturnsAreConsumed
    <3>6. \A s \in Sku : Owns(i, s)' <=> s \in intent[i].lines
      BY <3>2, <3>3, <3>5 DEF Owns
    <3>7. \A s \in Sku : Owns(i, s) <=> s \in intent[i].lines /\ intent[i].held
      BY <3>2, <3>5 DEF Owns
    <3>8. CASE intent[i].held
      <4>1. UNCHANGED stock
        BY <3>8, <2>2 DEF ClaimAndCreateOrder
      <4> QED BY <4>1, <3>4, <3>6, <3>7, <3>8, SameClaims
    <3>9. CASE ~intent[i].held
      <4>1. Available(intent[i].lines) /\ stock' = Decrement(intent[i].lines)
        BY <3>9, <2>2 DEF ClaimAndCreateOrder
      <4>2. Claims' = Claims \cup ({i} \X intent[i].lines)
        BY <3>4, <3>6, <3>7, <3>9, <1>0 DEF Claims
      <4>3. \A s \in intent[i].lines : stock[s] > 0
        BY <4>1, <1>0 DEF Available, IInv, TypeOK
      <4> QED BY <4>1, <4>2, <4>3, <3>7, <3>9 DEF TakesUnits, Claims
    <3> QED BY <3>8, <3>9
  <2> QED BY <1>2, <2>1, <2>2 DEF FinalizePaymentIntent
<1>3. ASSUME NEW i \in Intent, ReleaseHold(i) PROVE UNCHANGED <<stock, Claims>>
  <2> DEFINE d == [intent[i] EXCEPT !.held = FALSE, !.consumed = TRUE]
  <2>1. d.lines = intent[i].lines /\ ~d.held
    BY <1>0 DEF IntentDoc
  <2>2. /\ intent[i].held /\ intent' = [intent EXCEPT ![i] = d]
        /\ owed' = owed \cup ({i} \X intent[i].lines)
        /\ UNCHANGED <<stock, orders, lost>>
    BY <1>3 DEF ReleaseHold
  <2> HIDE DEF d
  <2>3. \A j \in Intent \ {i}, s \in Sku : Owns(j, s)' <=> Owns(j, s)
    BY <2>2, <1>0 DEF Owns
  <2>4. ~intent[i].consumed
    BY <2>2, <1>0 DEF OpenIntentHoldsStock, Open
  <2>5. orders[i] = 0 /\ \A s \in Sku : <<i, s>> \notin owed \cup lost
    BY <2>4, <1>0 DEF OneOrderPerPayment, ReturnsAreConsumed
  <2>6. ~intent'[i].held /\ intent'[i].lines = intent[i].lines
    BY <2>1, <2>2, <1>0
  <2>7. \A s \in Sku : Owns(i, s)' <=> Owns(i, s)
    BY <2>2, <2>5, <2>6 DEF Owns
  <2> QED BY <2>2, <2>3, <2>7, SameClaims
<1>4. ASSUME NEW i \in Intent, NEW s \in Sku, PutBackLine(i, s) PROVE ReturnsUnit(i, s)
  <2>1. /\ <<i, s>> \in owed /\ owed' = owed \ {<<i, s>>} /\ stock' = Increment(s)
        /\ UNCHANGED <<intent, orders, lost>>
    BY <1>4 DEF PutBackLine
  <2>2. intent[i].consumed /\ <<i, s>> \notin lost
    BY <2>1, <1>0 DEF ReturnsAreConsumed
  <2>3. ~intent[i].held /\ orders[i] = 0
    BY <2>1, <2>2, <1>0 DEF OneOrderPerPayment, OpenIntentHoldsStock, Open
  <2>4. ~Owns(i, s)' /\ Owns(i, s)
    BY <2>1, <2>2, <2>3 DEF Owns
  <2>5. \A j \in Intent, t \in Sku : <<j, t>> # <<i, s>> => (Owns(j, t)' <=> Owns(j, t))
    BY <2>1 DEF Owns
  <2>6. Claims' = Claims \ {<<i, s>>}
    BY <2>4, <2>5 DEF Claims
  <2> QED BY <2>1, <2>4, <2>6 DEF ReturnsUnit, Claims
<1>5. ASSUME NEW i \in Intent,
             CloseUnheldIntent(i) \/ DropExpiredIntent(i) \/ TimePasses(i)
      PROVE  UNCHANGED <<stock, Claims>>
  <2>1. /\ intent'[i].held = intent[i].held /\ intent'[i].lines = intent[i].lines
        /\ \A j \in Intent \ {i} : intent'[j] = intent[j]
    BY <1>5, <1>0 DEF CloseUnheldIntent, DropExpiredIntent, TimePasses, IntentDoc
  <2>2. UNCHANGED <<stock, orders, owed, lost>>
    BY <1>5 DEF CloseUnheldIntent, DropExpiredIntent, TimePasses
  <2>3. \A j \in Intent, s \in Sku : Owns(j, s)' <=> Owns(j, s)
    BY <2>1, <2>2 DEF Owns
  <2> QED BY <2>2, <2>3, SameClaims
<1>6. ASSUME NEW i \in Intent,
             \/ CustomerPays(i) \/ VerifyPayment(i) \/ HandleRazorpayWebhook(i)
             \/ RunPaymentRecoveryJob(i)
             \/ \E source \in Source : CallFails(i, source)
      PROVE  UNCHANGED <<stock, Claims>>
  <2>1. UNCHANGED <<stock, intent, orders, owed, lost>>
    BY <1>6 DEF CustomerPays, VerifyPayment, HandleRazorpayWebhook, RunPaymentRecoveryJob,
                CallFails
  <2> QED BY <2>1, SameClaims DEF Owns
<1>7. CASE WorkerCrash
  <2>1. /\ lost' = lost \cup owed /\ owed' = {} /\ UNCHANGED <<stock, intent, orders>>
    BY <1>7 DEF WorkerCrash
  <2> QED BY <2>1, SameClaims DEF Owns
<1>8. CASE UNCHANGED vars
  BY <1>8, SameClaims DEF vars, Owns
<1> QED BY <1>1, <1>2, <1>3, <1>4, <1>5, <1>6, <1>7, <1>8, <1>0 DEF Next, Cart

(* The two ways to say that an intent owns a unit agree, before and after.     *)
LEMMA OwnersAreClaims ==
    /\ \A i \in Intent, s \in Sku : Owns(i, s) <=> <<i, s>> \in Claims
    /\ \A i \in Intent, s \in Sku : Owns(i, s)' <=> <<i, s>> \in Claims'
BY DEF Claims

(* No unit is sold twice, put back twice or forgotten, for any number of       *)
(* checkouts, callers and releases in any order.                               *)
THEOREM Conservation == Spec => []UnitsAccounted
<1> DEFINE Owned(s) == {i \in Intent : Owns(i, s)}
<1>1. \A s \in Sku : IsFiniteSet(Owned(s)) /\ Cardinality(Owned(s)) \in Nat
  <2>1. \A s \in Sku : Owned(s) \subseteq Intent
    OBVIOUS
  <2> QED BY <2>1, IntentAssumption, FS_Subset, FS_CardinalityType
<1>2. Init /\ IInv => UnitsAccounted
  <2> SUFFICES ASSUME Init, IInv, NEW s \in Sku
               PROVE  stock[s] + Cardinality(Owned(s)) = InitStock[s]
    BY DEF UnitsAccounted
  <2>1. \A i \in Intent : orders[i] = 0 /\ ~intent[i].held
    <3>1. \A d \in {NoIntent} \cup {NewIntent(L, FALSE) : L \in Cart} : ~d.held
      BY DEF NoIntent, NewIntent
    <3> HIDE DEF NoIntent, NewIntent
    <3> QED BY <3>1 DEF Init
  <2>2. Owned(s) = {}
    BY <2>1 DEF Init, Owns
  <2>3. Cardinality(Owned(s)) = 0
    BY <2>2, FS_EmptySet
  <2> QED BY <2>3, StockAssumption DEF Init
<1>3. UnitsAccounted /\ IInv /\ [Next]_vars => UnitsAccounted'
  <2> SUFFICES ASSUME UnitsAccounted, IInv, [Next]_vars, NEW s \in Sku
               PROVE  stock'[s] + Cardinality(Owned(s)') = InitStock[s]
    BY DEF UnitsAccounted
  <2>0. /\ stock[s] + Cardinality(Owned(s)) = InitStock[s]
        /\ stock \in [Sku -> Nat] /\ stock[s] \in Nat /\ InitStock[s] \in Nat
        /\ Cardinality(Owned(s)) \in Nat
    BY <1>1, StockAssumption DEF UnitsAccounted, IInv, TypeOK
  <2>1. ASSUME NEW i \in Intent, NEW L \in SUBSET Sku, TakesUnits(i, L)
        PROVE  stock'[s] + Cardinality(Owned(s)') = InitStock[s]
    <3>1. CASE s \in L
      <4>1. i \notin Owned(s) /\ Owned(s)' = Owned(s) \cup {i}
        BY <3>1, <2>1, OwnersAreClaims DEF TakesUnits
      <4>2. Cardinality(Owned(s)') = Cardinality(Owned(s)) + 1
        BY <4>1, <1>1, FS_AddElement
      <4>3. stock'[s] = stock[s] - 1
        BY <3>1, <2>1 DEF TakesUnits, Decrement
      <4> HIDE DEF Owned
      <4> QED BY <4>2, <4>3, <2>0
    <3>2. CASE s \notin L
      <4>1. Owned(s)' = Owned(s)
        BY <3>2, <2>1, OwnersAreClaims DEF TakesUnits
      <4>2. stock'[s] = stock[s]
        BY <3>2, <2>1 DEF TakesUnits, Decrement
      <4> QED BY <4>1, <4>2, <2>0
    <3> QED BY <3>1, <3>2
  <2>2. ASSUME NEW i \in Intent, NEW t \in Sku, ReturnsUnit(i, t)
        PROVE  stock'[s] + Cardinality(Owned(s)') = InitStock[s]
    <3>1. CASE s = t
      <4>1. i \in Owned(s) /\ Owned(s)' = Owned(s) \ {i}
        BY <3>1, <2>2, OwnersAreClaims DEF ReturnsUnit
      <4>2. Cardinality(Owned(s)') = Cardinality(Owned(s)) - 1
        BY <4>1, <1>1, FS_RemoveElement
      <4>3. stock'[s] = stock[s] + 1
        BY <3>1, <2>2, <2>0 DEF ReturnsUnit, Increment
      <4> HIDE DEF Owned
      <4> QED BY <4>2, <4>3, <2>0
    <3>2. CASE s # t
      <4>1. Owned(s)' = Owned(s)
        BY <3>2, <2>2, OwnersAreClaims DEF ReturnsUnit
      <4>2. stock'[s] = stock[s]
        BY <3>2, <2>2, <2>0 DEF ReturnsUnit, Increment
      <4> QED BY <4>1, <4>2, <2>0
    <3> QED BY <3>1, <3>2
  <2>3. CASE UNCHANGED <<stock, Claims>>
    <3>1. Owned(s)' = Owned(s)
      BY <2>3, OwnersAreClaims
    <3> QED BY <3>1, <2>3, <2>0
  <2> QED BY <2>1, <2>2, <2>3, UnitMoves
<1> QED BY <1>2, <1>3, Invariant, PTL DEF Spec

(* Checkout, payment and release implement the stock ledger: every step is a   *)
(* claim of shelf units, a return of an owned unit, or invisible to it.        *)
THEOREM ImplementsLedger == Spec => LedgerSpec
<1>1. Init => Ledger!Init
  <2> SUFFICES ASSUME Init PROVE stock = InitStock /\ Claims = {}
    BY DEF Ledger!Init
  <2>1. \A i \in Intent : orders[i] = 0 /\ ~intent[i].held
    <3>1. \A d \in {NoIntent} \cup {NewIntent(L, FALSE) : L \in Cart} : ~d.held
      BY DEF NoIntent, NewIntent
    <3> HIDE DEF NoIntent, NewIntent
    <3> QED BY <3>1 DEF Init
  <2> QED BY <2>1 DEF Init, Claims, Owns
<1>2. IInv /\ [Next]_vars => [Ledger!Next]_(Ledger!ledgerVars)
  <2> SUFFICES ASSUME IInv, [Next]_vars PROVE [Ledger!Next]_(Ledger!ledgerVars)
    OBVIOUS
  <2>1. ASSUME NEW i \in Intent, NEW L \in SUBSET Sku, TakesUnits(i, L)
        PROVE  Ledger!Next
    <3>1. Ledger!Take(i, L)
      BY <2>1 DEF TakesUnits, Decrement, Ledger!Take, Ledger!Minus
    <3> QED BY <3>1 DEF Ledger!Next
  <2>2. ASSUME NEW i \in Intent, NEW s \in Sku, ReturnsUnit(i, s)
        PROVE  Ledger!Next
    <3>1. stock' = Ledger!Plus({s})
      BY <2>2 DEF ReturnsUnit, Increment, Ledger!Plus, IInv, TypeOK
    <3>2. {i} \X {s} = {<<i, s>>}
      OBVIOUS
    <3>3. Ledger!Return(i, {s})
      BY <2>2, <3>1, <3>2 DEF ReturnsUnit, Ledger!Return
    <3> QED BY <3>3 DEF Ledger!Next
  <2>3. CASE UNCHANGED <<stock, Claims>>
    BY <2>3 DEF Ledger!ledgerVars
  <2> QED BY <2>1, <2>2, <2>3, UnitMoves
<1> QED BY <1>1, <1>2, Invariant, PTL DEF Spec, LedgerSpec, Ledger!Spec
=============================================================================
