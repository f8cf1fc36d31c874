----------------------------- MODULE StockLedger -----------------------------
(* What the shop promises about stock, whatever the checkout, payment and     *)
(* cancellation code does in between: a unit is either on the shelf or claimed *)
(* by exactly one party (a soft hold, an order, a restock in progress), units  *)
(* are claimed only off the shelf, and no step creates one.                    *)
(* `decrementVariantStock` is the only way to take a unit and                  *)
(* `incrementVariantStock` the only way to put one back                        *)
(* (src/src/services/inventoryService.ts).                                     *)
EXTENDS Integers, FiniteSets

CONSTANTS Claimant,   \* parties that may own a unit
          Sku,        \* variants
          InitStock   \* units of each variant at the start

LedgerAssumption == IsFiniteSet(Claimant) /\ InitStock \in [Sku -> Nat]

VARIABLES onHand,     \* units on the shelf, per variant
          claims      \* <<c, s>>: party c owns one unit of s

ledgerVars == <<onHand, claims>>

Init == onHand = InitStock /\ claims = {}

Minus(L) == [s \in Sku |-> IF s \in L THEN onHand[s] - 1 ELSE onHand[s]]
Plus(L)  == [s \in Sku |-> IF s \in L THEN onHand[s] + 1 ELSE onHand[s]]

(* A party claims one unit of every variant in L, all of them or none.         *)
Take(c, L) ==
    /\ \A s \in L : onHand[s] > 0 /\ <<c, s>> \notin claims
    /\ onHand' = Minus(L)
    /\ claims' = claims \cup ({c} \X L)

(* A party puts back units it owns.                                            *)
Return(c, L) ==
    /\ {c} \X L \subseteq claims
    /\ onHand' = Plus(L)
    /\ claims' = claims \ ({c} \X L)

(* Owned units pass from one party to another.                                 *)
Transfer(c, d, L) ==
    /\ {c} \X L \subseteq claims
    /\ ({d} \X L) \cap claims = {}
    /\ claims' = (claims \ ({c} \X L)) \cup ({d} \X L)
    /\ UNCHANGED onHand

(* Units drop out of the books: taken off the shelf for nobody, or forgotten   *)
(* by their owner. Units may get lost, never multiply.                         *)
Shrink(L) ==
    /\ \A s \in L : onHand[s] > 0
    /\ onHand' = Minus(L)
    /\ UNCHANGED claims

Forget(C) ==
    /\ C \subseteq claims
    /\ claims' = claims \ C
    /\ UNCHANGED onHand

Next ==
    \/ \E L \in SUBSET Sku :
        \/ Shrink(L)
        \/ \E c \in Claimant : Take(c, L) \/ Return(c, L)
        \/ \E c, d \in Claimant : Transfer(c, d, L)
    \/ \E C \in SUBSET claims : Forget(C)

Spec == Init /\ [][Next]_ledgerVars

-----------------------------------------------------------------------------

Owners(s) == {c \in Claimant : <<c, s>> \in claims}

LedgerTypeOK ==
    /\ onHand \in [Sku -> Nat]
    /\ claims \subseteq Claimant \X Sku

(* The units on the shelf and the units owned never add up to more than the    *)
(* shop started with.                                                          *)
NoUnitMinted ==
    \A s \in Sku : onHand[s] + Cardinality(Owners(s)) <= InitStock[s]
=============================================================================
