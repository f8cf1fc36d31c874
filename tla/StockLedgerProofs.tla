-------------------------- MODULE StockLedgerProofs --------------------------
(* The ledger keeps its own promise, for any parties, variants and stock. What *)
(* implements the ledger inherits it.                                          *)
EXTENDS StockLedger, FiniteSetTheorems, TLAPS

(* Nothing but units and parties in the books.                                 *)
LEMMA TypeStep == LedgerTypeOK /\ [Next]_ledgerVars => LedgerTypeOK'
<1> SUFFICES ASSUME LedgerTypeOK, [Next]_ledgerVars PROVE LedgerTypeOK'
  OBVIOUS
<1> USE DEF LedgerTypeOK
<1>1. ASSUME NEW L \in SUBSET Sku, Shrink(L) PROVE LedgerTypeOK'
  BY <1>1 DEF Shrink, Minus
<1>2. ASSUME NEW L \in SUBSET Sku, NEW c \in Claimant, Take(c, L) PROVE LedgerTypeOK'
  <2>1. \A t \in Sku : (IF t \in L THEN onHand[t] - 1 ELSE onHand[t]) \in Nat
    <3> TAKE t \in Sku
    <3>1. onHand[t] \in Nat
      OBVIOUS
    <3>2. t \in L => onHand[t] > 0
      BY <1>2 DEF Take
    <3> QED
      BY ONLY <3>1, <3>2
  <2>2. onHand' \in [Sku -> Nat]
    BY <1>2, <2>1 DEF Take, Minus
  <2>3. {c} \X L \subseteq Claimant \X Sku
    OBVIOUS
  <2> QED
    BY <1>2, <2>2, <2>3 DEF Take
<1>3. ASSUME NEW L \in SUBSET Sku, NEW c \in Claimant, Return(c, L) PROVE LedgerTypeOK'
  BY <1>3 DEF Return, Plus
<1>4. ASSUME NEW L \in SUBSET Sku, NEW c \in Claimant, NEW d \in Claimant,
             Transfer(c, d, L) PROVE LedgerTypeOK'
  BY <1>4 DEF Transfer
<1>5. ASSUME NEW C \in SUBSET claims, Forget(C) PROVE LedgerTypeOK'
  BY <1>5 DEF Forget
<1>6. CASE UNCHANGED ledgerVars
  BY <1>6 DEF ledgerVars
<1> QED
  BY <1>1, <1>2, <1>3, <1>4, <1>5, <1>6 DEF Next

(* The owners of a variant are finitely many, and change by one at a time.     *)
LEMMA Owned ==
    ASSUME LedgerAssumption, NEW s \in Sku, NEW c \in Claimant
    PROVE  /\ IsFiniteSet(Owners(s)) /\ IsFiniteSet(Owners(s)')
           /\ Cardinality(Owners(s)) \in Nat /\ Cardinality(Owners(s)') \in Nat
           /\ Owners(s)' \subseteq Owners(s)
                => Cardinality(Owners(s)') <= Cardinality(Owners(s))
           /\ Owners(s)' \subseteq Owners(s) \cup {c}
                => Cardinality(Owners(s)') <= Cardinality(Owners(s)) + 1
           /\ c \in Owners(s) /\ Owners(s)' \subseteq Owners(s) \ {c}
                => Cardinality(Owners(s)') + 1 <= Cardinality(Owners(s))
<1> DEFINE A == Owners(s)
           B == Owners(s)'
<1>1. IsFiniteSet(A) /\ IsFiniteSet(B)
  <2>1. A \subseteq Claimant /\ B \subseteq Claimant
    BY DEF Owners
  <2> QED
    BY <2>1, FS_Subset DEF LedgerAssumption
<1> HIDE DEF A, B
<1>2. Cardinality(A) \in Nat /\ Cardinality(B) \in Nat
  BY <1>1, FS_CardinalityType
<1>3. B \subseteq A => Cardinality(B) <= Cardinality(A)
  BY <1>1, FS_Subset
<1>4. ASSUME B \subseteq A \cup {c} PROVE Cardinality(B) <= Cardinality(A) + 1
  <2>1. IsFiniteSet(A \cup {c})
        /\ Cardinality(A \cup {c}) = IF c \in A THEN Cardinality(A) ELSE Cardinality(A) + 1
    BY <1>1, FS_AddElement
  <2>2. Cardinality(B) <= Cardinality(A \cup {c}) /\ Cardinality(A \cup {c}) \in Nat
    BY <1>4, <2>1, FS_Subset, FS_CardinalityType
  <2> QED
    BY <1>2, <2>1, <2>2
<1>5. ASSUME c \in A, B \subseteq A \ {c} PROVE Cardinality(B) + 1 <= Cardinality(A)
  <2>1. IsFiniteSet(A \ {c}) /\ Cardinality(A \ {c}) = Cardinality(A) - 1
    BY <1>1, <1>5, FS_RemoveElement
  <2>2. Cardinality(B) <= Cardinality(A \ {c})
    BY <1>5, <2>1, FS_Subset
  <2> QED
    BY <1>2, <2>1, <2>2
<1> QED
  BY <1>1, <1>2, <1>3, <1>4, <1>5 DEF A, B

LEMMA UnitStep ==
    ASSUME LedgerAssumption, LedgerTypeOK, LedgerTypeOK', NoUnitMinted, [Next]_ledgerVars
    PROVE  NoUnitMinted'
<1> SUFFICES ASSUME NEW s \in Sku
             PROVE  onHand'[s] + Cardinality(Owners(s)') <= InitStock[s]
  BY DEF NoUnitMinted, Owners
<1>a. onHand[s] \in Nat /\ onHand'[s] \in Nat /\ InitStock[s] \in Nat
  BY DEF LedgerTypeOK, LedgerAssumption
<1>b. onHand[s] + Cardinality(Owners(s)) <= InitStock[s]
  BY DEF NoUnitMinted
<1>c. ASSUME NEW c \in Claimant, Owners(s)' \subseteq Owners(s), onHand'[s] <= onHand[s]
      PROVE  onHand'[s] + Cardinality(Owners(s)') <= InitStock[s]
  BY <1>a, <1>b, <1>c, Owned
<1>d. ASSUME Owners(s)' = {} , onHand'[s] <= onHand[s], Cardinality(Owners(s)) = 0
      PROVE  onHand'[s] + Cardinality(Owners(s)') <= InitStock[s]
  BY <1>a, <1>b, <1>d, FS_EmptySet
<1>e. CASE Claimant = {}
  <2>1. Owners(s) = {} /\ Owners(s)' = {}
    BY <1>e DEF Owners
  <2>2. claims = {} /\ Cardinality(Owners(s)) = 0
    BY <1>e, <2>1, FS_EmptySet DEF LedgerTypeOK
  <2>3. onHand'[s] <= onHand[s]
    BY <1>a, <1>e DEF Next, Shrink, Minus, Forget, ledgerVars, LedgerTypeOK
  <2> QED
    BY <1>d, <2>1, <2>2, <2>3
<1> SUFFICES ASSUME Claimant # {}
             PROVE  onHand'[s] + Cardinality(Owners(s)') <= InitStock[s]
  BY <1>e
<1>0. PICK x \in Claimant : TRUE
  OBVIOUS
<1>1. ASSUME NEW L \in SUBSET Sku, Shrink(L)
      PROVE  onHand'[s] + Cardinality(Owners(s)') <= InitStock[s]
  <2>1. Owners(s)' = Owners(s) /\ onHand'[s] <= onHand[s]
    BY <1>1, <1>a DEF Shrink, Minus, Owners
  <2> QED
    BY <1>0, <1>c, <2>1
<1>2. ASSUME NEW L \in SUBSET Sku, NEW c \in Claimant, Take(c, L)
      PROVE  onHand'[s] + Cardinality(Owners(s)') <= InitStock[s]
  <2>1. CASE s \in L
    <3>1. onHand'[s] = onHand[s] - 1 /\ Owners(s)' \subseteq Owners(s) \cup {c}
      BY <1>2, <2>1 DEF Take, Minus, Owners
    <3>2. Cardinality(Owners(s)') <= Cardinality(Owners(s)) + 1
          /\ Cardinality(Owners(s)) \in Nat /\ Cardinality(Owners(s)') \in Nat
      BY <3>1, Owned
    <3> QED
      BY <1>a, <1>b, <3>1, <3>2
  <2>2. CASE s \notin L
    <3>1. onHand'[s] = onHand[s] /\ Owners(s)' \subseteq Owners(s)
      BY <1>2, <2>2 DEF Take, Minus, Owners
    <3> QED
      BY <1>a, <1>c, <3>1
  <2> QED
    BY <2>1, <2>2
<1>3. ASSUME NEW L \in SUBSET Sku, NEW c \in Claimant, Return(c, L)
      PROVE  onHand'[s] + Cardinality(Owners(s)') <= InitStock[s]
  <2>1. CASE s \in L
    <3>1. onHand'[s] = onHand[s] + 1
      BY <1>3, <2>1 DEF Return, Plus
    <3>2. c \in Owners(s) /\ Owners(s)' \subseteq Owners(s) \ {c}
      BY <1>3, <2>1 DEF Return, Owners
    <3>3. Cardinality(Owners(s)') + 1 <= Cardinality(Owners(s))
          /\ Cardinality(Owners(s)) \in Nat /\ Cardinality(Owners(s)') \in Nat
      BY <3>2, Owned
    <3> QED
      BY <1>a, <1>b, <3>1, <3>3
  <2>2. CASE s \notin L
    <3>1. onHand'[s] = onHand[s] /\ Owners(s)' \subseteq Owners(s)
      BY <1>3, <2>2 DEF Return, Plus, Owners
    <3> QED
      BY <1>a, <1>c, <3>1
  <2> QED
    BY <2>1, <2>2
<1>4. ASSUME NEW L \in SUBSET Sku, NEW c \in Claimant, NEW d \in Claimant, Transfer(c, d, L)
      PROVE  onHand'[s] + Cardinality(Owners(s)') <= InitStock[s]
  <2>1. CASE s \in L
    <3> DEFINE A == Owners(s)
               B == Owners(s)'
    <3>1. c \in A /\ B = (A \ {c}) \cup {d} /\ onHand' = onHand
      BY <1>4, <2>1 DEF Transfer, Owners
    <3>2. IsFiniteSet(A) /\ Cardinality(A) \in Nat
      BY Owned
    <3> HIDE DEF A, B
    <3>3. IsFiniteSet(A \ {c}) /\ Cardinality(A \ {c}) = Cardinality(A) - 1
      BY <3>1, <3>2, FS_RemoveElement
    <3>4. Cardinality(B) = IF d \in A \ {c} THEN Cardinality(A \ {c})
                                            ELSE Cardinality(A \ {c}) + 1
      BY <3>1, <3>3, FS_AddElement
    <3>5. Cardinality(B) <= Cardinality(A) /\ Cardinality(B) \in Int
      BY <3>2, <3>3, <3>4
    <3> QED
      BY <1>a, <1>b, <3>1, <3>2, <3>5 DEF A, B
  <2>2. CASE s \notin L
    <3>1. onHand'[s] = onHand[s] /\ Owners(s)' \subseteq Owners(s)
      BY <1>4, <2>2 DEF Transfer, Owners
    <3> QED
      BY <1>a, <1>c, <3>1
  <2> QED
    BY <2>1, <2>2
<1>5. ASSUME NEW C \in SUBSET claims, Forget(C)
      PROVE  onHand'[s] + Cardinality(Owners(s)') <= InitStock[s]
  <2>1. onHand'[s] = onHand[s] /\ Owners(s)' \subseteq Owners(s)
    BY <1>5 DEF Forget, Owners
  <2> QED
    BY <1>0, <1>a, <1>c, <2>1
<1>6. CASE UNCHANGED ledgerVars
  <2>1. onHand'[s] = onHand[s] /\ Owners(s)' \subseteq Owners(s)
    BY <1>6 DEF ledgerVars, Owners
  <2> QED
    BY <1>0, <1>a, <1>c, <2>1
<1> QED
  BY <1>1, <1>2, <1>3, <1>4, <1>5, <1>6 DEF Next

(* NoUnitMinted holds of the ledger, for any parties, variants and stock: what *)
(* is on the shelf and what is owned never add up to more than the start.      *)
THEOREM LedgerKeepsUnits ==
    ASSUME LedgerAssumption
    PROVE  Spec => [](LedgerTypeOK /\ NoUnitMinted)
<1>1. Init => LedgerTypeOK /\ NoUnitMinted
  <2> SUFFICES ASSUME Init PROVE LedgerTypeOK /\ NoUnitMinted
    OBVIOUS
  <2>1. LedgerTypeOK
    BY DEF Init, LedgerTypeOK, LedgerAssumption
  <2>2. \A s \in Sku : Owners(s) = {}
    BY DEF Init, Owners
  <2>3. \A s \in Sku : onHand[s] + Cardinality(Owners(s)) <= InitStock[s]
    BY <2>2, FS_EmptySet DEF Init, LedgerAssumption
  <2> QED
    BY <2>1, <2>3 DEF NoUnitMinted
<1>2. LedgerTypeOK /\ NoUnitMinted /\ [Next]_ledgerVars => (LedgerTypeOK /\ NoUnitMinted)'
  BY TypeStep, UnitStep
<1> QED
  BY <1>1, <1>2, PTL DEF Spec
=============================================================================
