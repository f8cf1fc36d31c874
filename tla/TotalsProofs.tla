---------------------------- MODULE TotalsProofs ----------------------------
(* What the sums of the shop come to, for any catalogue, offers, products  *)
(* and customers. First the totals themselves, by induction over finite    *)
(* sets; then the prices and orders of CheckoutPricing, the hints of its   *)
(* coupons and its best promotion; then the stock of ProductStock, whose   *)
(* units on the shelf and in sales add up. The two specifications share no *)
(* variable.                                                               *)
EXTENDS CheckoutPricing, ProductStock, FiniteSetTheorems, SequenceTheorems,
        WellFoundedInduction, TLAPS

-----------------------------------------------------------------------------
(* Totals                                                                  *)

(* The element that a fold over S takes next.                              *)
Chosen(S) == CHOOSE x \in S : TRUE

(* g gives every part of S its total: 0 for the empty set, and else the    *)
(* value of the element taken and the total of the others.                 *)
Adds(g, f, S) ==
    g = [s \in SUBSET S |-> IF s = {} THEN 0 ELSE f[Chosen(s)] + g[s \ {Chosen(s)}]]

(* A non-empty collection of parts of a finite set has a least member: the *)
(* strict subsets of a finite set are well-founded, which makes an         *)
(* induction over finite sets of every argument below.                     *)
LEMMA Least ==
    ASSUME NEW S, IsFiniteSet(S), NEW B, B \subseteq SUBSET S, B # {}
    PROVE \E x \in B : \A y \in B : y \subseteq x => y = x
<1>1. IsWellFoundedOn(StrictSubsetOrdering(S), SUBSET S)
  BY FS_StrictSubsetOrderingWellFounded, FS_FiniteSubsetsOfFinite
<1>2. PICK x \in B : \A y \in B : ~ (<<y, x>> \in StrictSubsetOrdering(S))
  BY <1>1, WFMin
<1>. QED BY <1>2 DEF StrictSubsetOrdering

(* What a fold takes next is in the set.                                   *)
LEMMA ChosenIn == \A S : S # {} => Chosen(S) \in S
  BY DEF Chosen

(* Two functions that total the same values agree wherever both are        *)
(* defined.                                                                *)
LEMMA AddsOnce ==
    ASSUME NEW f, NEW S, NEW T, IsFiniteSet(S), T \subseteq S,
           NEW g, NEW h, Adds(g, f, S), Adds(h, f, T)
    PROVE  \A s \in SUBSET T : g[s] = h[s]
<1>. DEFINE B == {s \in SUBSET T : g[s] # h[s]}
<1>. SUFFICES ASSUME B # {} PROVE FALSE
  OBVIOUS
<1>1. PICK s \in B : \A y \in B : y \subseteq s => y = s
  <2>. HIDE DEF B
  <2>1. B \subseteq SUBSET S
    BY DEF B
  <2>. QED BY <2>1, Least
<1>2. s # {}
  BY <1>1 DEF Adds
<1>. DEFINE r == s \ {Chosen(s)}
<1>3. r \in SUBSET T /\ r \subseteq s /\ r # s
  BY <1>2, ChosenIn
<1>4. g[r] = h[r]
  BY <1>1, <1>3
<1>5. g[s] = f[Chosen(s)] + g[r] /\ h[s] = f[Chosen(s)] + h[r]
  BY <1>2 DEF Adds
<1>. QED BY <1>4, <1>5

(* The fold has a value: the totals of the parts of a finite set exist.    *)
LEMMA AddsExists ==
    ASSUME NEW f, NEW S, IsFiniteSet(S)
    PROVE  \E g : Adds(g, f, S)
<1>. DEFINE B == {s \in SUBSET S : ~ \E g : Adds(g, f, s)}
<1>. SUFFICES ASSUME B # {} PROVE FALSE
  OBVIOUS
<1>1. PICK T \in B : \A y \in B : y \subseteq T => y = T
  <2>. HIDE DEF B
  <2>1. B \subseteq SUBSET S
    BY DEF B
  <2>. QED BY <2>1, Least
<1>. DEFINE G(s) == CHOOSE g : Adds(g, f, s)
            h == [s \in SUBSET T |-> IF s = {} THEN 0
                     ELSE f[Chosen(s)] + G(s \ {Chosen(s)})[s \ {Chosen(s)}]]
<1>2. \A s \in SUBSET T : s # T => Adds(G(s), f, s)
  BY <1>1
<1>3. \A s \in SUBSET T : IsFiniteSet(s)
  BY FS_Subset
<1>. HIDE DEF G
<1>4. ASSUME NEW s \in SUBSET T, s # {}
      PROVE  h[s \ {Chosen(s)}] = G(s \ {Chosen(s)})[s \ {Chosen(s)}]
  <2>. DEFINE u == s \ {Chosen(s)}
  <2>1. u \in SUBSET T /\ u # T
    BY <1>4, ChosenIn
  <2>2. Adds(G(u), f, u)
    BY <2>1, <1>2
  <2>3. CASE u = {}
    BY <2>1, <2>2, <2>3 DEF Adds
  <2>4. CASE u # {}
    <3>. DEFINE v == u \ {Chosen(u)}
    <3>1. v \in SUBSET T /\ v \subseteq u /\ v # T /\ IsFiniteSet(u)
      BY <2>1, <2>4, ChosenIn, <1>3
    <3>2. Adds(G(v), f, v)
      BY <3>1, <1>2
    <3>3. G(u)[v] = G(v)[v]
      BY <3>1, <3>2, <2>2, AddsOnce
    <3>4. G(u)[u] = f[Chosen(u)] + G(u)[v]
      BY <2>2, <2>4 DEF Adds
    <3>5. h[u] = f[Chosen(u)] + G(v)[v]
      BY <2>1, <2>4
    <3>. QED BY <3>3, <3>4, <3>5
  <2>. QED BY <2>3, <2>4
<1>5. Adds(h, f, T)
  <2>1. \A s \in SUBSET T : h[s] = IF s = {} THEN 0 ELSE f[Chosen(s)] + h[s \ {Chosen(s)}]
    BY <1>4
  <2>2. h = [s \in SUBSET T |-> h[s]]
    OBVIOUS
  <2>. HIDE DEF h
  <2>. QED BY <2>1, <2>2, Zenon DEF Adds
<1>. QED BY <1>1, <1>5

(* So Total is what any such function gives the whole set.                 *)
LEMMA TotalAdds ==
    ASSUME NEW f, NEW S, NEW g, IsFiniteSet(S), Adds(g, f, S)
    PROVE  Total(f, S) = g[S]
<1>1. Total(f, S) = (CHOOSE k : Adds(k, f, S))[S]
  BY DEF Total, Adds, Chosen, MapThenSumSet, MapThenFoldSet
<1>2. Adds(CHOOSE k : Adds(k, f, S), f, S)
  OBVIOUS
<1>. QED BY <1>1, <1>2, AddsOnce

(* Nothing adds up to 0.                                                   *)
LEMMA TotalEmpty == \A f : Total(f, {}) = 0
<1>. SUFFICES ASSUME NEW f PROVE Total(f, {}) = 0
  OBVIOUS
<1>1. PICK g : Adds(g, f, {})
  BY AddsExists, FS_EmptySet
<1>2. g[{}] = 0
  BY <1>1 DEF Adds
<1>. QED
  BY <1>1, <1>2, TotalAdds, FS_EmptySet

(* A total is the value of the element taken first and the total of the    *)
(* rest.                                                                   *)
LEMMA TotalChosen ==
    ASSUME NEW f, NEW S, IsFiniteSet(S), S # {}
    PROVE  Total(f, S) = f[Chosen(S)] + Total(f, S \ {Chosen(S)})
<1>. DEFINE T == S \ {Chosen(S)}
<1>0. IsFiniteSet(T) /\ T \subseteq S
  BY FS_Subset
<1>1. PICK g : Adds(g, f, S)
  BY AddsExists
<1>2. PICK h : Adds(h, f, T)
  BY AddsExists, <1>0
<1>3. g[T] = h[T]
  BY <1>0, <1>1, <1>2, AddsOnce
<1>4. g[S] = f[Chosen(S)] + g[T]
  BY <1>1 DEF Adds
<1>. QED BY <1>0, <1>1, <1>2, <1>3, <1>4, TotalAdds

(* Induction over a finite set: what holds of the empty set, and of a set  *)
(* with one element more, holds of it.                                     *)
LEMMA Grown ==
    ASSUME NEW S, IsFiniteSet(S), NEW P, {} \in P,
           \A s \in SUBSET S : \A x \in s : s \ {x} \in P => s \in P
    PROVE  S \in P
<1>. DEFINE B == {s \in SUBSET S : s \notin P}
<1>. SUFFICES ASSUME B # {} PROVE FALSE
  OBVIOUS
<1>1. PICK s \in B : \A r \in B : r \subseteq s => r = s
  <2>. HIDE DEF B
  <2>1. B \subseteq SUBSET S
    BY DEF B
  <2>. QED
    BY <2>1, Least
<1>2. PICK x \in s : TRUE
  BY <1>1
<1>3. s \ {x} \in SUBSET S /\ s \ {x} \subseteq s /\ s \ {x} # s
  BY <1>1, <1>2
<1>. QED
  BY <1>1, <1>2, <1>3

(* A total of integers is an integer.                                      *)
LEMMA TotalType ==
    ASSUME NEW f, NEW S, IsFiniteSet(S), \A x \in S : f[x] \in Int
    PROVE  Total(f, S) \in Int
<1>. DEFINE B == {s \in SUBSET S : Total(f, s) \notin Int}
<1>. SUFFICES ASSUME B # {} PROVE FALSE
  OBVIOUS
<1>1. PICK s \in B : \A y \in B : y \subseteq s => y = s
  <2>. HIDE DEF B
  <2>1. B \subseteq SUBSET S
    BY DEF B
  <2>. QED BY <2>1, Least
<1>2. s # {}
  <2>1. Total(f, s) \notin Int
    BY <1>1
  <2>. QED BY <2>1, TotalEmpty
<1>. DEFINE r == s \ {Chosen(s)}
<1>3. r \in SUBSET S /\ r \subseteq s /\ r # s /\ f[Chosen(s)] \in Int
  BY <1>2, ChosenIn
<1>4. Total(f, r) \in Int
  BY <1>1, <1>3
<1>5. Total(f, s) = f[Chosen(s)] + Total(f, r)
  BY <1>2, TotalChosen, FS_Subset
<1>. QED BY <1>1, <1>3, <1>4, <1>5

(* The total does not depend on the order.                                 *)
LEMMA TotalSplit ==
    ASSUME NEW f, NEW S, IsFiniteSet(S), \A x \in S : f[x] \in Int, NEW y \in S
    PROVE  Total(f, S) = f[y] + Total(f, S \ {y})
<1>. DEFINE B == {s \in SUBSET S : \E x \in s : Total(f, s) # f[x] + Total(f, s \ {x})}
<1>. SUFFICES ASSUME B # {} PROVE FALSE
  OBVIOUS
<1>1. PICK s \in B : \A r \in B : r \subseteq s => r = s
  <2>. HIDE DEF B
  <2>1. B \subseteq SUBSET S
    BY DEF B
  <2>. QED BY <2>1, Least
<1>2. PICK x \in s : Total(f, s) # f[x] + Total(f, s \ {x})
  BY <1>1
<1>. DEFINE c == Chosen(s)
<1>3. c \in s /\ s \in SUBSET S /\ IsFiniteSet(s)
  BY <1>1, <1>2, ChosenIn, FS_Subset
<1>4. Total(f, s) = f[c] + Total(f, s \ {c})
  BY <1>2, <1>3, TotalChosen
<1>5. c # x
  BY <1>2, <1>4
<1>6. s \ {c} \notin B /\ s \ {x} \notin B
  BY <1>1, <1>2, <1>3
<1>7. Total(f, s \ {c}) = f[x] + Total(f, (s \ {c}) \ {x})
  BY <1>2, <1>3, <1>5, <1>6
<1>8. Total(f, s \ {x}) = f[c] + Total(f, (s \ {x}) \ {c})
  BY <1>2, <1>3, <1>5, <1>6
<1>9. (s \ {c}) \ {x} = (s \ {x}) \ {c}
  OBVIOUS
<1>. DEFINE z == Total(f, (s \ {x}) \ {c})
<1>10. z \in Int /\ f[c] \in Int /\ f[x] \in Int
  <2>1. IsFiniteSet((s \ {x}) \ {c}) /\ \A k \in (s \ {x}) \ {c} : f[k] \in Int
    BY <1>3, FS_Subset
  <2>. QED BY <2>1, <1>3, TotalType
<1>11. Total(f, s) = f[c] + (f[x] + z) /\ Total(f, s \ {x}) = f[c] + z
  BY <1>4, <1>7, <1>8, <1>9
<1>. QED BY <1>2, <1>10, <1>11

(* Equal values have equal totals.                                         *)
LEMMA TotalSame ==
    ASSUME NEW f, NEW g, NEW S, IsFiniteSet(S), \A x \in S : f[x] \in Int /\ g[x] = f[x]
    PROVE  Total(g, S) = Total(f, S)
<1>. DEFINE P == {s \in SUBSET S : Total(g, s) = Total(f, s)}
<1>1. {} \in P
  BY TotalEmpty
<1>2. ASSUME NEW s \in SUBSET S, NEW x \in s, s \ {x} \in P PROVE s \in P
  <2>1. IsFiniteSet(s)
    BY FS_Subset
  <2>2. Total(f, s) = f[x] + Total(f, s \ {x}) /\ Total(g, s) = g[x] + Total(g, s \ {x})
    BY <2>1, TotalSplit
  <2>. QED
    BY <1>2, <2>2
<1>. HIDE DEF P
<1>3. S \in P
  BY <1>1, <1>2, Grown
<1>. QED
  BY <1>3 DEF P

(* Sums, differences and multiples are taken index by index.               *)
LEMMA TotalPlus ==
    ASSUME NEW f, NEW g, NEW h, NEW S, IsFiniteSet(S), NEW c \in Int,
           \A x \in S : f[x] \in Int /\ g[x] \in Int /\ h[x] = f[x] + c * g[x]
    PROVE  Total(h, S) = Total(f, S) + c * Total(g, S)
<1>. DEFINE P == {s \in SUBSET S : Total(h, s) = Total(f, s) + c * Total(g, s)}
<1>1. {} \in P
  BY TotalEmpty
<1>2. ASSUME NEW s \in SUBSET S, NEW x \in s, s \ {x} \in P PROVE s \in P
  <2>1. IsFiniteSet(s) /\ IsFiniteSet(s \ {x})
    BY FS_Subset
  <2>2. \A y \in s : h[y] \in Int
    OBVIOUS
  <2>3. /\ Total(f, s) = f[x] + Total(f, s \ {x})
        /\ Total(g, s) = g[x] + Total(g, s \ {x})
        /\ Total(h, s) = h[x] + Total(h, s \ {x})
    BY <2>1, <2>2, TotalSplit
  <2>4. Total(f, s \ {x}) \in Int /\ Total(g, s \ {x}) \in Int
    BY <2>1, TotalType
  <2>5. h[x] = f[x] + c * g[x] /\ f[x] \in Int /\ g[x] \in Int
    OBVIOUS
  <2>6. Total(h, s \ {x}) = Total(f, s \ {x}) + c * Total(g, s \ {x})
    BY <1>2
  <2>. QED
    BY <2>3, <2>4, <2>5, <2>6
<1>. HIDE DEF P
<1>3. S \in P
  BY <1>1, <1>2, Grown
<1>. QED
  BY <1>3 DEF P

(* Greater values have a greater total.                                    *)
LEMMA TotalMonotone ==
    ASSUME NEW f, NEW g, NEW S, IsFiniteSet(S),
           \A x \in S : f[x] \in Int /\ g[x] \in Int /\ f[x] <= g[x]
    PROVE  Total(f, S) <= Total(g, S)
<1>. DEFINE P == {s \in SUBSET S : Total(f, s) <= Total(g, s)}
<1>1. {} \in P
  BY TotalEmpty
<1>2. ASSUME NEW s \in SUBSET S, NEW x \in s, s \ {x} \in P PROVE s \in P
  <2>1. IsFiniteSet(s) /\ IsFiniteSet(s \ {x})
    BY FS_Subset
  <2>3. /\ Total(f, s) = f[x] + Total(f, s \ {x})
        /\ Total(g, s) = g[x] + Total(g, s \ {x})
    BY <2>1, TotalSplit
  <2>4. Total(f, s \ {x}) \in Int /\ Total(g, s \ {x}) \in Int
    BY <2>1, TotalType
  <2>. QED
    BY <1>2, <2>3, <2>4
<1>. HIDE DEF P
<1>3. S \in P
  BY <1>1, <1>2, Grown
<1>. QED
  BY <1>3 DEF P

(* Indices without a value may be left out.                                *)
LEMMA TotalPart ==
    ASSUME NEW f, NEW S, NEW T \in SUBSET S, IsFiniteSet(S),
           \A x \in S : f[x] \in Int, \A x \in S \ T : f[x] = 0
    PROVE  Total(f, S) = Total(f, T)
<1>. DEFINE P == {s \in SUBSET S : Total(f, s) = Total(f, s \cap T)}
<1>1. {} \in P
  OBVIOUS
<1>2. ASSUME NEW s \in SUBSET S, NEW x \in s, s \ {x} \in P PROVE s \in P
  <2>1. IsFiniteSet(s) /\ IsFiniteSet(s \cap T) /\ IsFiniteSet(s \ {x})
    BY FS_Subset
  <2>2. Total(f, s) = f[x] + Total(f, s \ {x}) /\ Total(f, s \ {x}) \in Int
    BY <2>1, TotalSplit, TotalType
  <2>3. CASE x \in T
    <3>1. (s \ {x}) \cap T = (s \cap T) \ {x} /\ x \in s \cap T
      BY <2>3
    <3>2. Total(f, s \cap T) = f[x] + Total(f, (s \cap T) \ {x})
      BY <2>1, <3>1, TotalSplit
    <3>. QED
      BY <1>2, <2>2, <3>1, <3>2
  <2>4. CASE x \notin T
    <3>1. (s \ {x}) \cap T = s \cap T /\ f[x] = 0
      BY <2>4
    <3>2. Total(f, s) = Total(f, s \ {x})
      BY <2>2, <3>1
    <3>. QED
      BY <1>2, <3>1, <3>2
  <2>. QED
    BY <2>3, <2>4
<1>. HIDE DEF P
<1>3. S \in P
  BY <1>1, <1>2, Grown
<1>4. S \cap T = T
  OBVIOUS
<1>. QED
  BY <1>3, <1>4 DEF P

(* One value changes.                                                      *)
LEMMA TotalMoves ==
    ASSUME NEW f, NEW g, NEW S, IsFiniteSet(S), NEW y \in S, \A x \in S : f[x] \in Int,
           g[y] \in Int, \A x \in S \ {y} : g[x] = f[x]
    PROVE  Total(g, S) = Total(f, S) + (g[y] - f[y])
<1>1. IsFiniteSet(S \ {y})
  BY FS_Subset
<1>2. Total(f, S) = f[y] + Total(f, S \ {y}) /\ Total(g, S) = g[y] + Total(g, S \ {y})
  BY TotalSplit
<1>3. Total(g, S \ {y}) = Total(f, S \ {y}) /\ Total(f, S \ {y}) \in Int
  BY <1>1, TotalSame, TotalType
<1>4. f[y] \in Int /\ g[y] \in Int
  OBVIOUS
<1>. QED
  BY <1>2, <1>3, <1>4

-----------------------------------------------------------------------------
(* Pricing. A campaign never raises a price, so no SKU ever sells above    *)
(* its list price; a cart of filed products is refused for its prices      *)
(* exactly when they have changed, and otherwise charged what it showed.   *)

(* Whole paise stay whole paise when rounded, and rounding keeps the order *)
(* to such an amount.                                                      *)
LEMMA RoundBelow ==
    ASSUME NEW a \in Int, NEW b \in Nat, b % Paisa = 0, a <= b
    PROVE  Round(a) \in Int /\ Round(a) <= b
  BY DEF Round, Paisa

(* A percentage of whole paise is a natural number, at most all of them.   *)
LEMMA PercentBounds ==
    ASSUME NEW a \in Nat, a % Paisa = 0, NEW pct \in 0 .. 100
    PROVE  Percent(a, pct) \in Nat /\ Percent(a, pct) <= a
<1> DEFINE q == a \div Paisa
<1>1. q \in Nat /\ a = 100 * q
  BY DEF Paisa
<1>2. q * pct \in Nat /\ q * pct <= q * 100
  <2> HIDE DEF q
  <2> QED
    BY <1>1
<1> QED
  BY <1>1, <1>2 DEF Percent

(* Whatever its kind, value and cap, a campaign takes something off.       *)
LEMMA CampaignTakesOff ==
    ASSUME NEW k \in DOMAIN Sales, NEW price \in Nat, price % Paisa = 0
    PROVE  \E off \in Nat : ApplyCampaign(price, Sales[k]) = AtLeastZero(Round(price - off))
<1>0. /\ Sales[k].value \in Nat /\ Sales[k].kind \in {"percentage", "flat", "fixed"}
      /\ Sales[k].kind = "percentage" => Sales[k].value \in 0 .. 100
      /\ Sales[k].cap = None \/ Sales[k].cap \in Nat
  BY OfferAssumption
<1> SUFFICES ASSUME NEW kind, NEW value \in Nat, NEW cap, NEW s,
                    s = Sales[k], s.kind = kind, s.value = value, s.cap = cap,
                    kind \in {"percentage", "flat", "fixed"},
                    kind = "percentage" => value \in 0 .. 100,
                    cap = None \/ cap \in Nat
             PROVE  \E off \in Nat : ApplyCampaign(price, s) = AtLeastZero(Round(price - off))
  BY <1>0
<1>2. CASE kind = "percentage"
  <2>1. Percent(price, value) \in Nat
    BY <1>2, PercentBounds
  <2>2. CASE cap = None
    BY <1>2, <2>1, <2>2 DEF ApplyCampaign
  <2>3. CASE cap # None
    <3>1. Lesser(Percent(price, value), cap) \in Nat
      BY <2>1, <2>3 DEF Lesser
    <3> QED
      BY <1>2, <2>3, <3>1 DEF ApplyCampaign
  <2> QED
    BY <2>2, <2>3
<1>3. CASE kind = "fixed"
  <2>1. price - Lesser(price, value) \in Nat
    BY DEF Lesser
  <2> QED
    BY <1>3, <2>1 DEF ApplyCampaign
<1>4. CASE kind = "flat"
  BY <1>4 DEF ApplyCampaign
<1> QED
  BY <1>2, <1>3, <1>4

(* A campaign gives a price between nothing and the price it is given, in  *)
(* whole paise.                                                            *)
THEOREM CampaignNeverRaises ==
    ASSUME NEW k \in DOMAIN Sales, NEW price \in Nat, price % Paisa = 0
    PROVE  /\ ApplyCampaign(price, Sales[k]) \in 0 .. price
           /\ ApplyCampaign(price, Sales[k]) % Paisa = 0
<1>1. PICK off \in Nat : ApplyCampaign(price, Sales[k]) = AtLeastZero(Round(price - off))
  BY CampaignTakesOff
<1>2. Round(price - off) \in Int /\ Round(price - off) <= price
  BY RoundBelow
<1>3. Round(price - off) % Paisa = 0
  <2> DEFINE b == (price - off + Paisa \div 2) \div Paisa
  <2>1. b \in Int /\ Round(price - off) = b * Paisa
    BY DEF Round, Paisa
  <2> HIDE DEF b
  <2> QED
    BY <2>1 DEF Paisa
<1> QED
  BY <1>1, <1>2, <1>3 DEF AtLeastZero, Paisa

(* A non-empty set of numbers has a least one.                             *)
LEMMA LeastNumber ==
    ASSUME NEW S \in SUBSET Nat, S # {}
    PROVE  \E n \in S : \A m \in S : n <= m
<1>1. PICK n \in S : \A m \in S : ~ <<m, n>> \in OpToRel(<, Nat)
  BY NatLessThanWellFounded, WFMin
<1>2. \A m \in S : ~(m < n)
  BY <1>1 DEF OpToRel
<1> QED
  BY <1>2

(* The winner, if there is one, is a live campaign that matches the SKU.   *)
LEMMA WinnerIsLive ==
    ASSUME NEW i \in Items, NEW offers, NEW named \in BOOLEAN,
           Winner(i, offers, named) # 0
    PROVE  /\ Winner(i, offers, named) \in DOMAIN Sales
           /\ Sales[Winner(i, offers, named)].id \in offers
<1> DEFINE base == Catalog[i].base
           at(k) == ApplyCampaign(base, Sales[k])
           lower == {k \in DOMAIN Sales : /\ Sales[k].id \in offers
                                         /\ CampaignMatches(Sales[k], i, named)
                                         /\ at(k) < base}
           first(k) == \A l \in lower : at(k) < at(l) \/ (at(k) = at(l) /\ k <= l)
<1>1. lower # {} /\ Winner(i, offers, named) = CHOOSE k \in lower : first(k)
  BY DEF Winner
<1>2. lower \subseteq Nat /\ \A k \in lower : at(k) \in Nat
  <2>1. \A k \in DOMAIN Sales : at(k) \in 0 .. base
    BY CatalogAssumption, CampaignNeverRaises
  <2> QED
    BY <2>1, OfferAssumption, CatalogAssumption
<1> HIDE DEF lower, at
<1>3. PICK m \in {at(k) : k \in lower} : \A n \in {at(k) : k \in lower} : m <= n
  BY <1>1, <1>2, LeastNumber
<1>4. PICK k \in {l \in lower : at(l) = m} : \A l \in {l \in lower : at(l) = m} : k <= l
  BY <1>2, <1>3, LeastNumber
<1>5. first(k)
  <2> SUFFICES ASSUME NEW l \in lower PROVE at(k) < at(l) \/ (at(k) = at(l) /\ k <= l)
    OBVIOUS
  <2>1. at(k) = m /\ m <= at(l)
    BY <1>3, <1>4
  <2>2. CASE at(l) = m
    BY <1>4, <2>1, <2>2
  <2>3. CASE at(l) # m
    BY <1>2, <1>4, <2>1, <2>3
  <2> QED
    BY <2>2, <2>3
<1>6. (CHOOSE l \in lower : first(l)) \in lower
  <2> HIDE DEF first
  <2> QED
    BY <1>4, <1>5
<1> QED
  BY <1>1, <1>6 DEF lower

(* No SKU sells above its list price, whichever campaigns are live and     *)
(* however the winner was chosen.                                          *)
THEOREM NeverAboveList ==
    ASSUME NEW i \in Items, NEW offers, NEW named \in BOOLEAN
    PROVE  SellPrice(i, offers, named) \in 0 .. Catalog[i].list
<1>0. Catalog[i].list \in Nat /\ Catalog[i].list % Paisa = 0
  BY CatalogAssumption
<1>1. CASE Winner(i, offers, named) = 0
  BY <1>0, <1>1 DEF SellPrice
<1>2. CASE Winner(i, offers, named) # 0
  <2>1. Winner(i, offers, named) \in DOMAIN Sales
    BY <1>2, WinnerIsLive
  <2> QED
    BY <1>0, <1>2, <2>1, CampaignNeverRaises DEF SellPrice
<1> QED
  BY <1>1, <1>2

---------------------------------------------------------------------------
(* Revalidation                                                            *)

(* A product whose ids are stored has the same scope with and without the  *)
(* names the other pricings look up.                                       *)
LEMMA FiledScope ==
    ASSUME NEW i, Filed(i) PROVE ScopeIds(i, FALSE) = ScopeIds(i, TRUE)
<1>1. CategoryNamed(None) = None /\ SubcategoryNamed(None) = None
  BY NameAssumption DEF CategoryNamed, SubcategoryNamed
<1> QED
  BY <1>1 DEF Filed, ScopeIds

(* A product that is filed under categories has one price, whether or not  *)
(* the names of its categories are looked at.                              *)
LEMMA FiledPrice ==
    ASSUME NEW i, Filed(i), NEW offers
    PROVE  SellPrice(i, offers, FALSE) = SellPrice(i, offers, TRUE)
<1>1. ASSUME NEW s PROVE CampaignMatches(s, i, FALSE) <=> CampaignMatches(s, i, TRUE)
  BY FiledScope DEF CampaignMatches
<1>2. Winner(i, offers, FALSE) = Winner(i, offers, TRUE)
  <2> DEFINE lower(named) == {k \in DOMAIN Sales :
                     /\ Sales[k].id \in offers
                     /\ CampaignMatches(Sales[k], i, named)
                     /\ ApplyCampaign(Catalog[i].base, Sales[k]) < Catalog[i].base}
         at(k) == ApplyCampaign(Catalog[i].base, Sales[k])
         first(S) == IF S = {} THEN 0
                     ELSE CHOOSE k \in S :
                            \A l \in S : at(k) < at(l) \/ (at(k) = at(l) /\ k <= l)
  <2>1. lower(FALSE) = lower(TRUE)
    BY <1>1
  <2>2. /\ Winner(i, offers, FALSE) = first(lower(FALSE))
        /\ Winner(i, offers, TRUE) = first(lower(TRUE))
    BY DEF Winner
  <2> HIDE DEF lower, first
  <2> QED
    BY <2>1, <2>2
<1> QED
  BY <1>2 DEF SellPrice

(* A cart of filed products is refused for its prices exactly when one of  *)
(* them is no longer the live price: for every shop, every set of offers   *)
(* and every number of changes during the checkout.                        *)
THEOREM RevalidationIsExact == PricingSpec => RefusedExactlyWhenDue
<1>1. ASSUME [PricingNext]_pricingVars, RefusePrices \/ Revalidate,
             \A i \in DOMAIN shown.prices : Filed(i)
      PROVE  RefusePrices <=> Diverged
  <2>1. \A i \in DOMAIN shown.prices : LivePrice(i) = SellPrice(i, live, TRUE)
    BY <1>1, FiledPrice DEF LivePrice
  <2>2. Diverged <=> ~PricesStand
    BY <2>1 DEF Diverged, PricesStand
  <2>3. Revalidate => PricesStand
    BY DEF Revalidate
  <2>4. RefusePrices => ~PricesStand
    BY DEF RefusePrices
  <2> QED
    BY <1>1, <2>2, <2>3, <2>4
<1> QED
  BY <1>1, PTL DEF PricingSpec, RefusedExactlyWhenDue

---------------------------------------------------------------------------
(* What is shown is charged                                                *)

(* A coupon takes off something or nothing.                                *)
LEMMA CouponWorth ==
    ASSUME NEW c, NEW offers, NEW lines
    PROVE  CouponValue(c, offers, lines) > 0 \/ CouponValue(c, offers, lines) = 0
<1> DEFINE n == WithNames(c)
           off == CouponDiscount(n, EligibleSubtotal(n, lines), lines)
<1>1. CouponVerdict(n, offers, lines) = "valid" => off > 0
  <2> HIDE DEF n
  <2> QED
    BY DEF CouponVerdict
<1>2. CouponValue(c, offers, lines) = IF CouponVerdict(n, offers, lines) = "valid" THEN off ELSE 0
  BY DEF CouponValue
<1> HIDE DEF n, off
<1> QED
  BY <1>1, <1>2

(* As long as nothing changes, each pricing finds the lines, the promotion *)
(* and the coupon's worth that the cart was shown with.                    *)
LinesNow == Lines(bag, Prices(live))
(* The best of the live promotions for them,                               *)
BestNow == PickBest(live, LinesNow)
(* what it takes off,                                                      *)
PromotionNow == IF BestNow = 0 THEN 0 ELSE PromotionDiscount(Promotions[BestNow], LinesNow)
(* and what the coupon of the cart does.                                   *)
CouponNow ==
    IF cartCoupon # None /\ shown.couponDiscount > 0
    THEN CouponValue(cartCoupon, live, LinesNow) ELSE 0

(* The cart that was shown is what pricing finds now.                      *)
ShownAsPriced ==
    /\ shown.prices = LinePrices(LinesNow)
    /\ shown.promotion = BestNow
    /\ shown.promotionDiscount = PromotionNow
    /\ shown.couponDiscount = CouponNow
    /\ shown.total = AtLeastZero(Subtotal(LinesNow) - (PromotionNow + CouponNow))

(* A quote is, as far as it has got, the cart that was shown.              *)
QuotedAsShown ==
    /\ stage \in {"priced", "couponed", "totalled"} => quote.lines = LinesNow
    /\ stage \in {"couponed", "totalled"} => quote.couponDiscount = CouponNow
    /\ stage = "totalled" =>
          quote.promotion = BestNow /\ quote.promotionDiscount = PromotionNow

(* Nobody changed an offer or the bag, and no code was typed.              *)
Undisturbed == offerChanges + bagChanges = 0 /\ typed = None

(* The inductive invariant of ShownIsCharged: until something disturbs a   *)
(* checkout, the cart it was shown is what pricing finds, and so is its    *)
(* quote.                                                                  *)
ChargeInv ==
    /\ offerChanges \in Nat /\ bagChanges \in Nat
    /\ buyNow => cartCoupon = None
    /\ quote = [lines |-> quote.lines, coupon |-> quote.coupon,
                couponDiscount |-> quote.couponDiscount, promotion |-> quote.promotion,
                promotionDiscount |-> quote.promotionDiscount, method |-> quote.method]
    /\ Undisturbed /\ stage \notin {"browsing", "refused"} => ShownAsPriced /\ QuotedAsShown
    /\ ShownIsCharged

(* What pricing finds depends on the bag, the live offers and the cart's   *)
(* coupon.                                                                 *)
LEMMA SameOffers ==
    ASSUME UNCHANGED <<bag, live, cartCoupon, shown>>
    PROVE  /\ LinesNow' = LinesNow /\ BestNow' = BestNow /\ PromotionNow' = PromotionNow
           /\ CouponNow' = CouponNow
<1>1. LinesNow' = LinesNow
  BY DEF LinesNow
<1>2. BestNow' = BestNow
  BY <1>1 DEF BestNow
<1>3. PromotionNow' = PromotionNow
  BY <1>1, <1>2 DEF PromotionNow
<1>4. CouponNow' = CouponNow
  BY <1>1 DEF CouponNow
<1> QED
  BY <1>1, <1>2, <1>3, <1>4

(* Showing a cart prices it as it is.                                      *)
LEMMA Shown ==
    ASSUME NEW c, shown' = HydratedCart(bag, live, c), UNCHANGED <<bag, live>>,
           cartCoupon' = IF shown'.couponDiscount > 0 THEN c ELSE None
    PROVE  ShownAsPriced'
<1>1. LinesNow' = LinesNow /\ BestNow' = BestNow /\ PromotionNow' = PromotionNow
  BY DEF LinesNow, BestNow, PromotionNow
<1>2. shown'.couponDiscount = IF c = None THEN 0 ELSE CouponValue(c, live, LinesNow)
  BY DEF HydratedCart, LinesNow
<1>3. shown'.couponDiscount > 0 \/ shown'.couponDiscount = 0
  BY <1>2, CouponWorth
<1>4. shown'.couponDiscount > 0 => c # None
  BY <1>2
<1>5. CouponNow' = IF cartCoupon' # None /\ shown'.couponDiscount > 0
                   THEN CouponValue(cartCoupon', live, LinesNow) ELSE 0
  BY <1>1 DEF CouponNow
<1>6. shown'.couponDiscount = CouponNow'
  <2>1. CASE shown'.couponDiscount > 0
    BY <1>2, <1>4, <1>5, <2>1
  <2>2. CASE ~(shown'.couponDiscount > 0)
    BY <1>3, <1>5, <2>2
  <2> QED
    BY <2>1, <2>2
<1>7. /\ shown'.prices = LinePrices(LinesNow)
      /\ shown'.promotion = BestNow
      /\ shown'.promotionDiscount = PromotionNow
      /\ shown'.total = AtLeastZero(Subtotal(LinesNow) - (PromotionNow + shown'.couponDiscount))
  BY <1>2 DEF HydratedCart, LinesNow, BestNow, PromotionNow
<1>8. LinePrices(LinesNow)' = LinePrices(LinesNow)
  BY <1>1 DEF LinePrices
<1> QED
  BY <1>1, <1>6, <1>7, <1>8 DEF ShownAsPriced

(* And a step that changes nothing pricing reads leaves it so.             *)
LEMMA StillAsPriced ==
    ASSUME ShownAsPriced, UNCHANGED <<bag, live, cartCoupon, shown>> PROVE ShownAsPriced'
<1>1. LinesNow' = LinesNow /\ BestNow' = BestNow /\ PromotionNow' = PromotionNow
      /\ CouponNow' = CouponNow
  BY SameOffers
<1> QED
  BY <1>1 DEF ShownAsPriced, LinePrices

(* What the order of an undisturbed checkout costs.                        *)
LEMMA Charged ==
    ASSUME ShownAsPriced, QuotedAsShown, buyNow => cartCoupon = None, PlaceOrder
    PROVE  /\ order'.total = shown.total + order'.shipping + order'.codFee
           /\ order'.prices = shown.prices
           /\ order'.promotion = shown.promotion
           /\ order'.couponDiscount = shown.couponDiscount
<1>1. /\ quote.lines = LinesNow /\ quote.couponDiscount = CouponNow
      /\ quote.promotion = BestNow /\ quote.promotionDiscount = PromotionNow
  BY DEF PlaceOrder, QuotedAsShown
<1> DEFINE sums == OrderTotals(Subtotal(quote.lines),
                               quote.promotionDiscount + quote.couponDiscount, quote.method)
<1>2. /\ order'.total = sums.total /\ order'.shipping = sums.shipping /\ order'.codFee = sums.codFee
      /\ order'.prices = BuiltPrices /\ order'.promotion = quote.promotion
      /\ order'.couponDiscount = quote.couponDiscount
  BY DEF PlaceOrder
<1>3. sums.total = AtLeastZero(Subtotal(LinesNow) - (PromotionNow + CouponNow))
                     + sums.shipping + sums.codFee
  BY <1>1 DEF OrderTotals
<1>4. BuiltPrices = LinePrices(LinesNow)
  <2>1. /\ DOMAIN LinesNow \subseteq Items
        /\ \A i \in DOMAIN LinesNow : LinesNow[i].price = SellPrice(i, live, TRUE)
    BY DEF LinesNow, Lines, Prices, CouponLine
  <2> QED
    BY <1>1, <2>1 DEF BuiltPrices, LinePrices
<1> HIDE DEF sums
<1> QED
  BY <1>1, <1>2, <1>3, <1>4 DEF ShownAsPriced

(* A shop with nothing shown yet charges nothing else than it shows.       *)
LEMMA ChargeStarts == PricingInit => ChargeInv
  BY DEF PricingInit, ChargeInv, ShownIsCharged, NoQuote

(* Each step of a checkout keeps it so.                                    *)
LEMMA ChargeStep == ChargeInv /\ [PricingNext]_pricingVars => ChargeInv'
<1> SUFFICES ASSUME ChargeInv, [PricingNext]_pricingVars PROVE ChargeInv'
  OBVIOUS
<1>0. /\ offerChanges \in Nat /\ bagChanges \in Nat
      /\ buyNow => cartCoupon = None
      /\ quote = [lines |-> quote.lines, coupon |-> quote.coupon,
                  couponDiscount |-> quote.couponDiscount, promotion |-> quote.promotion,
                  promotionDiscount |-> quote.promotionDiscount, method |-> quote.method]
      /\ Undisturbed /\ stage \notin {"browsing", "refused"} => ShownAsPriced /\ QuotedAsShown
      /\ ShownIsCharged
  BY DEF ChargeInv
<1>1. ASSUME \/ \E o \in OfferIds : OfferChanges(o)
             \/ \E i \in Items, n \in 0 .. MaxUnits : BagChanges(i, n)
      PROVE  ChargeInv'
  <2>1. /\ \/ offerChanges' = offerChanges + 1 /\ bagChanges' = bagChanges
           \/ bagChanges' = bagChanges + 1 /\ offerChanges' = offerChanges
        /\ UNCHANGED <<buyNow, cartCoupon, quote>>
    BY <1>1 DEF OfferChanges, BagChanges
  <2>2. offerChanges' \in Nat /\ bagChanges' \in Nat /\ offerChanges' + bagChanges' > 0
    BY <1>0, <2>1
  <2> QED
    BY <1>0, <2>1, <2>2 DEF ChargeInv, Undisturbed, ShownIsCharged
<1>2. CASE RefuseEmptyCart \/ RefusePrices \/ RefuseCode
  <2>1. /\ stage' = "refused"
        /\ UNCHANGED <<offerChanges, bagChanges, buyNow, cartCoupon, quote>>
    BY <1>2 DEF RefuseEmptyCart, RefusePrices, RefuseCode, Refuse
  <2> QED
    BY <1>0, <2>1 DEF ChargeInv, ShownIsCharged
<1>3. CASE HydrateCart \/ PreviewBuyNow
  <2>1. /\ stage' = "shown"
        /\ UNCHANGED <<bag, live, offerChanges, bagChanges, buyNow, quote>>
    BY <1>3 DEF HydrateCart, PreviewBuyNow
  <2>2. ShownAsPriced' /\ (buyNow' => cartCoupon' = None)
    <3>1. CASE HydrateCart
      BY <3>1, Shown DEF HydrateCart
    <3>2. CASE PreviewBuyNow
      <4>1. /\ shown' = HydratedCart(bag, live, None) /\ cartCoupon = None
            /\ UNCHANGED <<bag, live, cartCoupon, buyNow>>
        BY <1>0, <3>2 DEF PreviewBuyNow
      <4> QED
        BY <4>1, Shown
    <3> QED
      BY <1>3, <3>1, <3>2
  <2> QED
    BY <1>0, <2>1, <2>2 DEF ChargeInv, QuotedAsShown, ShownIsCharged
<1>4. ASSUME Revalidate \/ PriceCart \/ PriceBuyNow \/ EvaluateCoupon
             \/ (\E method \in {"cod", "razorpay"} : ResolvePromotion(method)) \/ PlaceOrder,
             Undisturbed'
      PROVE  ShownAsPriced' /\ QuotedAsShown'
  <2>1. /\ UNCHANGED <<bag, live, cartCoupon, shown, typed, buyNow, offerChanges, bagChanges>>
        /\ stage \notin {"browsing", "refused"}
    BY <1>4 DEF Revalidate, PriceCart, PriceBuyNow, EvaluateCoupon, ResolvePromotion, PlaceOrder
  <2>2. Undisturbed /\ ShownAsPriced /\ QuotedAsShown
    BY <1>0, <1>4, <2>1 DEF Undisturbed
  <2>3. ShownAsPriced'
    BY <2>1, <2>2, StillAsPriced
  <2>4. LinesNow' = LinesNow /\ BestNow' = BestNow /\ PromotionNow' = PromotionNow
        /\ CouponNow' = CouponNow
    BY <2>1, SameOffers
  <2>5. CASE Revalidate \/ PlaceOrder
    BY <2>3, <2>5 DEF Revalidate, PlaceOrder, QuotedAsShown
  <2>6. CASE PriceCart \/ PriceBuyNow
    <3>1. quote' = [quote EXCEPT !.lines = LinesNow] /\ stage' = "priced"
      BY <2>6 DEF PriceCart, PriceBuyNow, LinesNow
    <3>2. quote'.lines = LinesNow
      BY <1>0, <3>1
    <3> QED
      BY <2>3, <2>4, <3>1, <3>2 DEF QuotedAsShown
  <2>7. CASE EvaluateCoupon
    <3>1. /\ quote' = [quote EXCEPT !.couponDiscount = CartCouponValue, !.coupon = quote'.coupon]
          /\ stage = "priced" /\ stage' = "couponed"
      BY <1>0, <2>2, <2>7 DEF EvaluateCoupon, Undisturbed
    <3>2. quote.lines = LinesNow /\ CartCouponValue = CouponNow
      BY <2>2, <3>1 DEF QuotedAsShown, CartCouponValue, CouponNow
    <3>3. quote'.lines = LinesNow /\ quote'.couponDiscount = CouponNow
      BY <1>0, <3>1, <3>2
    <3> QED
      BY <2>3, <2>4, <3>1, <3>3 DEF QuotedAsShown
  <2>8. ASSUME NEW method, ResolvePromotion(method) PROVE ShownAsPriced' /\ QuotedAsShown'
    <3>1. /\ quote.lines = LinesNow /\ quote.couponDiscount = CouponNow
          /\ stage' = "totalled" /\ shown.promotion = BestNow
      BY <2>2, <2>8 DEF ResolvePromotion, QuotedAsShown, ShownAsPriced
    <3> DEFINE promo == IF BestNow # 0 THEN BestNow ELSE IF buyNow THEN 0 ELSE shown.promotion
    <3>2. quote' = [quote EXCEPT !.promotion = promo, !.promotionDiscount = PromotionNow,
                                 !.method = method]
      BY <2>8, <3>1 DEF ResolvePromotion, BestNow, PromotionNow
    <3>3. promo = BestNow
      BY <3>1
    <3> HIDE DEF promo
    <3>4. /\ quote'.lines = LinesNow /\ quote'.couponDiscount = CouponNow
          /\ quote'.promotion = BestNow /\ quote'.promotionDiscount = PromotionNow
      BY <1>0, <3>1, <3>2, <3>3
    <3> QED
      BY <2>3, <2>4, <3>1, <3>4 DEF QuotedAsShown
  <2> QED
    BY <1>4, <2>5, <2>6, <2>7, <2>8
<1>5. ASSUME Revalidate \/ PriceCart \/ PriceBuyNow \/ EvaluateCoupon
             \/ (\E method \in {"cod", "razorpay"} : ResolvePromotion(method)) \/ PlaceOrder
      PROVE  ChargeInv'
  <2>1. /\ UNCHANGED <<shown, buyNow, cartCoupon, typed, offerChanges, bagChanges>>
        /\ stage \notin {"browsing", "refused"}
    BY <1>5 DEF Revalidate, PriceCart, PriceBuyNow, EvaluateCoupon, ResolvePromotion, PlaceOrder
  <2>2. quote' = [lines |-> quote'.lines, coupon |-> quote'.coupon,
                  couponDiscount |-> quote'.couponDiscount, promotion |-> quote'.promotion,
                  promotionDiscount |-> quote'.promotionDiscount, method |-> quote'.method]
    BY <1>0, <1>5
       DEF Revalidate, PriceCart, PriceBuyNow, EvaluateCoupon, ResolvePromotion, PlaceOrder
  <2>3. ShownIsCharged'
    <3>1. CASE PlaceOrder /\ Undisturbed
      <4>1. ShownAsPriced /\ QuotedAsShown
        BY <1>0, <2>1, <3>1
      <4> QED
        BY <1>0, <2>1, <3>1, <4>1, Charged DEF ShownIsCharged
    <3>2. CASE ~Undisturbed
      BY <2>1, <3>2 DEF ShownIsCharged, Undisturbed
    <3>3. CASE ~PlaceOrder
      BY <1>5, <3>3
         DEF Revalidate, PriceCart, PriceBuyNow, EvaluateCoupon, ResolvePromotion, ShownIsCharged
    <3> QED
      BY <3>1, <3>2, <3>3
  <2> QED
    BY <1>0, <1>4, <1>5, <2>1, <2>2, <2>3 DEF ChargeInv
<1>6. CASE UNCHANGED pricingVars
  <2>1. UNCHANGED <<bag, live, cartCoupon, shown, quote, stage, typed, buyNow, order, offerChanges,
                    bagChanges>>
    BY <1>6 DEF pricingVars
  <2>2. ShownAsPriced => ShownAsPriced'
    BY <2>1, StillAsPriced
  <2>3. QuotedAsShown => QuotedAsShown'
    BY <2>1, SameOffers DEF QuotedAsShown
  <2>4. Undisturbed' => Undisturbed
    BY <2>1 DEF Undisturbed
  <2>5. ShownIsCharged'
    BY <1>0, <2>1 DEF ShownIsCharged
  <2> QED
    BY <1>0, <2>1, <2>2, <2>3, <2>4, <2>5 DEF ChargeInv
<1> QED
  BY <1>1, <1>2, <1>3, <1>5, <1>6 DEF PricingNext

(* A checkout that nothing disturbs charges what it showed, for any shop.  *)
THEOREM ChargesWhatItShows == PricingSpec => []ShownIsCharged
<1>1. ChargeInv => ShownIsCharged
  BY DEF ChargeInv
<1> QED
  BY <1>1, ChargeStarts, ChargeStep, PTL DEF PricingSpec

-----------------------------------------------------------------------------
(* The order adds up                                                       *)

(* Zeros add up to 0.                                                      *)
LEMMA TotalZero == \A S : IsFiniteSet(S) => Total([x \in S |-> 0], S) = 0
<1>. SUFFICES ASSUME NEW S, IsFiniteSet(S) PROVE Total([x \in S |-> 0], S) = 0
  OBVIOUS
<1>. DEFINE f == [x \in S |-> 0]
<1>1. (\A x \in S : f[x] \in Int) /\ (\A x \in S \ {} : f[x] = 0) /\ {} \in SUBSET S
  OBVIOUS
<1>. HIDE DEF f
<1>2. Total(f, S) = Total(f, {})
  BY <1>1, TotalPart
<1>3. Total(f, S) = 0
  BY <1>2, TotalEmpty
<1>. QED
  BY <1>3 DEF f

(* A total of whole paise is whole paise.                                  *)
LEMMA TotalPaise ==
    ASSUME NEW f, NEW S, IsFiniteSet(S), \A x \in S : f[x] \in Int /\ f[x] % Paisa = 0
    PROVE  Total(f, S) \in Int /\ Total(f, S) % Paisa = 0
<1>. DEFINE z == [x \in S |-> 0]
            g == [x \in S |-> f[x] \div Paisa]
<1>1. \A x \in S : z[x] = 0 /\ g[x] \in Int /\ f[x] = z[x] + Paisa * g[x]
  BY DEF Paisa
<1>2. Total(z, S) = 0
  BY TotalZero
<1>. HIDE DEF z, g
<1>3. Total(f, S) = Total(z, S) + Paisa * Total(g, S)
  <2>1. Paisa \in Int
    BY DEF Paisa
  <2>2. \A x \in S : z[x] \in Int /\ g[x] \in Int /\ f[x] = z[x] + Paisa * g[x]
    BY <1>1
  <2>. QED
    BY <2>1, <2>2, TotalPlus, SMTT(60)
<1>4. Total(g, S) \in Int
  BY <1>1, TotalType
<1>. QED
  BY <1>2, <1>3, <1>4 DEF Paisa

(* A quantity of a price is a natural number, grows with the price, and is *)
(* whole paise when the price is.                                          *)
LEMMA Times ==
    ASSUME NEW p \in Nat, NEW l \in Nat, NEW q \in Nat
    PROVE  /\ p * q \in Nat
           /\ p <= l => p * q <= l * q
           /\ p % Paisa = 0 => (p * q) % Paisa = 0
<1>1. p * q \in Nat
  OBVIOUS
<1>2. ASSUME p <= l PROVE p * q <= l * q
  BY <1>2
<1>3. ASSUME p % Paisa = 0 PROVE (p * q) % Paisa = 0
  <2>. DEFINE d == p \div Paisa
  <2>1. d \in Nat /\ p = 100 * d
    BY <1>3 DEF Paisa
  <2>. HIDE DEF d
  <2>2. d * q \in Nat /\ p * q = 100 * (d * q)
    BY <2>1
  <2>. QED
    BY <2>2 DEF Paisa
<1>. QED
  BY <1>1, <1>2, <1>3

(* An amount of whole paise.                                               *)
Whole(amount) == amount \in Nat /\ amount % Paisa = 0

(* A price is whole paise, and at most the list price.                     *)
LEMMA WholePaise ==
    ASSUME NEW i \in Items, NEW offers, NEW named \in BOOLEAN
    PROVE  Whole(SellPrice(i, offers, named)) /\ SellPrice(i, offers, named) <= Catalog[i].list
<1>0. Catalog[i].list \in Nat /\ Catalog[i].list % Paisa = 0
  BY CatalogAssumption
<1>1. CASE Winner(i, offers, named) = 0
  BY <1>0, <1>1 DEF SellPrice, Whole
<1>2. CASE Winner(i, offers, named) # 0
  BY <1>0, <1>2, WinnerIsLive, CampaignNeverRaises DEF SellPrice, Whole
<1>. QED
  BY <1>1, <1>2

(* The SKUs in a bag, one line each.                                       *)
InBag(b) == {j \in Items : b[j] > 0}

(* Some lines are those of a bag, at the prices that some live offers      *)
(* give.                                                                   *)
PricedAt(lines, b, offers) ==
    /\ DOMAIN lines = InBag(b)
    /\ \A i \in DOMAIN lines : lines[i].qty = b[i] /\ lines[i].price = Prices(offers)[i]

(* Pricing a bag gives such lines.                                         *)
LEMMA LinesOf == \A b, offers : PricedAt(Lines(b, Prices(offers)), b, offers)
<1>. SUFFICES ASSUME NEW b, NEW offers PROVE PricedAt(Lines(b, Prices(offers)), b, offers)
  OBVIOUS
<1>. DEFINE lines == Lines(b, Prices(offers))
<1>1. DOMAIN lines = InBag(b) /\ InBag(b) \subseteq Items
  BY DEF Lines, InBag
<1>2. \A i \in DOMAIN lines : lines[i] = CouponLine(i, Prices(offers)[i], b[i])
  BY <1>1 DEF Lines, InBag
<1>. HIDE DEF lines
<1>3. \A i \in DOMAIN lines : lines[i].qty = b[i] /\ lines[i].price = Prices(offers)[i]
  <2>. SUFFICES ASSUME NEW i \in DOMAIN lines, NEW price, price = Prices(offers)[i]
                PROVE  lines[i].qty = b[i] /\ lines[i].price = price
    OBVIOUS
  <2>1. lines[i] = CouponLine(i, price, b[i])
    BY <1>2
  <2>. QED
    BY <2>1 DEF CouponLine
<1>. QED
  BY <1>1, <1>3 DEF lines, PricedAt

(* What the lines of a bag cost, at what the campaigns of some offers make *)
(* of the list prices.                                                     *)
LEMMA SubtotalOf ==
    ASSUME NEW b \in Bags, NEW offers
    PROVE  LET sub == Subtotal(Lines(b, Prices(offers)))
               cat == CatalogSubtotal(b)
           IN  /\ sub \in Int /\ cat \in Int /\ sub <= cat
               /\ sub % Paisa = 0 /\ cat % Paisa = 0
<1>. DEFINE lines == Lines(b, Prices(offers))
            T == {j \in Items : b[j] > 0}
            f == [i \in DOMAIN lines |-> lines[i].price * lines[i].qty]
            p == [i \in Items |-> SellPrice(i, offers, TRUE) * b[i]]
            c == [i \in Items |-> Catalog[i].list * b[i]]
<1>1. DOMAIN lines = T /\ T \in SUBSET Items /\ IsFiniteSet(Items) /\ IsFiniteSet(T)
  BY CatalogAssumption, FS_Subset DEF Lines
<1>2. \A i \in Items : b[i] \in Nat
  BY DEF Bags
<1>3. ASSUME NEW i \in Items
      PROVE  /\ p[i] \in Int /\ c[i] \in Int /\ p[i] <= c[i]
             /\ p[i] % Paisa = 0 /\ c[i] % Paisa = 0
             /\ i \notin T => p[i] = 0
  <2>. DEFINE list == Catalog[i].list
              price == SellPrice(i, offers, TRUE)
              n == b[i]
  <2>1. list \in Nat /\ list % Paisa = 0 /\ n \in Nat
    BY <1>2, CatalogAssumption
  <2>2. price \in Nat /\ price <= list /\ price % Paisa = 0
    <3>1. Whole(price) /\ price <= list
      BY WholePaise
    <3>. QED
      BY <3>1 DEF Whole
  <2>3. p[i] = price * n /\ c[i] = list * n /\ (i \notin T => n = 0)
    BY <1>2
  <2>. HIDE DEF list, price, n
  <2>4. /\ price * n \in Nat /\ list * n \in Nat /\ price * n <= list * n
        /\ (price * n) % Paisa = 0 /\ (list * n) % Paisa = 0
    BY <2>1, <2>2, Times
  <2>5. n = 0 => price * n = 0
    BY <2>2
  <2>. HIDE DEF p, c, T
  <2>. QED
    BY <2>3, <2>4, <2>5
<1>4. \A i \in T : f[i] = p[i]
  BY <1>1 DEF Lines, CouponLine, Prices
<1>5. Subtotal(lines) = Total(f, T) /\ CatalogSubtotal(b) = Total(c, Items)
  BY <1>1 DEF Subtotal, CatalogSubtotal
<1>. HIDE DEF lines, T, f, p, c
<1>6. Total(f, T) = Total(p, T)
  BY <1>1, <1>3, <1>4, TotalSame
<1>7. Total(p, Items) = Total(p, T)
  BY <1>1, <1>3, TotalPart
<1>8. Total(p, Items) <= Total(c, Items)
  BY <1>1, <1>3, TotalMonotone
<1>9. /\ Total(p, Items) \in Int /\ Total(p, Items) % Paisa = 0
      /\ Total(c, Items) \in Int /\ Total(c, Items) % Paisa = 0
  BY <1>1, <1>3, TotalPaise
<1>. QED
  BY <1>5, <1>6, <1>7, <1>8, <1>9 DEF lines

(* The quote's lines are those of a bag, at prices that were live when it  *)
(* was priced; and it names a coupon exactly when that takes something     *)
(* off.                                                                    *)
QuoteIsPriced ==
    stage \in {"priced", "couponed", "totalled"} =>
        \E b \in Bags, offers \in SUBSET OfferIds :
            /\ quote.lines = Lines(b, Prices(offers))
            /\ offerChanges = 0 => offers = live

(* A quote names a coupon exactly when it takes something off.             *)
CouponIsNamed ==
    stage \in {"couponed", "totalled"} => (quote.couponDiscount > 0 <=> quote.coupon # None)

(* A quote has the fields of a quote.                                      *)
IsQuote(q) == q = [lines |-> q.lines, coupon |-> q.coupon, couponDiscount |-> q.couponDiscount,
                   promotion |-> q.promotion, promotionDiscount |-> q.promotionDiscount,
                   method |-> q.method]

(* The inductive invariant of OrderAddsUp: an order is built from the      *)
(* quote alone, so what must be kept on the way is where the quote comes   *)
(* from.                                                                   *)
OrderInv ==
    /\ bag \in Bags /\ live \in SUBSET OfferIds /\ offerChanges \in Nat
    /\ cartCoupon \in Coupons \cup {None} /\ typed \in Coupons \cup {None}
    /\ IsQuote(quote)
    /\ QuoteIsPriced /\ CouponIsNamed /\ OrderAddsUp

(* The order that such a quote becomes adds up.                            *)
LEMMA PlacedAddsUp == ASSUME OrderInv, PlaceOrder PROVE OrderAddsUp'
<1>1. PICK b \in Bags, offers \in SUBSET OfferIds :
        quote.lines = Lines(b, Prices(offers)) /\ (offerChanges = 0 => offers = live)
  BY DEF OrderInv, QuoteIsPriced, PlaceOrder
<1>. DEFINE lines == quote.lines
            sub == Subtotal(lines)
            cat == CatalogSubtotal(b)
<1>2. /\ DOMAIN lines = InBag(b)
      /\ \A i \in DOMAIN lines : lines[i].qty = b[i] /\ lines[i].price = Prices(offers)[i]
  <2>1. PricedAt(Lines(b, Prices(offers)), b, offers)
    BY LinesOf, Zenon
  <2>2. PricedAt(lines, b, offers)
    BY <1>1, <2>1
  <2>. QED
    BY <2>2 DEF PricedAt
<1>3. QuoteBag = b
  <2>1. b \in [Items -> Nat]
    BY DEF Bags
  <2>. HIDE DEF lines
  <2>2. \A i \in Items : QuoteBag[i] = b[i]
    <3>1. \A i \in Items : QuoteBag[i] = IF i \in DOMAIN lines THEN lines[i].qty ELSE 0
      BY DEF QuoteBag, lines
    <3>2. \A i \in Items : i \notin DOMAIN lines => b[i] = 0
      <4>1. \A i \in Items : b[i] \in Nat /\ (i \notin DOMAIN lines => ~(b[i] > 0))
        BY <1>2, <2>1 DEF InBag
      <4>. QED
        BY <4>1
    <3>. QED
      BY <1>2, <3>1, <3>2
  <2>3. QuoteBag = [i \in Items |-> QuoteBag[i]]
    BY DEF QuoteBag
  <2>. QED
    BY <2>1, <2>2, <2>3
<1>4. /\ order'.prices = BuiltPrices /\ order'.bag = b /\ order'.subtotal = sub
      /\ order'.saleDiscount = AtLeastZero(Round(cat - sub))
      /\ order'.couponDiscount = quote.couponDiscount /\ order'.coupon = quote.coupon
      /\ UNCHANGED <<live, quote, offerChanges>> /\ stage = "totalled"
  BY <1>3 DEF PlaceOrder
<1>5. order'.subtotal + order'.saleDiscount = CatalogSubtotal(order'.bag)
  <2>1. sub \in Int /\ cat \in Int /\ sub <= cat /\ sub % Paisa = 0 /\ cat % Paisa = 0
    BY <1>1, SubtotalOf
  <2>. HIDE DEF sub, cat
  <2>2. AtLeastZero(Round(cat - sub)) = cat - sub
    BY <2>1 DEF AtLeastZero, Round, Paisa
  <2>3. sub + AtLeastZero(Round(cat - sub)) = cat
    BY <2>1, <2>2
  <2>. QED
    BY <1>4, <2>3 DEF cat
<1>6. order'.couponDiscount > 0 <=> order'.coupon # None
  BY <1>4 DEF OrderInv, CouponIsNamed
<1>7. ASSUME offerChanges = 0
      PROVE  order'.subtotal
                = Total([i \in DOMAIN order'.prices |-> order'.prices[i] * order'.bag[i]],
                        DOMAIN order'.prices)
  <2>1. DOMAIN BuiltPrices = DOMAIN lines /\ \A i \in DOMAIN lines : BuiltPrices[i] = lines[i].price
    BY <1>1, <1>2, <1>7 DEF BuiltPrices, Prices, InBag
  <2>2. [i \in DOMAIN BuiltPrices |-> BuiltPrices[i] * b[i]]
          = [i \in DOMAIN lines |-> lines[i].price * lines[i].qty]
    BY <1>2, <2>1
  <2>. QED
    BY <1>4, <2>1, <2>2 DEF Subtotal
<1>. QED
  BY <1>4, <1>5, <1>6, <1>7 DEF OrderAddsUp

(* Before the first quote there is nothing to add up.                      *)
LEMMA OrderStarts == PricingInit => OrderInv
  BY DEF PricingInit, OrderInv, IsQuote, NoQuote, QuoteIsPriced, CouponIsNamed, OrderAddsUp

(* Every step of the checkout, and every change of the bag or of an offer, *)
(* keeps the quote one of a bag.                                           *)
LEMMA OrderStep == OrderInv /\ [PricingNext]_pricingVars => OrderInv'
<1>. SUFFICES ASSUME OrderInv, [PricingNext]_pricingVars PROVE OrderInv'
  OBVIOUS
<1>0. /\ bag \in Bags /\ live \in SUBSET OfferIds /\ offerChanges \in Nat
      /\ cartCoupon \in Coupons \cup {None} /\ typed \in Coupons \cup {None}
      /\ IsQuote(quote) /\ QuoteIsPriced /\ CouponIsNamed /\ OrderAddsUp
  BY DEF OrderInv
<1>1. ASSUME NEW o \in OfferIds, OfferChanges(o) PROVE OrderInv'
  <2>1. /\ UNCHANGED <<bag, cartCoupon, typed, stage, quote, order>>
        /\ offerChanges' = offerChanges + 1 /\ stage # "placed"
        /\ live' \in SUBSET OfferIds
    BY <1>0, <1>1 DEF OfferChanges
  <2>2. offerChanges' \in Nat /\ offerChanges' # 0
    BY <1>0, <2>1
  <2>3. QuoteIsPriced'
    <3>. SUFFICES ASSUME stage \in {"priced", "couponed", "totalled"}
                  PROVE  \E b \in Bags, offers \in SUBSET OfferIds :
                             quote.lines = Lines(b, Prices(offers))
      BY <2>1, <2>2 DEF QuoteIsPriced
    <3>. QED
      BY <1>0 DEF QuoteIsPriced
  <2>. QED
    BY <1>0, <2>1, <2>2, <2>3 DEF OrderInv, CouponIsNamed, OrderAddsUp
<1>2. ASSUME NEW i \in Items, NEW n \in 0 .. MaxUnits, BagChanges(i, n) PROVE OrderInv'
  BY <1>0, <1>2 DEF BagChanges, OrderInv, QuoteIsPriced, CouponIsNamed, OrderAddsUp
<1>3. CASE \/ HydrateCart \/ PreviewBuyNow \/ Revalidate
           \/ RefuseEmptyCart \/ RefusePrices \/ RefuseCode
  <2>1. /\ stage' \in {"shown", "checked", "refused"}
        /\ UNCHANGED <<bag, live, typed, quote, offerChanges>>
        /\ cartCoupon' \in {cartCoupon, None}
    BY <1>3 DEF HydrateCart, PreviewBuyNow, Revalidate, RefuseEmptyCart, RefusePrices, RefuseCode,
                Refuse
  <2>. QED
    BY <1>0, <2>1 DEF OrderInv, QuoteIsPriced, CouponIsNamed, OrderAddsUp
<1>4. CASE PriceCart \/ PriceBuyNow
  <2>1. /\ stage' = "priced" /\ UNCHANGED <<bag, live, typed, cartCoupon, offerChanges>>
        /\ quote' = [quote EXCEPT !.lines = Lines(bag, Prices(live))]
    BY <1>4 DEF PriceCart, PriceBuyNow
  <2>2. IsQuote(quote') /\ quote'.lines = Lines(bag, Prices(live))
    BY <1>0, <2>1 DEF IsQuote
  <2>3. Lines(bag, Prices(live))' = Lines(bag, Prices(live))
    BY <2>1
  <2>4. QuoteIsPriced'
    BY <1>0, <2>1, <2>2, <2>3 DEF QuoteIsPriced
  <2>. QED
    BY <1>0, <2>1, <2>2, <2>4 DEF OrderInv, CouponIsNamed, OrderAddsUp
<1>5. CASE EvaluateCoupon
  <2>. DEFINE c == IF typed # None THEN typed ELSE cartCoupon
              off == IF typed # None THEN TypedValue ELSE CartCouponValue
  <2>1. /\ stage = "priced" /\ stage' = "couponed"
        /\ UNCHANGED <<bag, live, typed, cartCoupon, offerChanges>>
        /\ quote' = [quote EXCEPT !.couponDiscount = off, !.coupon = IF off > 0 THEN c.id ELSE None]
    BY <1>5 DEF EvaluateCoupon
  <2>2. off > 0 => c.id # None
    <3>1. CASE typed # None
      BY <1>0, <3>1, OfferAssumption
    <3>2. CASE typed = None
      <4>1. CartCouponValue > 0 => cartCoupon # None
        BY DEF CartCouponValue
      <4>. QED
        BY <1>0, <3>2, <4>1, OfferAssumption
    <3>. QED
      BY <3>1, <3>2
  <2>. HIDE DEF c, off
  <2>3. /\ IsQuote(quote') /\ quote'.lines = quote.lines /\ quote'.couponDiscount = off
        /\ quote'.coupon = IF off > 0 THEN c.id ELSE None
    BY <1>0, <2>1 DEF IsQuote
  <2>4. QuoteIsPriced'
    BY <1>0, <2>1, <2>3 DEF QuoteIsPriced
  <2>. QED
    BY <1>0, <2>1, <2>2, <2>3, <2>4 DEF OrderInv, CouponIsNamed, OrderAddsUp
<1>6. ASSUME NEW method, ResolvePromotion(method) PROVE OrderInv'
  <2>1. PICK promo, less :
        /\ stage = "couponed" /\ stage' = "totalled"
        /\ UNCHANGED <<bag, live, typed, cartCoupon, offerChanges>>
        /\ quote' = [quote EXCEPT !.promotion = promo, !.promotionDiscount = less,
                                  !.method = method]
    BY <1>6, Zenon DEF ResolvePromotion
  <2>2. /\ IsQuote(quote') /\ quote'.lines = quote.lines /\ quote'.coupon = quote.coupon
        /\ quote'.couponDiscount = quote.couponDiscount
    BY <1>0, <2>1 DEF IsQuote
  <2>3. QuoteIsPriced'
    BY <1>0, <2>1, <2>2 DEF QuoteIsPriced
  <2>. QED
    BY <1>0, <2>1, <2>2, <2>3 DEF OrderInv, CouponIsNamed, OrderAddsUp
<1>7. CASE PlaceOrder
  <2>1. stage' = "placed" /\ UNCHANGED <<bag, live, typed, cartCoupon, quote, offerChanges>>
    BY <1>7 DEF PlaceOrder
  <2>2. OrderAddsUp'
    BY <1>7, PlacedAddsUp
  <2>. QED
    BY <1>0, <2>1, <2>2 DEF OrderInv, QuoteIsPriced, CouponIsNamed
<1>8. CASE UNCHANGED pricingVars
  BY <1>0, <1>8 DEF pricingVars, OrderInv, QuoteIsPriced, CouponIsNamed, OrderAddsUp
<1>. QED
  BY <1>1, <1>2, <1>3, <1>4, <1>5, <1>6, <1>7, <1>8 DEF PricingNext

(* The parts of an order agree, for any shop, offers and customers: its    *)
(* amounts come from a quote, and the quote's lines are those of one bag.  *)
THEOREM OrderSums == PricingSpec => []OrderAddsUp
<1>1. OrderInv => OrderAddsUp
  BY DEF OrderInv
<1>. QED
  BY <1>1, OrderStarts, OrderStep, PTL DEF PricingSpec

-----------------------------------------------------------------------------
(* Hints of coupons are kept                                               *)

(* Looking up the names of its categories changes nothing else of a        *)
(* coupon.                                                                 *)
LEMMA CouponFields ==
    ASSUME NEW d \in Coupons
    PROVE  LET c == WithNames(d) IN
           /\ c.id = d.id /\ c.kind = d.kind /\ c.scope = d.scope
           /\ c.value = d.value /\ c.minOrder = d.minOrder
<1>1. DOMAIN d = {"id", "scope", "ids", "names", "kind", "value", "cap", "minOrder"}
  BY OfferAssumption
<1>2. WithNames(d) = d \/ \E names : WithNames(d) = [d EXCEPT !.names = names]
  BY Zenon DEF WithNames
<1>. QED
  BY <1>1, <1>2

(* Which offers a line fits does not depend on its price and quantity.     *)
LEMMA FitsOf == \A c, i, price, qty : LineMatches(c, CouponLine(i, price, qty)) <=> Fits(c, i)
  BY DEF LineMatches, CouponLine, Fits

(* What the fitting units of a bag are worth, at so much a unit.           *)
Worth(c, each, b) == Total([j \in Items |-> IF Fits(c, j) THEN each[j] * b[j] ELSE 0], Items)

(* The lines a coupon is for are those of the SKUs it fits.                *)
LEMMA EligibleIs ==
    ASSUME NEW c, NEW b, NEW offers
    PROVE  Eligible(c, Lines(b, Prices(offers))) = {j \in InBag(b) : Fits(c, j)}
<1>. DEFINE lines == Lines(b, Prices(offers))
<1>1. DOMAIN lines = InBag(b) /\ InBag(b) \subseteq Items
  BY DEF Lines, InBag
<1>2. \A j \in DOMAIN lines : lines[j] = CouponLine(j, Prices(offers)[j], b[j])
  BY <1>1 DEF Lines, InBag
<1>. HIDE DEF lines
<1>3. \A j \in DOMAIN lines : LineMatches(c, lines[j]) <=> Fits(c, j)
  BY <1>2, FitsOf
<1>4. Eligible(c, lines) = {j \in InBag(b) : Fits(c, j)}
  BY <1>1, <1>3 DEF Eligible
<1>. QED
  BY <1>4 DEF lines

(* So a total over the eligible lines is what the fitting units are worth. *)
LEMMA WorthIs ==
    ASSUME NEW c, NEW b \in [Items -> Nat], NEW each \in [Items -> Nat], NEW f,
           \A j \in InBag(b) : f[j] = each[j] * b[j]
    PROVE  Total(f, {j \in InBag(b) : Fits(c, j)}) = Worth(c, each, b)
<1>. DEFINE E == {j \in InBag(b) : Fits(c, j)}
            v == [j \in Items |-> IF Fits(c, j) THEN each[j] * b[j] ELSE 0]
<1>1. E \in SUBSET Items /\ IsFiniteSet(Items) /\ IsFiniteSet(E)
  BY CatalogAssumption, FS_Subset DEF InBag
<1>2. ASSUME NEW j \in Items PROVE v[j] \in Int /\ (j \notin E => v[j] = 0)
  <2>1. each[j] \in Nat /\ b[j] \in Nat /\ (b[j] > 0 \/ b[j] = 0)
    OBVIOUS
  <2>2. each[j] * b[j] \in Nat /\ (b[j] = 0 => each[j] * b[j] = 0)
    BY <2>1
  <2>3. CASE Fits(c, j)
    BY <2>1, <2>2, <2>3 DEF InBag
  <2>4. CASE ~Fits(c, j)
    BY <2>4
  <2>. QED
    BY <2>3, <2>4
<1>3. \A j \in E : f[j] = v[j]
  BY <1>1
<1>4. Worth(c, each, b) = Total(v, Items)
  BY DEF Worth
<1>. HIDE DEF E, v
<1>5. Total(f, E) = Total(v, E)
  BY <1>1, <1>2, <1>3, TotalSame
<1>6. Total(v, Items) = Total(v, E)
  BY <1>1, <1>2, TotalPart
<1>. QED
  BY <1>4, <1>5, <1>6 DEF E

(* What they are worth grows by the value of each unit added.              *)
LEMMA WorthGrows ==
    ASSUME NEW c, NEW b \in [Items -> Nat], NEW each \in [Items -> Nat], NEW i \in Items,
           NEW n \in Nat, Fits(c, i)
    PROVE  /\ Worth(c, each, b) \in Nat
           /\ Worth(c, each, Add(b, i, n)) = Worth(c, each, b) + each[i] * n
<1>. DEFINE v == [j \in Items |-> IF Fits(c, j) THEN each[j] * b[j] ELSE 0]
            w == [j \in Items |-> IF Fits(c, j) THEN each[j] * Add(b, i, n)[j] ELSE 0]
            z == [j \in Items |-> 0]
<1>1. IsFiniteSet(Items)
  BY CatalogAssumption
<1>2. \A j \in Items : z[j] = 0
  OBVIOUS
<1>3. ASSUME NEW j \in Items PROVE v[j] \in Nat
  <2>1. each[j] \in Nat /\ b[j] \in Nat
    OBVIOUS
  <2>2. each[j] * b[j] \in Nat
    BY <2>1
  <2>. QED
    BY <2>2
<1>4. w[i] = v[i] + each[i] * n /\ v[i] \in Nat /\ each[i] * n \in Nat
  <2>1. each[i] \in Nat /\ b[i] \in Nat
    OBVIOUS
  <2>2. Add(b, i, n)[i] = b[i] + n
    BY DEF Add
  <2>3. each[i] * (b[i] + n) = each[i] * b[i] + each[i] * n /\ each[i] * b[i] \in Nat
        /\ each[i] * n \in Nat
    BY <2>1
  <2>. QED
    BY <2>2, <2>3
<1>5. \A j \in Items \ {i} : w[j] = v[j]
  BY DEF Add
<1>6. Worth(c, each, b) = Total(v, Items) /\ Worth(c, each, Add(b, i, n)) = Total(w, Items)
  BY DEF Worth
<1>7. Total(z, Items) = 0
  BY <1>1, TotalZero
<1>. HIDE DEF v, w, z
<1>8. Total(w, Items) = Total(v, Items) + (w[i] - v[i])
  BY <1>1, <1>3, <1>4, <1>5, TotalMoves
<1>9. Total(v, Items) \in Nat
  <2>1. Total(v, Items) \in Int
    BY <1>1, <1>3, TotalType
  <2>2. Total(z, Items) <= Total(v, Items)
    BY <1>1, <1>2, <1>3, TotalMonotone
  <2>. QED
    BY <1>7, <2>1, <2>2
<1>. QED
  BY <1>4, <1>6, <1>8, <1>9

(* What a fixed price per unit takes off: what the units in scope cost     *)
(* above it.                                                               *)
PerUnit(c, lines) ==
    Total([i \in DOMAIN lines |-> AtLeastZero(lines[i].price - c.value) * lines[i].qty],
          Eligible(c, lines))

(* What a coupon's rules compare, of any bag at any live prices.           *)
LEMMA CouponSums ==
    ASSUME NEW c, c.value \in Nat, NEW b \in [Items -> Nat], NEW offers
    PROVE  LET lines == Lines(b, Prices(offers)) IN
           /\ EligibleSubtotal(c, lines) = Worth(c, Prices(offers), b)
           /\ PerUnit(c, lines)
                = Worth(c, [i \in Items |-> AtLeastZero(Prices(offers)[i] - c.value)], b)
<1>. DEFINE lines == Lines(b, Prices(offers))
            f == [i \in DOMAIN lines |-> lines[i].price * lines[i].qty]
            g == [i \in DOMAIN lines |-> AtLeastZero(lines[i].price - c.value) * lines[i].qty]
            above == [i \in Items |-> AtLeastZero(Prices(offers)[i] - c.value)]
<1>1. PricedAt(lines, b, offers)
  BY LinesOf, Zenon
<1>2. InBag(b) \subseteq Items
  BY DEF InBag
<1>3. Prices(offers) \in [Items -> Nat]
  BY WholePaise DEF Prices, Whole
<1>4. above \in [Items -> Nat]
  <2>1. \A i \in Items : AtLeastZero(Prices(offers)[i] - c.value) \in Nat
    BY <1>3 DEF AtLeastZero
  <2>. QED
    BY <2>1
<1>5. Eligible(c, lines) = {j \in InBag(b) : Fits(c, j)}
  BY EligibleIs
<1>. HIDE DEF lines
<1>6. \A j \in InBag(b) : f[j] = Prices(offers)[j] * b[j]
  BY <1>1 DEF PricedAt
<1>7. \A j \in InBag(b) : g[j] = above[j] * b[j]
  BY <1>1, <1>2 DEF PricedAt
<1>8. EligibleSubtotal(c, lines) = Total(f, Eligible(c, lines))
  BY DEF EligibleSubtotal
<1>. HIDE DEF f, g, above
<1>9. Total(f, Eligible(c, lines)) = Worth(c, Prices(offers), b)
  BY <1>3, <1>5, <1>6, WorthIs
<1>10. Total(g, Eligible(c, lines)) = Worth(c, above, b)
  BY <1>4, <1>5, <1>7, WorthIs
<1>. QED
  BY <1>8, <1>9, <1>10 DEF lines, g, above, PerUnit

(* More of a SKU that fits: the eligible subtotal grows by its price, and  *)
(* what a fixed price per unit takes off by what the price is above it.    *)
LEMMA MoreOfIt ==
    ASSUME NEW c, c.value \in Nat, NEW b \in [Items -> Nat], NEW offers, NEW i \in Items,
           NEW n \in Nat, Fits(c, i)
    PROVE  LET lines == Lines(b, Prices(offers))
               more  == Lines(Add(b, i, n), Prices(offers))
               perUnit == PerUnit(c, more)
               above == AtLeastZero(Prices(offers)[i] - c.value)
           IN  /\ EligibleSubtotal(c, lines) \in Nat
               /\ EligibleSubtotal(c, more) = EligibleSubtotal(c, lines) + Prices(offers)[i] * n
               /\ Prices(offers)[i] \in Nat
               /\ perUnit \in Nat /\ above \in Nat /\ above * n <= perUnit
               /\ n > 0 => i \in Eligible(c, more)
<1>. DEFINE more == Lines(Add(b, i, n), Prices(offers))
            each == [j \in Items |-> AtLeastZero(Prices(offers)[j] - c.value)]
            perUnit == PerUnit(c, more)
<1>1. Add(b, i, n) \in [Items -> Nat] /\ Add(b, i, n)[i] = b[i] + n /\ b[i] \in Nat
  BY DEF Add
<1>2. Prices(offers) \in [Items -> Nat]
  BY WholePaise DEF Prices, Whole
<1>3. each \in [Items -> Nat]
  <2>1. \A j \in Items : AtLeastZero(Prices(offers)[j] - c.value) \in Nat
    BY <1>2 DEF AtLeastZero
  <2>. QED
    BY <2>1
<1>4. each[i] = AtLeastZero(Prices(offers)[i] - c.value)
  OBVIOUS
<1>5. /\ EligibleSubtotal(c, Lines(b, Prices(offers))) = Worth(c, Prices(offers), b)
      /\ EligibleSubtotal(c, more) = Worth(c, Prices(offers), Add(b, i, n))
      /\ perUnit = Worth(c, each, Add(b, i, n))
  BY <1>1, CouponSums
<1>. HIDE DEF each, perUnit
<1>6. /\ Worth(c, Prices(offers), b) \in Nat
      /\ Worth(c, Prices(offers), Add(b, i, n))
            = Worth(c, Prices(offers), b) + Prices(offers)[i] * n
  BY <1>2, WorthGrows
<1>7. /\ Worth(c, each, b) \in Nat
      /\ Worth(c, each, Add(b, i, n)) = Worth(c, each, b) + each[i] * n
  BY <1>3, WorthGrows
<1>8. each[i] \in Nat /\ each[i] * n \in Nat
  BY <1>3
<1>9. perUnit \in Nat /\ each[i] * n <= perUnit
  BY <1>5, <1>7, <1>8
<1>10. Eligible(c, more) = {j \in InBag(Add(b, i, n)) : Fits(c, j)}
  BY EligibleIs
<1>11. n > 0 => i \in Eligible(c, more)
  BY <1>1, <1>10 DEF InBag
<1>12. Prices(offers)[i] \in Nat
  BY <1>2
<1>. HIDE DEF more
<1>. QED
  BY <1>4, <1>5, <1>6, <1>8, <1>9, <1>11, <1>12 DEF more, perUnit

(* The verdicts a hint is about, and what refuses them.                    *)
LEMMA Verdicts ==
    ASSUME NEW c, NEW offers, NEW lines
    PROVE  LET v == CouponVerdict(c, offers, lines)
               base == EligibleSubtotal(c, lines)
           IN  /\ v = "min_order" => base < c.minOrder
               /\ v = "scope_mismatch" => c.scope # "all" /\ Eligible(c, lines) = {}
               /\ v = "price_floor" => /\ c.id \in offers /\ c.kind = "fixed"
                                       /\ ~(base < c.minOrder)
               /\ c.id \in offers /\ Eligible(c, lines) # {} /\ ~(base < c.minOrder)
                    /\ CouponDiscount(c, base, lines) > 0 => v = "valid"
  BY DEF CouponVerdict

(* The hints there are: what each one asks for, and the verdict it         *)
(* answers.                                                                *)
LEMMA Hints ==
    ASSUME NEW c, NEW offers, NEW lines
    PROVE  LET v == CouponVerdict(c, offers, lines)
               h == CouponHint(c, offers, lines)
               gap == c.minOrder - EligibleSubtotal(c, lines)
           IN  /\ h.add = "rupees" =>
                     v = "min_order" /\ h.amount = ((gap + Rupee - 1) \div Rupee) * Rupee
               /\ h.add = "scope" => v = "scope_mismatch"
               /\ h.add = "above" => v = "price_floor" /\ h.amount = c.value
  BY DEF CouponHint

(* Rounding up to whole rupees leaves nothing missing.                     *)
LEMMA RupeesCover == \A gap \in Int : ((gap + Rupee - 1) \div Rupee) * Rupee >= gap
  BY DEF Rupee, Paisa

(* Adding n of a SKU that fits, as the hint of a refused coupon asks,      *)
(* lifts the refusal; after a hint about the price floor the coupon is     *)
(* valid.                                                                  *)
LEMMA HintKept ==
    ASSUME NEW d \in Coupons, NEW c, c = WithNames(d), NEW b \in [Items -> Nat], NEW offers,
           NEW i \in Items, NEW n \in Nat \ {0}, Fits(c, i)
    PROVE  LET h == CouponHint(c, offers, Lines(b, Prices(offers)))
               then == CouponVerdict(c, offers, Lines(Add(b, i, n), Prices(offers)))
           IN  /\ h.add = "rupees" /\ Prices(offers)[i] * n >= h.amount => then # "min_order"
               /\ h.add = "scope" => then # "scope_mismatch"
               /\ h.add = "above" /\ Prices(offers)[i] > h.amount => then = "valid"
<1>. DEFINE lines == Lines(b, Prices(offers))
            more == Lines(Add(b, i, n), Prices(offers))
            base == EligibleSubtotal(c, lines)
            then == CouponVerdict(c, offers, more)
            h == CouponHint(c, offers, lines)
            price == Prices(offers)[i]
            above == AtLeastZero(price - c.value)
            perUnit == PerUnit(c, more)
<1>1. c.value \in Nat /\ c.minOrder \in Int
  BY CouponFields, OfferAssumption
<1>2. /\ base \in Nat /\ EligibleSubtotal(c, more) = base + price * n /\ price \in Nat
      /\ perUnit \in Nat /\ above \in Nat /\ above * n <= perUnit /\ i \in Eligible(c, more)
  <2>1. n \in Nat /\ n > 0
    OBVIOUS
  <2>2. /\ base \in Nat /\ EligibleSubtotal(c, more) = base + price * n /\ price \in Nat
        /\ perUnit \in Nat /\ above \in Nat /\ above * n <= perUnit
        /\ n > 0 => i \in Eligible(c, more)
    BY <1>1, <2>1, MoreOfIt
  <2>. HIDE DEF base, price, perUnit, above, more
  <2>. QED
    BY <2>1, <2>2
<1>3. price * n \in Nat /\ price <= price * n
  <2>. HIDE DEF price
  <2>. QED
    BY <1>2
<1>4. ASSUME h.add = "rupees", price * n >= h.amount PROVE then # "min_order"
  <2>. DEFINE gap == c.minOrder - base
  <2>1. h.amount = ((gap + Rupee - 1) \div Rupee) * Rupee
    BY <1>4, Hints
  <2>2. gap \in Int /\ h.amount >= gap /\ h.amount \in Int
    <3>1. gap \in Int
      BY <1>1, <1>2
    <3>. HIDE DEF gap, h
    <3>2. ((gap + Rupee - 1) \div Rupee) * Rupee \in Int
      BY <3>1 DEF Rupee, Paisa
    <3>. QED
      BY <2>1, <3>1, <3>2, RupeesCover
  <2>3. ~(EligibleSubtotal(c, more) < c.minOrder)
    <3>. HIDE DEF h, price, base
    <3>. QED
      BY <1>1, <1>2, <1>3, <1>4, <2>2 DEF gap
  <2>. QED
    BY <2>3, Verdicts
<1>5. ASSUME h.add = "scope" PROVE then # "scope_mismatch"
  BY <1>2, Verdicts
<1>6. ASSUME h.add = "above", price > h.amount PROVE then = "valid"
  <2>1. /\ c.id \in offers /\ c.kind = "fixed" /\ ~(base < c.minOrder) /\ price > c.value
    BY <1>6, Hints, Verdicts
  <2>2. ~(EligibleSubtotal(c, more) < c.minOrder)
    <3>. HIDE DEF price, base
    <3>. QED
      BY <1>1, <1>2, <1>3, <2>1
  <2>. DEFINE baseThen == EligibleSubtotal(c, more)
  <2>3. /\ baseThen \in Nat /\ baseThen >= price /\ price - c.value > 0
        /\ above = price - c.value
    <3>. HIDE DEF price, base, baseThen
    <3>1. baseThen = base + price * n
      BY <1>2 DEF baseThen
    <3>. QED
      BY <1>1, <1>2, <1>3, <2>1, <3>1 DEF AtLeastZero
  <2>4. above * n > 0
    <3>. HIDE DEF above, price
    <3>. QED
      BY <1>1, <1>2, <2>3
  <2>5. CouponDiscount(c, baseThen, more) > 0
    <3>1. CASE c.scope = "all"
      <4>1. CouponDiscount(c, baseThen, more) = Lesser(baseThen, AtLeastZero(baseThen - c.value))
        BY <2>1, <3>1 DEF CouponDiscount
      <4>. HIDE DEF baseThen, price
      <4>. QED
        BY <1>1, <1>2, <2>1, <2>3, <4>1 DEF Lesser, AtLeastZero
    <3>2. CASE c.scope # "all"
      <4>1. CouponDiscount(c, baseThen, more) = Lesser(baseThen, perUnit)
        BY <2>1, <3>2 DEF CouponDiscount, PerUnit
      <4>. HIDE DEF baseThen, price, above, perUnit
      <4>. QED
        BY <1>1, <1>2, <2>1, <2>3, <2>4, <4>1 DEF Lesser
    <3>. QED
      BY <3>1, <3>2
  <2>6. Eligible(c, more) # {}
    BY <1>2
  <2>. QED
    BY <2>1, <2>2, <2>5, <2>6, Verdicts
<1>. QED
  BY <1>4, <1>5, <1>6

(* Who follows a coupon's hint meets the condition the coupon was refused  *)
(* for: with any bag, whichever offers are live, and for any SKU that      *)
(* fits.                                                                   *)
THEOREM CouponHintsKept == PricingSpec => []CouponHintUnlocks
<1>1. ASSUME OrderInv PROVE CouponHintUnlocks
  <2>1. bag \in [Items -> Nat]
    BY <1>1 DEF OrderInv, Bags
  <2>. SUFFICES ASSUME NEW d \in Coupons, NEW c, c = WithNames(d), NEW i \in Items, Fits(c, i),
                       NEW n \in 1 .. MaxUnits
                PROVE  LET h == CouponHint(c, live, Lines(bag, Prices(live)))
                           then == CouponVerdict(c, live, Lines(Add(bag, i, n), Prices(live)))
                       IN  /\ h.add = "rupees" /\ Prices(live)[i] * n >= h.amount
                                => then # "min_order"
                           /\ h.add = "scope" => then # "scope_mismatch"
                           /\ h.add = "above" /\ Prices(live)[i] > h.amount => then = "valid"
    BY Zenon DEF CouponHintUnlocks
  <2>2. n \in Nat \ {0}
    OBVIOUS
  <2>. QED
    BY <2>1, <2>2, HintKept
<1>. QED
  BY <1>1, OrderStarts, OrderStep, PTL DEF PricingSpec

-----------------------------------------------------------------------------
(* The best promotion                                                      *)

(* One offer goes before another: it takes off more, or as much with a     *)
(* higher priority.                                                        *)
Beats(off, pr, k, l) == \/ off[k] > off[l]
                        \/ off[k] = off[l] /\ pr[k] > pr[l]

(* Of a non-empty finite set of numbered offers one comes first: by what   *)
(* it takes off, then by priority, then by its number.                     *)
LEMMA FirstOf ==
    ASSUME NEW S \in SUBSET Nat, IsFiniteSet(S), S # {}, NEW off, NEW pr,
           \A k \in S : off[k] \in Int /\ pr[k] \in Int
    PROVE  \E k \in S : \A l \in S \ {k} :
               Beats(off, pr, k, l) \/ (~Beats(off, pr, l, k) /\ k < l)
<1>. DEFINE First(s, k) == \A l \in s \ {k} :
                Beats(off, pr, k, l) \/ (~Beats(off, pr, l, k) /\ k < l)
            P == {s \in SUBSET S : s = {} \/ \E k \in s : First(s, k)}
<1>1. {} \in P
  OBVIOUS
<1>2. ASSUME NEW s \in SUBSET S, NEW x \in s, s \ {x} \in P PROVE s \in P
  <2>1. CASE s \ {x} = {}
    <3>1. First(s, x)
      BY <2>1
    <3>. QED
      BY <3>1
  <2>2. CASE s \ {x} # {}
    <3>1. PICK y \in s \ {x} : First(s \ {x}, y)
      BY <1>2, <2>2
    <3>2. \A l \in s : l \in Nat /\ off[l] \in Int /\ pr[l] \in Int
      OBVIOUS
    <3>3. First(s, x) \/ First(s, y)
      <4>1. ASSUME NEW l \in s \ {y}, l # x
            PROVE  Beats(off, pr, y, l) \/ (~Beats(off, pr, l, y) /\ y < l)
        BY <3>1, <4>1
      <4>2. CASE Beats(off, pr, y, x) \/ (~Beats(off, pr, x, y) /\ y < x)
        BY <4>1, <4>2
      <4>3. CASE ~(Beats(off, pr, y, x) \/ (~Beats(off, pr, x, y) /\ y < x))
        <5>1. Beats(off, pr, x, y) \/ (~Beats(off, pr, y, x) /\ x < y)
          BY <3>1, <3>2, <4>3 DEF Beats
        <5>2. ASSUME NEW l \in s \ {x}, l # y
              PROVE  Beats(off, pr, x, l) \/ (~Beats(off, pr, l, x) /\ x < l)
          <6>1. Beats(off, pr, y, l) \/ (~Beats(off, pr, l, y) /\ y < l)
            BY <4>1, <5>2
          <6>. QED
            BY <3>1, <3>2, <5>1, <6>1 DEF Beats
        <5>. QED
          BY <5>1, <5>2
      <4>. QED
        BY <4>2, <4>3
    <3>. QED
      BY <3>1, <3>3
  <2>. QED
    BY <2>1, <2>2
<1>. HIDE DEF P
<1>3. S \in P
  BY <1>1, <1>2, Grown
<1>. QED
  BY <1>3 DEF P

(* What a promotion without free units takes off a bag, as its terms say:  *)
(* a cap of whole paise may be applied before or after rounding.           *)
LEMMA CapRounds ==
    ASSUME NEW off \in Nat, NEW cap \in Nat, cap % Paisa = 0
    PROVE  /\ Round(off) \in Nat
           /\ Round(Lesser(off, cap)) = Lesser(cap, Round(off))
<1>1. Round(off) \in Nat /\ Round(cap) = cap
  BY DEF Round, Paisa
<1>2. CASE off <= cap
  <2>1. Round(off) <= cap
    BY <1>2, RoundBelow
  <2>. QED
    BY <1>1, <1>2, <2>1 DEF Lesser
<1>3. CASE ~(off <= cap)
  <2>1. Round(off) >= cap
    BY <1>3 DEF Round, Paisa
  <2>. QED
    BY <1>1, <1>3, <2>1 DEF Lesser
<1>. QED
  BY <1>2, <1>3

(* What a promotion looks at is numbers, and nothing is eligible without a *)
(* line.                                                                   *)
LEMMA EligibleSums ==
    ASSUME NEW p, NEW b \in [Items -> Nat], NEW offers
    PROVE  LET lines == Lines(b, Prices(offers)) IN
           /\ EligibleSubtotal(p, lines) \in Nat
           /\ Eligible(p, lines) = {} => EligibleQuantity(p, lines) = 0
           /\ EligibleQuantity(p, lines) \in Nat
<1>. DEFINE lines == Lines(b, Prices(offers))
            E == Eligible(p, lines)
            f == [i \in DOMAIN lines |-> lines[i].price * lines[i].qty]
            q == [i \in DOMAIN lines |-> lines[i].qty]
            z == [i \in E |-> 0]
<1>1. PricedAt(lines, b, offers) /\ Prices(offers) \in [Items -> Nat]
  <2>1. PricedAt(lines, b, offers)
    BY LinesOf, Zenon
  <2>. QED
    BY <2>1, WholePaise DEF Prices, Whole
<1>2. E \in SUBSET Items /\ IsFiniteSet(E) /\ E \subseteq DOMAIN lines
  <2>1. E \subseteq DOMAIN lines /\ DOMAIN lines \subseteq Items
    BY DEF Eligible, Lines
  <2>. QED
    BY <2>1, CatalogAssumption, FS_Subset
<1>3. EligibleSubtotal(p, lines) = Total(f, E) /\ EligibleQuantity(p, lines) = Total(q, E)
  BY DEF EligibleSubtotal, EligibleQuantity
<1>. HIDE DEF lines
<1>4. ASSUME NEW i \in E PROVE f[i] \in Nat /\ q[i] \in Nat /\ z[i] = 0
  <2>1. lines[i].qty = b[i] /\ lines[i].price = Prices(offers)[i] /\ i \in DOMAIN lines
    BY <1>1, <1>2 DEF PricedAt
  <2>2. b[i] \in Nat /\ Prices(offers)[i] \in Nat
    BY <1>1, <1>2
  <2>3. Prices(offers)[i] * b[i] \in Nat
    BY <2>2
  <2>. QED
    BY <2>1, <2>2, <2>3
<1>5. Total(z, E) = 0
  BY <1>2, TotalZero
<1>6. E = {} => Total(q, E) = 0
  BY TotalEmpty
<1>. HIDE DEF E, f, q, z
<1>7. Total(f, E) \in Int /\ Total(q, E) \in Int
  BY <1>2, <1>4, TotalType
<1>8. Total(z, E) <= Total(f, E) /\ Total(z, E) <= Total(q, E)
  BY <1>2, <1>4, TotalMonotone
<1>. QED
  BY <1>3, <1>5, <1>6, <1>7, <1>8 DEF lines, E

(* No promotion of the shop gives free units, and caps are whole paise.    *)
PlainPromotions == \A k \in DOMAIN Promotions :
                       Promotions[k].kind # "bogo" /\ Promotions[k].cap % Paisa = 0

(* Such a promotion takes off what its terms say, never less than nothing. *)
LEMMA TermsKept ==
    ASSUME PlainPromotions, NEW k \in DOMAIN Promotions, NEW b \in [Items -> Nat], NEW offers
    PROVE  LET p == Promotions[k]
               lines == Lines(b, Prices(offers))
           IN  /\ PromotionDiscount(p, lines) = ByItsTerms(p, lines)
               /\ PromotionDiscount(p, lines) \in Nat
<1>. DEFINE p == Promotions[k]
            lines == Lines(b, Prices(offers))
            base == EligibleSubtotal(p, lines)
            part == Percent(base, p.value)
<1>1. /\ p.kind \in {"flat", "percentage"} /\ p.cap % Paisa = 0
      /\ p.buy \in Nat \ {0} /\ p.value \in Nat /\ p.cap \in Nat /\ p.minOrder \in Nat
  BY OfferAssumption DEF PlainPromotions
<1>2. /\ base \in Nat
      /\ Eligible(p, lines) = {} => EligibleQuantity(p, lines) = 0
      /\ EligibleQuantity(p, lines) \in Int
  BY EligibleSums
<1>. HIDE DEF p, lines
<1>3. part \in Nat
  <2>1. base \div Paisa \in Nat
    BY <1>2 DEF Paisa
  <2>. DEFINE units == base \div Paisa
  <2>. HIDE DEF units, base
  <2>2. units * p.value \in Nat
    BY <1>1, <2>1 DEF units
  <2>. QED
    BY <2>2 DEF Percent, units
<1>4. /\ Round(part) \in Nat
      /\ Round(Lesser(part, p.cap)) = Lesser(p.cap, Round(part))
  <2>. HIDE DEF part
  <2>. QED
    BY <1>1, <1>3, CapRounds
<1>. DEFINE met == EligibleQuantity(p, lines) >= p.buy /\ base >= p.minOrder
<1>5. CASE ~met
  <2>1. PromotionDiscount(p, lines) = 0
    BY <1>1, <1>2, <1>5 DEF PromotionDiscount
  <2>2. ByItsTerms(p, lines) = 0
    BY <1>5 DEF ByItsTerms
  <2>. QED
    BY <2>1, <2>2 DEF p, lines
<1>6. CASE met
  <2>0. ~(\/ Eligible(p, lines) = {}
          \/ EligibleQuantity(p, lines) < p.buy
          \/ base < p.minOrder)
    BY <1>1, <1>2, <1>6
  <2>1. CASE p.kind = "flat"
    <3>1. PromotionDiscount(p, lines) = Lesser(p.value, base)
      BY <2>0, <2>1 DEF PromotionDiscount
    <3>2. ByItsTerms(p, lines) = Lesser(p.value, base)
      BY <1>6, <2>1 DEF ByItsTerms
    <3>. QED
      BY <1>1, <1>2, <3>1, <3>2 DEF Lesser, p, lines
  <2>2. CASE p.kind = "percentage"
    <3>1. PromotionDiscount(p, lines)
            = Lesser(Round(IF p.cap = 0 THEN part ELSE Lesser(part, p.cap)), base)
      BY <2>0, <2>2 DEF PromotionDiscount
    <3>2. ByItsTerms(p, lines)
            = Lesser(IF p.cap = 0 THEN Round(part) ELSE Lesser(p.cap, Round(part)), base)
      BY <1>1, <1>6, <2>2 DEF ByItsTerms
    <3>3. PromotionDiscount(p, lines) = ByItsTerms(p, lines)
      BY <1>4, <3>1, <3>2
    <3>. HIDE DEF part, base
    <3>4. ByItsTerms(p, lines) \in Nat
      BY <1>1, <1>2, <1>4, <3>2 DEF Lesser
    <3>. QED
      BY <3>3, <3>4 DEF p, lines
  <2>. QED
    BY <1>1, <2>1, <2>2
<1>. QED
  BY <1>5, <1>6

(* What the walk over the promotions ends with: the live promotion that    *)
(* takes off most, and of equals one of the highest priority.              *)
LEMMA BestIs ==
    ASSUME NEW lines, NEW offers,
           \A k \in DOMAIN Promotions : PromotionDiscount(Promotions[k], lines) \in Nat
    PROVE  LET best == PickBest(offers, lines)
               off == [k \in DOMAIN Promotions |-> PromotionDiscount(Promotions[k], lines)]
               giving == {k \in DOMAIN Promotions : Promotions[k].id \in offers /\ off[k] > 0}
           IN  /\ giving = {} => best = 0
               /\ giving # {} =>
                    /\ best \in giving
                    /\ \A l \in giving \ {best} :
                          \/ off[best] > off[l]
                          \/ off[best] = off[l]
                               /\ Promotions[best].priority >= Promotions[l].priority
<1>. DEFINE off == [k \in DOMAIN Promotions |-> PromotionDiscount(Promotions[k], lines)]
            pr == [k \in DOMAIN Promotions |-> Promotions[k].priority]
            giving == {k \in DOMAIN Promotions : Promotions[k].id \in offers /\ off[k] > 0}
            better(k, l) == \/ off[k] > off[l]
                            \/ off[k] = off[l] /\ Promotions[k].priority > Promotions[l].priority
            First(k) == \A l \in giving \ {k} : better(k, l) \/ (~better(l, k) /\ k < l)
            best == PickBest(offers, lines)
<1>1. best = IF giving = {} THEN 0 ELSE CHOOSE k \in giving : First(k)
  BY DEF PickBest
<1>2. ASSUME giving # {}
      PROVE  /\ best \in giving
             /\ \A l \in giving \ {best} : better(best, l) \/ (~better(l, best) /\ best < l)
  <2>1. giving \in SUBSET Nat /\ IsFiniteSet(giving) /\ giving \subseteq DOMAIN Promotions
    <3>1. giving \subseteq DOMAIN Promotions
      OBVIOUS
    <3>. HIDE DEF giving
    <3>. QED
      BY <3>1, OfferAssumption, FS_Subset
  <2>2. \A k \in DOMAIN Promotions : off[k] \in Int /\ pr[k] \in Int
    BY OfferAssumption
  <2>3. \A k, l \in giving : Beats(off, pr, k, l) <=> better(k, l)
    BY DEF Beats
  <2>. HIDE DEF giving, off, pr, best
  <2>4. \E k \in giving : \A l \in giving \ {k} :
            Beats(off, pr, k, l) \/ (~Beats(off, pr, l, k) /\ k < l)
    BY <1>2, <2>1, <2>2, FirstOf
  <2>5. \E k \in giving : First(k)
    BY <2>3, <2>4
  <2>6. (CHOOSE k \in giving : First(k)) \in giving /\ First(CHOOSE k \in giving : First(k))
    <3>. HIDE DEF First
    <3>. QED
      BY <2>5
  <2>7. best \in giving /\ First(best)
    BY <1>1, <1>2, <2>6
  <2>. QED
    BY <2>7
<1>3. ASSUME giving # {}, NEW l \in giving \ {best}
      PROVE  \/ off[best] > off[l]
             \/ off[best] = off[l] /\ Promotions[best].priority >= Promotions[l].priority
  <2>1. best \in DOMAIN Promotions /\ l \in DOMAIN Promotions
    BY <1>2, <1>3
  <2>2. /\ Promotions[best].priority \in Int /\ Promotions[l].priority \in Int
    BY <2>1, OfferAssumption
  <2>3. off[best] \in Int /\ off[l] \in Int
    BY <2>1
  <2>4. better(best, l) \/ (~better(l, best) /\ best < l)
    BY <1>2, <1>3
  <2>. HIDE DEF off, best
  <2>. QED
    BY <2>2, <2>3, <2>4
<1>. QED
  BY <1>1, <1>2, <1>3

(* What a shopper without a promotion is told.                             *)
HintNow == IF BestNow = 0 THEN PickHint(live, LinesNow) ELSE NoHint

(* The inductive invariant of BestPromotionApplied and HintUnlocks: until  *)
(* an offer or the bag changes, the promotion and the hint on the cart are *)
(* those that pricing finds.                                               *)
BestInv ==
    /\ bag \in Bags /\ live \in SUBSET OfferIds /\ offerChanges \in Nat /\ bagChanges \in Nat
    /\ stage = "shown" /\ offerChanges + bagChanges = 0 =>
         /\ shown.promotion = BestNow /\ shown.promotionDiscount = PromotionNow
         /\ shown.hint = HintNow

(* Such a cart has the best promotion.                                     *)
LEMMA BestFollows == PlainPromotions /\ BestInv => BestPromotionApplied
<1>. SUFFICES ASSUME PlainPromotions, BestInv, stage = "shown", offerChanges + bagChanges = 0
              PROVE  BestPromotionApplied
  BY DEF BestPromotionApplied
<1>. DEFINE lines == Lines(bag, Prices(live))
            off == [k \in DOMAIN Promotions |-> PromotionDiscount(Promotions[k], lines)]
            giving == {k \in DOMAIN Promotions : Promotions[k].id \in live /\ off[k] > 0}
            best == PickBest(live, lines)
            worth == [k \in DOMAIN Promotions |->
                         IF Promotions[k].id \in live THEN ByItsTerms(Promotions[k], lines) ELSE 0]
<1>1. bag \in [Items -> Nat]
  BY DEF BestInv, Bags
<1>2. \A k \in DOMAIN Promotions :
          off[k] = ByItsTerms(Promotions[k], lines) /\ off[k] \in Nat
  BY <1>1, TermsKept
<1>3. /\ shown.promotion = best
      /\ shown.promotionDiscount
            = IF best = 0 THEN 0 ELSE PromotionDiscount(Promotions[best], lines)
  BY DEF BestInv, BestNow, PromotionNow, LinesNow
<1>4. /\ giving = {} => best = 0
      /\ giving # {} =>
           /\ best \in giving
           /\ \A l \in giving \ {best} :
                 \/ off[best] > off[l]
                 \/ off[best] = off[l] /\ Promotions[best].priority >= Promotions[l].priority
  <2>1. \A k \in DOMAIN Promotions : PromotionDiscount(Promotions[k], lines) \in Nat
    BY <1>2
  <2>. HIDE DEF lines
  <2>. QED
    BY <2>1, BestIs
<1>5. \A k \in DOMAIN Promotions :
          worth[k] = (IF Promotions[k].id \in live THEN off[k] ELSE 0)
  BY <1>2
<1>6. \A k \in DOMAIN Promotions : k # 0 /\ Promotions[k].priority \in Int
  BY OfferAssumption
<1>7. \A k \in DOMAIN Promotions : off[k] = PromotionDiscount(Promotions[k], lines)
  OBVIOUS
<1>8. \A k : k \in giving <=> k \in DOMAIN Promotions /\ Promotions[k].id \in live /\ off[k] > 0
  OBVIOUS
<1>. HIDE DEF off, giving, best, worth, lines
<1>9. /\ \A k \in DOMAIN Promotions : worth[k] <= shown.promotionDiscount
      /\ shown.promotion # 0 =>
            /\ worth[shown.promotion] = shown.promotionDiscount
            /\ \A k \in DOMAIN Promotions :
                  worth[k] = shown.promotionDiscount
                    => Promotions[k].priority <= Promotions[shown.promotion].priority
  <2>1. CASE giving = {}
    <3>1. shown.promotion = 0 /\ shown.promotionDiscount = 0
      BY <1>3, <1>4, <2>1
    <3>2. \A k \in DOMAIN Promotions : worth[k] = 0
      BY <1>2, <1>5, <1>8, <2>1
    <3>. QED
      BY <3>1, <3>2
  <2>2. CASE giving # {}
    <3>1. best \in DOMAIN Promotions /\ Promotions[best].id \in live /\ off[best] > 0
      BY <1>4, <1>8, <2>2
    <3>2. shown.promotion = best /\ shown.promotionDiscount = off[best]
      BY <1>3, <1>6, <1>7, <3>1
    <3>3. worth[best] = off[best]
      BY <1>5, <3>1
    <3>4. ASSUME NEW k \in DOMAIN Promotions
          PROVE  /\ worth[k] <= off[best]
                 /\ worth[k] = off[best] => Promotions[k].priority <= Promotions[best].priority
      <4>0. off[k] \in Nat /\ off[best] \in Nat /\ Promotions[best].priority \in Int
            /\ Promotions[k].priority \in Int
        BY <1>2, <1>6, <3>1
      <4>1. CASE k \notin giving
        <5>1. worth[k] = 0
          BY <1>2, <1>5, <1>8, <4>1
        <5>. QED
          BY <3>1, <4>0, <5>1
      <4>2. CASE k \in giving /\ k # best
        <5>1. worth[k] = off[k]
          BY <1>5, <1>8, <4>2
        <5>2. \/ off[best] > off[k]
              \/ off[best] = off[k] /\ Promotions[best].priority >= Promotions[k].priority
          BY <1>4, <2>2, <4>2
        <5>. QED
          BY <4>0, <5>1, <5>2
      <4>3. CASE k = best
        BY <3>3, <4>0, <4>3
      <4>. QED
        BY <4>1, <4>2, <4>3
    <3>. QED
      BY <3>2, <3>3, <3>4
  <2>. QED
    BY <2>1, <2>2
<1>. QED
  BY <1>9 DEF BestPromotionApplied, worth, lines

(* Only showing a cart sets its promotion and hint, to what pricing finds. *)
LEMMA BestStep == BestInv /\ [PricingNext]_pricingVars => BestInv'
<1>. SUFFICES ASSUME BestInv, [PricingNext]_pricingVars PROVE BestInv'
  OBVIOUS
<1>0. bag \in Bags /\ live \in SUBSET OfferIds /\ offerChanges \in Nat /\ bagChanges \in Nat
  BY DEF BestInv
<1>1. ASSUME NEW o \in OfferIds, OfferChanges(o) PROVE BestInv'
  BY <1>0, <1>1 DEF OfferChanges, BestInv
<1>2. ASSUME NEW i \in Items, NEW n \in 0 .. MaxUnits, BagChanges(i, n) PROVE BestInv'
  BY <1>0, <1>2 DEF BagChanges, BestInv
<1>3. CASE HydrateCart \/ PreviewBuyNow
  <2>1. PICK c : shown' = HydratedCart(bag, live, c)
    BY <1>3 DEF HydrateCart, PreviewBuyNow
  <2>2. UNCHANGED <<bag, live, offerChanges, bagChanges>>
    BY <1>3 DEF HydrateCart, PreviewBuyNow
  <2>3. LinesNow' = LinesNow /\ BestNow' = BestNow /\ PromotionNow' = PromotionNow
        /\ HintNow' = HintNow
    BY <2>2 DEF LinesNow, BestNow, PromotionNow, HintNow
  <2>4. /\ shown'.promotion = BestNow /\ shown'.promotionDiscount = PromotionNow
        /\ shown'.hint = HintNow
    BY <2>1 DEF HydratedCart, LinesNow, BestNow, PromotionNow, HintNow
  <2>. QED
    BY <1>0, <2>2, <2>3, <2>4 DEF BestInv
<1>4. CASE \/ Revalidate \/ RefuseEmptyCart \/ RefusePrices \/ PriceCart \/ PriceBuyNow
           \/ EvaluateCoupon \/ RefuseCode \/ PlaceOrder
           \/ \E method \in {"cod", "razorpay"} : ResolvePromotion(method)
  <2>1. stage' # "shown" /\ UNCHANGED <<bag, live, offerChanges, bagChanges>>
    BY <1>4 DEF Revalidate, RefuseEmptyCart, RefusePrices, Refuse, PriceCart, PriceBuyNow,
                EvaluateCoupon, RefuseCode, PlaceOrder, ResolvePromotion
  <2>. QED
    BY <1>0, <2>1 DEF BestInv
<1>5. CASE UNCHANGED pricingVars
  <2>1. UNCHANGED <<bag, live, stage, shown, offerChanges, bagChanges>>
    BY <1>5 DEF pricingVars
  <2>2. LinesNow' = LinesNow /\ BestNow' = BestNow /\ PromotionNow' = PromotionNow
        /\ HintNow' = HintNow
    BY <2>1 DEF LinesNow, BestNow, PromotionNow, HintNow
  <2>. QED
    BY <2>1, <2>2 DEF BestInv
<1>. QED
  BY <1>1, <1>2, <1>3, <1>4, <1>5 DEF PricingNext

(* In a shop of percentages and fixed amounts (no free units, caps in      *)
(* whole paise), the cart shows the promotion that takes off most by its   *)
(* terms, and of equals one of the highest priority, whatever the          *)
(* catalogue, the number of promotions and the offers that are live.       *)
THEOREM BestOfPlainPromotions ==
    ASSUME PlainPromotions
    PROVE  PricingSpec => []BestPromotionApplied
<1>1. PricingInit => BestInv
  BY DEF PricingInit, BestInv
<1>2. BestInv => BestPromotionApplied
  BY BestFollows
<1>. QED
  BY <1>1, <1>2, BestStep, PTL DEF PricingSpec

-----------------------------------------------------------------------------
(* Hints of promotions                                                     *)

(* Cross multiplication compares quotients of naturals, so it is           *)
(* transitive.                                                             *)
LEMMA Quotients ==
    ASSUME NEW a \in Nat, NEW c \in Nat, NEW e \in Nat,
           NEW b \in Nat \ {0}, NEW d \in Nat \ {0}, NEW f \in Nat \ {0},
           a * d >= c * b, c * f >= e * d
    PROVE  /\ a * f >= e * b
           /\ a * d > c * b \/ c * f > e * d => a * f > e * b
<1>. DEFINE ad == a * d
            cb == c * b
            cf == c * f
            ed == e * d
            af == a * f
            eb == e * b
<1>1. /\ ad \in Nat /\ cb \in Nat /\ cf \in Nat /\ ed \in Nat /\ af \in Nat /\ eb \in Nat
  OBVIOUS
<1>2. d * af = f * ad /\ f * cb = b * cf /\ b * ed = d * eb
  OBVIOUS
<1>3. \A m \in Nat \ {0}, x, y \in Nat : (x >= y <=> m * x >= m * y) /\ (x > y <=> m * x > m * y)
  <2>. SUFFICES ASSUME NEW m \in Nat \ {0}, NEW x \in Nat, NEW y \in Nat
                PROVE  (x >= y <=> m * x >= m * y) /\ (x > y <=> m * x > m * y)
    OBVIOUS
  <2>1. x > y => m * x > m * y
    <3>. SUFFICES ASSUME x > y PROVE m * x > m * y
      OBVIOUS
    <3>1. m * (x - y) > 0 /\ m * (x - y) = m * x - m * y
      OBVIOUS
    <3>. QED
      BY <3>1
  <2>2. y > x => m * y > m * x
    <3>. SUFFICES ASSUME y > x PROVE m * y > m * x
      OBVIOUS
    <3>1. m * (y - x) > 0 /\ m * (y - x) = m * y - m * x
      OBVIOUS
    <3>. QED
      BY <3>1
  <2>3. m * x \in Nat /\ m * y \in Nat
    OBVIOUS
  <2>4. x = y => m * x = m * y
    OBVIOUS
  <2>. QED
    BY <2>1, <2>2, <2>3, <2>4
<1>4. /\ f * ad \in Nat /\ f * cb \in Nat /\ b * cf \in Nat /\ b * ed \in Nat
      /\ d * af \in Nat /\ d * eb \in Nat
  BY <1>1
<1>. HIDE DEF ad, cb, cf, ed, af, eb
<1>5. f * ad >= f * cb /\ b * cf >= b * ed
  BY <1>1, <1>3 DEF ad, cb, cf, ed
<1>6. d * af >= d * eb
  BY <1>2, <1>4, <1>5
<1>7. af >= eb
  BY <1>1, <1>3, <1>6
<1>8. ASSUME ad > cb \/ cf > ed PROVE af > eb
  <2>1. f * ad > f * cb \/ b * cf > b * ed
    BY <1>1, <1>3, <1>8
  <2>2. d * af > d * eb
    BY <1>2, <1>4, <1>5, <2>1
  <2>. QED
    BY <1>1, <1>3, <2>2
<1>. QED
  BY <1>7, <1>8 DEF ad, cb, cf, ed, af, eb

(* Of a non-empty finite set of numbered offers one is nearest to what it  *)
(* needs, and first among equals.                                          *)
LEMMA NearestOf ==
    ASSUME NEW S \in SUBSET Nat, IsFiniteSet(S), S # {}, NEW qty, NEW need,
           \A k \in S : qty[k] \in Nat /\ need[k] \in Nat \ {0}
    PROVE  \E k \in S : \A l \in S \ {k} :
               \/ qty[k] * need[l] > qty[l] * need[k]
               \/ ~(qty[l] * need[k] > qty[k] * need[l]) /\ k < l
<1>. DEFINE closer(k, l) == qty[k] * need[l] > qty[l] * need[k]
            ahead(k, l) == closer(k, l) \/ (~closer(l, k) /\ k < l)
            P == {s \in SUBSET S : s = {} \/ \E k \in s : \A l \in s \ {k} : ahead(k, l)}
<1>1. {} \in P
  OBVIOUS
<1>2. ASSUME NEW k \in S, NEW l \in S, k # l PROVE ahead(k, l) \/ ahead(l, k)
  <2>1. qty[k] * need[l] \in Nat /\ qty[l] * need[k] \in Nat /\ k \in Nat /\ l \in Nat
    OBVIOUS
  <2>. QED
    BY <1>2, <2>1
<1>3. ASSUME NEW k \in S, NEW l \in S, NEW m \in S, ahead(k, l), ahead(l, m) PROVE ahead(k, m)
  <2>. DEFINE kl == qty[k] * need[l]
              lk == qty[l] * need[k]
              lm == qty[l] * need[m]
              ml == qty[m] * need[l]
              km == qty[k] * need[m]
              mk == qty[m] * need[k]
  <2>1. /\ kl \in Nat /\ lk \in Nat /\ lm \in Nat /\ ml \in Nat /\ km \in Nat /\ mk \in Nat
    OBVIOUS
  <2>2. /\ kl >= lk /\ lm >= ml => km >= mk /\ (kl > lk \/ lm > ml => km > mk)
    BY Quotients
  <2>3. k \in Nat /\ l \in Nat /\ m \in Nat
    OBVIOUS
  <2>4. /\ kl > lk \/ (~(lk > kl) /\ k < l)
        /\ lm > ml \/ (~(ml > lm) /\ l < m)
    BY <1>3
  <2>. HIDE DEF kl, lk, lm, ml, km, mk
  <2>5. km > mk \/ (~(mk > km) /\ k < m)
    BY <2>1, <2>2, <2>3, <2>4
  <2>. QED
    BY <2>5 DEF km, mk
<1>. HIDE DEF ahead
<1>4. ASSUME NEW s \in SUBSET S, NEW x \in s, s \ {x} \in P PROVE s \in P
  <2>1. CASE s \ {x} = {}
    BY <2>1
  <2>2. CASE s \ {x} # {}
    <3>1. PICK y \in s \ {x} : \A l \in (s \ {x}) \ {y} : ahead(y, l)
      BY <1>4, <2>2
    <3>2. CASE ahead(y, x)
      <4>1. \A l \in s \ {y} : ahead(y, l)
        BY <3>1, <3>2
      <4>. QED
        BY <4>1, <3>1
    <3>3. CASE ahead(x, y)
      <4>1. \A l \in s \ {x} : ahead(x, l)
        BY <1>3, <3>1, <3>3
      <4>. QED
        BY <4>1
    <3>. QED
      BY <1>2, <3>1, <3>2, <3>3
  <2>. QED
    BY <2>1, <2>2
<1>. HIDE DEF P
<1>5. S \in P
  BY <1>1, <1>4, Grown
<1>. QED
  BY <1>5 DEF P, ahead

(* So the hint of a cart is the hint of one of the promotions.             *)
LEMMA HintIs ==
    ASSUME NEW lines, NEW offers,
           \A k \in DOMAIN Promotions : EligibleQuantity(Promotions[k], lines) \in Nat
    PROVE  \/ PickHint(offers, lines) = NoHint
           \/ \E k \in DOMAIN Promotions :
                 PickHint(offers, lines) = ProgressHint(Promotions[k], lines)
<1>. DEFINE near == {k \in DOMAIN Promotions :
                       /\ Promotions[k].id \in offers
                       /\ EligibleQuantity(Promotions[k], lines) > 0
                       /\ PromotionDiscount(Promotions[k], lines) = 0
                       /\ ProgressHint(Promotions[k], lines) # NoHint}
            qtyOf(k) == EligibleQuantity(Promotions[k], lines)
            needOf(k) == Promotions[k].buy
                           + (IF Promotions[k].kind = "bogo" THEN Promotions[k].get ELSE 0)
            closer(k, l) == qtyOf(k) * needOf(l) > qtyOf(l) * needOf(k)
            first(k) == \A l \in near \ {k} : closer(k, l) \/ (~closer(l, k) /\ k < l)
            qty == [k \in DOMAIN Promotions |-> qtyOf(k)]
            need == [k \in DOMAIN Promotions |-> needOf(k)]
<1>1. near \subseteq DOMAIN Promotions
  OBVIOUS
<1>2. PickHint(offers, lines) =
        IF near = {} THEN NoHint
        ELSE ProgressHint(Promotions[CHOOSE k \in near : first(k)], lines)
  BY Zenon DEF PickHint
<1>3. near # {} => \E k \in near : first(k)
  <2>1. near \in SUBSET Nat /\ IsFiniteSet(near)
    <3>. HIDE DEF near
    <3>. QED
      BY <1>1, OfferAssumption, FS_Subset
  <2>2. \A k \in near : qty[k] \in Nat /\ need[k] \in Nat \ {0}
    BY OfferAssumption
  <2>3. \A k \in near : qty[k] = qtyOf(k) /\ need[k] = needOf(k)
    OBVIOUS
  <2>. HIDE DEF near, qty, need, qtyOf, needOf
  <2>4. near # {} => \E k \in near : \A l \in near \ {k} :
            \/ qty[k] * need[l] > qty[l] * need[k]
            \/ ~(qty[l] * need[k] > qty[k] * need[l]) /\ k < l
    BY <2>1, <2>2, NearestOf
  <2>. QED
    BY <2>3, <2>4
<1>. HIDE DEF near, first
<1>. QED
  BY <1>1, <1>2, <1>3

(* An ordinary shop: no promotion gives free units or nothing at all, caps *)
(* are whole paise, and whatever campaigns are live, no SKU sells for less *)
(* than a rupee. With prices of a few paise a percentage may round to      *)
(* nothing, and a hint be followed in vain.                                *)
OrdinaryShop ==
    /\ PlainPromotions
    /\ \A k \in DOMAIN Promotions : Promotions[k].value > 0
    /\ \A i \in Items, offers \in SUBSET OfferIds : SellPrice(i, offers, TRUE) >= Rupee

(* In such a shop a promotion whose terms are met takes something off.     *)
LEMMA GivesSomething ==
    ASSUME OrdinaryShop, NEW k \in DOMAIN Promotions, NEW lines,
           LET p == Promotions[k] IN
           /\ EligibleSubtotal(p, lines) \in Nat /\ EligibleSubtotal(p, lines) >= Rupee
           /\ EligibleQuantity(p, lines) \in Nat /\ EligibleQuantity(p, lines) >= p.buy
           /\ EligibleSubtotal(p, lines) >= p.minOrder /\ Eligible(p, lines) # {}
    PROVE  PromotionDiscount(Promotions[k], lines) > 0
<1>. DEFINE p == Promotions[k]
            base == EligibleSubtotal(p, lines)
            part == Percent(base, p.value)
<1>1. /\ p.kind \in {"flat", "percentage"} /\ p.cap % Paisa = 0 /\ p.buy \in Nat
      /\ p.value \in Nat \ {0} /\ p.cap \in Nat /\ p.minOrder \in Nat
  BY OfferAssumption DEF OrdinaryShop, PlainPromotions
<1>2. ~(\/ Eligible(p, lines) = {}
        \/ EligibleQuantity(p, lines) < p.buy
        \/ base < p.minOrder)
  BY <1>1
<1>3. base \in Nat /\ base >= 100 * Paisa
  BY DEF Rupee
<1>. HIDE DEF p, base
<1>4. part \in Nat /\ part >= Paisa
  <2>. DEFINE units == base \div Paisa
  <2>1. units \in Nat /\ units >= Paisa
    BY <1>3 DEF Paisa
  <2>. HIDE DEF units
  <2>2. units * p.value \in Nat /\ units * p.value >= units
    BY <1>1, <2>1
  <2>. QED
    BY <2>1, <2>2 DEF Percent, units, Paisa
<1>. HIDE DEF part
<1>5. CASE p.kind = "flat"
  <2>1. PromotionDiscount(p, lines) = Lesser(p.value, base)
    BY <1>2, <1>5 DEF PromotionDiscount, base
  <2>. QED
    BY <1>1, <1>3, <2>1 DEF Lesser, Paisa, p
<1>6. CASE p.kind = "percentage"
  <2>1. PromotionDiscount(p, lines)
          = Lesser(Round(IF p.cap = 0 THEN part ELSE Lesser(part, p.cap)), base)
    BY <1>2, <1>6 DEF PromotionDiscount, base, part
  <2>. DEFINE off == IF p.cap = 0 THEN part ELSE Lesser(part, p.cap)
  <2>2. off \in Nat /\ off >= Paisa
    BY <1>1, <1>4 DEF Lesser, Paisa
  <2>. HIDE DEF off
  <2>3. Round(off) \in Nat /\ Round(off) >= Paisa
    BY <2>2 DEF Round, Paisa
  <2>. QED
    BY <1>3, <2>1, <2>3 DEF Lesser, Paisa, off, p
<1>. QED
  BY <1>1, <1>5, <1>6

(* The pieces in scope of a bag with n more of a SKU that fits are n more. *)
LEMMA MorePieces ==
    ASSUME NEW p, NEW b \in [Items -> Nat], NEW offers, NEW i \in Items, NEW n \in Nat, Fits(p, i)
    PROVE  LET qty == EligibleQuantity(p, Lines(b, Prices(offers)))
               then == EligibleQuantity(p, Lines(Add(b, i, n), Prices(offers)))
           IN  qty \in Nat /\ then = qty + n
<1>. DEFINE one == [j \in Items |-> 1]
            Pieces(c) == EligibleQuantity(p, Lines(c, Prices(offers)))
<1>1. ASSUME NEW c \in [Items -> Nat] PROVE Pieces(c) = Worth(p, one, c)
  <2>. DEFINE lines == Lines(c, Prices(offers))
              q == [j \in DOMAIN lines |-> lines[j].qty]
  <2>1. PricedAt(lines, c, offers)
    BY LinesOf, Zenon
  <2>2. Eligible(p, lines) = {j \in InBag(c) : Fits(p, j)}
    BY EligibleIs
  <2>3. one \in [Items -> Nat] /\ InBag(c) \subseteq Items
    BY DEF InBag
  <2>4. Pieces(c) = Total(q, Eligible(p, lines))
    BY DEF EligibleQuantity
  <2>. HIDE DEF lines
  <2>5. ASSUME NEW j \in InBag(c) PROVE q[j] = one[j] * c[j]
    <3>1. q[j] = c[j]
      BY <2>1, <2>5 DEF PricedAt
    <3>2. one[j] = 1 /\ c[j] \in Nat
      BY <2>3, <2>5
    <3>. QED
      BY <3>1, <3>2
  <2>. HIDE DEF q, one
  <2>. QED
    BY <2>2, <2>3, <2>4, <2>5, WorthIs
<1>2. Add(b, i, n) \in [Items -> Nat] /\ one \in [Items -> Nat] /\ one[i] = 1
  BY DEF Add
<1>. HIDE DEF one
<1>3. /\ Worth(p, one, b) \in Nat
      /\ Worth(p, one, Add(b, i, n)) = Worth(p, one, b) + one[i] * n
  BY <1>2, WorthGrows
<1>4. Pieces(b) = Worth(p, one, b) /\ Pieces(Add(b, i, n)) = Worth(p, one, Add(b, i, n))
  BY <1>1, <1>2
<1>. QED
  BY <1>2, <1>3, <1>4

(* Adding the pieces a hint asks for leads to the discount or to a hint    *)
(* about the amount, and adding the amount to the discount.                *)
LEMMA HintLeads ==
    ASSUME OrdinaryShop, NEW k \in DOMAIN Promotions, NEW b \in [Items -> Nat],
           NEW offers \in SUBSET OfferIds, NEW i \in Items, Fits(Promotions[k], i),
           NEW n \in Nat \ {0}
    PROVE  LET p == Promotions[k]
               h == ProgressHint(p, Lines(b, Prices(offers)))
               more == Lines(Add(b, i, n), Prices(offers))
           IN  /\ h.add = "items" /\ n = h.amount =>
                     \/ PromotionDiscount(p, more) > 0
                     \/ ProgressHint(p, more).add = "rupees"
               /\ h.add = "rupees" /\ Prices(offers)[i] * n >= h.amount =>
                     PromotionDiscount(p, more) > 0
<1>. DEFINE p == Promotions[k]
            lines == Lines(b, Prices(offers))
            more == Lines(Add(b, i, n), Prices(offers))
            h == ProgressHint(p, lines)
            base == EligibleSubtotal(p, lines)
            baseThen == EligibleSubtotal(p, more)
            qty == EligibleQuantity(p, lines)
            qtyThen == EligibleQuantity(p, more)
            price == Prices(offers)[i]
<1>1. /\ p.kind # "bogo" /\ p.buy \in Nat /\ p.value \in Nat /\ p.minOrder \in Nat
  BY OfferAssumption DEF OrdinaryShop, PlainPromotions
<1>2. /\ base \in Nat /\ baseThen = base + price * n /\ price \in Nat /\ i \in Eligible(p, more)
  <2>1. n \in Nat /\ n > 0
    OBVIOUS
  <2>2. /\ base \in Nat /\ baseThen = base + price * n /\ price \in Nat
        /\ n > 0 => i \in Eligible(p, more)
    BY <1>1, <2>1, MoreOfIt
  <2>. QED
    BY <2>1, <2>2
<1>3. qty \in Nat /\ qtyThen = qty + n
  BY MorePieces
<1>4. price >= Rupee
  BY DEF OrdinaryShop, Prices
<1>. DEFINE due == p.minOrder - base
<1>5. h = CASE qty < p.buy -> [offer |-> p.id, add |-> "items", amount |-> p.buy - qty]
            [] qty >= p.buy /\ due > 0 ->
                 [offer |-> p.id, add |-> "rupees",
                  amount |-> ((due + Rupee - 1) \div Rupee) * Rupee]
            [] OTHER -> NoHint
  BY <1>1 DEF ProgressHint
<1>6. ProgressHint(p, more).add = "rupees" <=> qtyThen >= p.buy /\ p.minOrder - baseThen > 0
  <2>1. qtyThen \in Nat
    BY <1>3
  <2>. HIDE DEF qtyThen, baseThen, more, p
  <2>. QED
    BY <1>1, <2>1 DEF ProgressHint, NoHint, qtyThen, baseThen
<1>7. qtyThen >= p.buy /\ baseThen >= p.minOrder => PromotionDiscount(p, more) > 0
  <2>1. baseThen \in Nat /\ baseThen >= Rupee
    <3>. HIDE DEF price, base, baseThen
    <3>1. price * n \in Nat /\ price * n >= price
      BY <1>2
    <3>. QED
      BY <1>2, <1>4, <3>1 DEF Rupee, Paisa
  <2>2. qtyThen \in Nat /\ Eligible(p, more) # {}
    BY <1>2, <1>3
  <2>. HIDE DEF more
  <2>. QED
    BY <2>1, <2>2, GivesSomething
<1>. HIDE DEF lines, more, h, base, baseThen, qty, qtyThen, price, p
<1>8. price * n \in Nat
  BY <1>2
<1>9. ASSUME h.add = "items", n = h.amount
      PROVE  PromotionDiscount(p, more) > 0 \/ ProgressHint(p, more).add = "rupees"
  <2>1. qty < p.buy /\ h.amount = p.buy - qty
    BY <1>5, <1>9 DEF NoHint
  <2>2. qtyThen >= p.buy
    BY <1>1, <1>3, <1>9, <2>1
  <2>. QED
    BY <1>1, <1>2, <1>6, <1>7, <1>8, <2>2
<1>10. ASSUME h.add = "rupees", price * n >= h.amount PROVE PromotionDiscount(p, more) > 0
  <2>1. qty >= p.buy /\ h.amount = ((due + Rupee - 1) \div Rupee) * Rupee
    BY <1>5, <1>10 DEF NoHint
  <2>2. due \in Int
    BY <1>1, <1>2
  <2>. HIDE DEF due
  <2>3. h.amount \in Int /\ h.amount >= due
    <3>1. ((due + Rupee - 1) \div Rupee) * Rupee \in Int
      BY <2>2 DEF Rupee, Paisa
    <3>. QED
      BY <2>1, <2>2, <3>1, RupeesCover
  <2>4. price * n >= due
    BY <1>8, <1>10, <2>2, <2>3
  <2>5. baseThen >= p.minOrder
    BY <1>1, <1>2, <1>8, <2>4 DEF due
  <2>6. qtyThen >= p.buy
    BY <1>1, <1>3, <2>1
  <2>. QED
    BY <1>7, <2>5, <2>6
<1>. QED
  BY <1>9, <1>10 DEF p, lines, more, h, price

(* A hint that asks for something names its promotion,                     *)
LEMMA HintNames ==
    ASSUME NEW p, NEW lines
    PROVE  ProgressHint(p, lines) = NoHint \/ ProgressHint(p, lines).offer = p.id
  BY DEF ProgressHint

(* and asks for one piece at least.                                        *)
LEMMA PiecesDue ==
    ASSUME NEW p, NEW lines, EligibleQuantity(p, lines) \in Nat, p.buy \in Nat, p.get \in Nat,
           ProgressHint(p, lines).add = "items"
    PROVE  ProgressHint(p, lines).amount \in Nat \ {0}
  BY DEF ProgressHint, NoHint

(* A cart with such a hint keeps its promise.                              *)
LEMMA HintFollows == OrdinaryShop /\ BestInv => (stage = "shown" /\ offerChanges + bagChanges = 0
                                                    => PromotionHintUnlocks)
<1>. SUFFICES ASSUME OrdinaryShop, BestInv, stage = "shown", offerChanges + bagChanges = 0,
                     NEW k \in DOMAIN Promotions, Promotions[k].id = shown.hint.offer,
                     NEW i \in Items, Fits(Promotions[k], i)
              PROVE  LET p == Promotions[k]
                         after(n) == Lines(Add(bag, i, n), Prices(live))
                     IN  /\ shown.hint.add = "items" =>
                              \/ PromotionDiscount(p, after(shown.hint.amount)) > 0
                              \/ ProgressHint(p, after(shown.hint.amount)).add = "rupees"
                         /\ \A n \in 1 .. MaxUnits :
                              shown.hint.add = "rupees" /\ Prices(live)[i] * n >= shown.hint.amount
                                => PromotionDiscount(p, after(n)) > 0
  BY Zenon DEF PromotionHintUnlocks
<1>. DEFINE lines == Lines(bag, Prices(live))
            p == Promotions[k]
            h == shown.hint
<1>1. bag \in [Items -> Nat] /\ live \in SUBSET OfferIds
  BY DEF BestInv, Bags
<1>2. h = NoHint \/ h = PickHint(live, lines)
  BY DEF BestInv, HintNow, LinesNow
<1>3. h.add \in {"items", "rupees"} => h = ProgressHint(p, lines)
  <2>. SUFFICES ASSUME h.add \in {"items", "rupees"} PROVE h = ProgressHint(p, lines)
    OBVIOUS
  <2>1. h # NoHint
    BY DEF NoHint
  <2>2. \A l \in DOMAIN Promotions : EligibleQuantity(Promotions[l], lines) \in Nat
    BY <1>1, EligibleSums
  <2>. HIDE DEF lines, h, p
  <2>3. PICK l \in DOMAIN Promotions : h = ProgressHint(Promotions[l], lines)
    BY <1>2, <2>1, <2>2, HintIs
  <2>4. ProgressHint(Promotions[l], lines) = NoHint
          \/ ProgressHint(Promotions[l], lines).offer = Promotions[l].id
    BY Zenon, HintNames
  <2>5. l = k
    BY <2>1, <2>3, <2>4, OfferAssumption DEF h
  <2>. QED
    BY <2>3, <2>5 DEF p
<1>4. ASSUME h.add = "items"
      PROVE  LET more == Lines(Add(bag, i, h.amount), Prices(live))
             IN  PromotionDiscount(p, more) > 0 \/ ProgressHint(p, more).add = "rupees"
  <2>1. h = ProgressHint(p, lines)
    BY <1>3, <1>4
  <2>2. h.amount \in Nat \ {0}
    <3>1. EligibleQuantity(p, lines) \in Nat
      BY <1>1, EligibleSums
    <3>2. p.buy \in Nat /\ p.get \in Nat
      BY OfferAssumption
    <3>. HIDE DEF lines, h, p
    <3>. QED
      BY <1>4, <2>1, <3>1, <3>2, PiecesDue
  <2>. HIDE DEF h
  <2>. QED
    BY <1>1, <1>4, <2>1, <2>2, HintLeads
<1>5. ASSUME NEW n \in 1 .. MaxUnits, h.add = "rupees", Prices(live)[i] * n >= h.amount
      PROVE  PromotionDiscount(p, Lines(Add(bag, i, n), Prices(live))) > 0
  <2>1. h = ProgressHint(p, lines) /\ n \in Nat \ {0}
    BY <1>3, <1>5
  <2>. HIDE DEF h
  <2>. QED
    BY <1>1, <1>5, <2>1, HintLeads
<1>. QED
  BY <1>4, <1>5

(* In an ordinary shop, with any catalogue, promotions, coupons and bag:   *)
(* who follows the hint of a promotion gets it or is told the next         *)
(* condition, and who follows the hint of a coupon lifts what the coupon   *)
(* was refused for.                                                        *)
THEOREM HintsOfOrdinaryShop ==
    ASSUME OrdinaryShop
    PROVE  PricingSpec => []HintUnlocks
<1>1. PricingSpec => []CouponHintUnlocks
  BY CouponHintsKept
<1>2. PricingSpec => []BestInv
  <2>1. PricingInit => BestInv
    BY DEF PricingInit, BestInv
  <2>. QED
    BY <2>1, BestStep, PTL DEF PricingSpec
<1>3. BestInv /\ CouponHintUnlocks => HintUnlocks
  BY HintFollows DEF HintUnlocks
<1>. QED
  BY <1>1, <1>2, <1>3, PTL

-----------------------------------------------------------------------------
(* The steps of a sale.                                                    *)
SalePhase == {"new", "taking", "recording", "undoing", "done", "failed", "dead"}

(* The product form: what the admin saw and typed, and whether it is up to *)
(* date.                                                                   *)
FormType == [open : BOOLEAN, saw : [Sku -> Nat], typed : [Sku -> Nat],
             current : BOOLEAN, dated : BOOLEAN]

(* What sales write is well typed, and the stock of a variant is never     *)
(* negative.                                                               *)
SalesTyped ==
    /\ onHand \in [Sku -> Nat]
    /\ phase \in [Sale -> SalePhase]
    /\ decremented \in [Sale -> Seq(Sku)]
    /\ reservation \in [Sale -> {"none", "reserved", "released"}]
    /\ late \in BOOLEAN /\ lost \in Nat /\ crashes \in Nat

(* So is what the admins and the reconciliation write,                     *)
DeskTyped ==
    /\ form \in FormType
    /\ receipt \in [Receipt -> {"new", "checked", "done"}]
    /\ invoice \in [active : BOOLEAN, keyUsed : BOOLEAN]
    /\ job \in [pc : {"idle", "found", "read"}, sum : Int]

(* and what is added up.                                                   *)
SumsTyped == total \in Int /\ changes \in Nat /\ moved \in [Sku -> Int] /\ blind \in BOOLEAN

(* The type invariant of ProductStock.                                     *)
StockTypeOK == SalesTyped /\ DeskTyped /\ SumsTyped

(* What a sale has taken is the beginning of what it asks for, until there *)
(* is an order; and a sale is undone after its order was created only if   *)
(* late.                                                                   *)
TakenInOrder ==
    \A s \in Sale :
        /\ phase[s] \in {"new", "taking"} => reservation[s] = "none"
        /\ phase[s] = "new" => decremented[s] = <<>>
        /\ phase[s] = "taking" =>
              /\ Len(decremented[s]) <= Len(StockOps[s])
              /\ \A i \in 1 .. Len(decremented[s]) : decremented[s][i] = StockOps[s][i]
        /\ phase[s] = "undoing" /\ ~late => reservation[s] = "none"

(* An open form that nobody overtook shows the stock as it is.             *)
FormFresh == form.open /\ form.current => form.saw = onHand

(* The inductive invariant of StockIsExplained.                            *)
StockInv == StockTypeOK /\ TakenInOrder /\ FormFresh /\ StockIsExplained

-----------------------------------------------------------------------------
(* Counting                                                                *)

(* A variant is counted a natural number of times in a sequence,           *)
LEMMA CountType ==
    ASSUME NEW seq \in Seq(Sku), NEW k PROVE Count(seq, k) \in Nat
<1>1. IsFiniteSet({i \in DOMAIN seq : seq[i] = k})
  BY FS_Interval, FS_Subset
<1>. QED
  BY <1>1, FS_CardinalityType DEF Count

(* once more after it is appended,                                         *)
LEMMA CountAppend ==
    ASSUME NEW seq \in Seq(Sku), NEW x \in Sku, NEW k
    PROVE  Count(Append(seq, x), k) = Count(seq, k) + (IF x = k THEN 1 ELSE 0)
<1>. DEFINE S == {i \in DOMAIN seq : seq[i] = k}
            T == {i \in DOMAIN Append(seq, x) : Append(seq, x)[i] = k}
            n == Len(seq) + 1
<1>1. IsFiniteSet(S) /\ n \notin S
  BY FS_Interval, FS_Subset
<1>2. T = IF x = k THEN S \cup {n} ELSE S
  OBVIOUS
<1>3. Cardinality(S \cup {n}) = Cardinality(S) + 1 /\ Cardinality(S) \in Nat
  BY <1>1, FS_AddElement, FS_CardinalityType
<1>4. Count(Append(seq, x), k) = Cardinality(T) /\ Count(seq, k) = Cardinality(S)
  BY DEF Count
<1>. HIDE DEF S, T, n
<1>. QED
  BY <1>2, <1>3, <1>4

(* and once less without the end, which is where a sale that is undone     *)
(* starts.                                                                 *)
LEMMA CountFront ==
    ASSUME NEW seq \in Seq(Sku), seq # <<>>, NEW k
    PROVE  /\ Front(seq) \in Seq(Sku) /\ Last(seq) \in Sku
           /\ Count(seq, k) = Count(Front(seq), k) + (IF Last(seq) = k THEN 1 ELSE 0)
<1>. DEFINE n == Len(seq)
            S == {i \in DOMAIN seq : seq[i] = k}
            T == {i \in DOMAIN Front(seq) : Front(seq)[i] = k}
<1>1. n \in Nat \ {0} /\ DOMAIN seq = 1 .. n /\ seq[n] \in Sku
  BY EmptySeq, LenProperties
<1>2. /\ Front(seq) \in Seq(Sku) /\ DOMAIN Front(seq) = 1 .. n - 1
      /\ \A i \in 1 .. n - 1 : Front(seq)[i] = seq[i]
  BY <1>1, SubSeqProperties, LenProperties DEF Front
<1>3. IsFiniteSet(T) /\ n \notin T
  <2>1. T \subseteq 1 .. n - 1 /\ n - 1 \in Int /\ 1 \in Int
    BY <1>1, <1>2
  <2>2. IsFiniteSet(1 .. n - 1)
    BY <2>1, FS_Interval
  <2>3. n \notin 1 .. n - 1
    BY <1>1
  <2>. QED
    BY <2>1, <2>2, <2>3, FS_Subset
<1>4. S = IF seq[n] = k THEN T \cup {n} ELSE T
  BY <1>1, <1>2
<1>5. Cardinality(T \cup {n}) = Cardinality(T) + 1 /\ Cardinality(T) \in Nat
  BY <1>3, FS_AddElement, FS_CardinalityType
<1>6. Count(Front(seq), k) = Cardinality(T) /\ Count(seq, k) = Cardinality(S)
  BY DEF Count
<1>7. Last(seq) = seq[n]
  BY DEF Last
<1>. HIDE DEF n, S, T
<1>. QED
  BY <1>1, <1>2, <1>4, <1>5, <1>6, <1>7

(* Units of a variant that sales hold.                                     *)
Held(k) == Total([s \in Sale |-> Holding(s, k)], Sale)

(* What a sale holds of a variant is a natural number,                     *)
LEMMA HoldingType ==
    ASSUME StockTypeOK, NEW s \in Sale, NEW k \in Sku PROVE Holding(s, k) \in Nat
<1>1. decremented[s] \in Seq(Sku) /\ StockOps[s] \in Seq(Sku)
      /\ reservation[s] \in {"none", "reserved", "released"}
  BY SaleAssumption DEF StockTypeOK, SalesTyped
<1>. QED
  BY <1>1, CountType DEF Holding

(* after a step as before it.                                              *)
LEMMA HoldingTypeNext ==
    ASSUME StockTypeOK', NEW s \in Sale, NEW k \in Sku PROVE Holding(s, k)' \in Nat
<1>1. (decremented[s])' \in Seq(Sku) /\ StockOps[s] \in Seq(Sku)
      /\ (reservation[s])' \in {"none", "reserved", "released"}
  BY SaleAssumption DEF StockTypeOK, SalesTyped
<1>. QED
  BY <1>1, CountType DEF Holding

(* When one sale acts, the units held change by what its own change by;    *)
LEMMA HeldMoves ==
    ASSUME StockTypeOK, StockTypeOK', NEW k \in Sku, NEW s \in Sale,
           \A t \in Sale \ {s} : Holding(t, k)' = Holding(t, k)
    PROVE  Held(k)' = Held(k) + (Holding(s, k)' - Holding(s, k)) /\ Held(k) \in Int
<1>. DEFINE f == [t \in Sale |-> Holding(t, k)]
            g == [t \in Sale |-> Holding(t, k)']
<1>1. \A t \in Sale : f[t] \in Int
  BY HoldingType
<1>2. g[s] \in Int
  <2>1. Holding(s, k)' \in Nat
    BY HoldingTypeNext
  <2>. QED BY <2>1
<1>3. \A t \in Sale \ {s} : g[t] = f[t]
  OBVIOUS
<1>4. Held(k) = Total(f, Sale) /\ Held(k)' = Total(g, Sale)
  BY DEF Held
<1>5. f[s] = Holding(s, k) /\ g[s] = Holding(s, k)'
  OBVIOUS
<1>. HIDE DEF f, g
<1>6. Total(g, Sale) = Total(f, Sale) + (g[s] - f[s])
  BY <1>1, <1>2, <1>3, SaleAssumption, TotalMoves
<1>7. Total(f, Sale) \in Int
  BY <1>1, SaleAssumption, TotalType
<1>. QED
  BY <1>4, <1>5, <1>6, <1>7

(* when none does, they stay.                                              *)
LEMMA HeldStays ==
    ASSUME StockTypeOK, UNCHANGED <<decremented, reservation>>, NEW k \in Sku
    PROVE  Held(k)' = Held(k) /\ Held(k) \in Int
<1>. DEFINE f == [t \in Sale |-> Holding(t, k)]
<1>1. Held(k) = Total(f, Sale) /\ \A t \in Sale : f[t] \in Int
  BY HoldingType DEF Held
<1>2. Held(k)' = Total([t \in Sale |-> Holding(t, k)'], Sale)
  BY DEF Held
<1>3. [t \in Sale |-> Holding(t, k)'] = f
  BY DEF Holding
<1>. HIDE DEF f
<1>. QED
  BY <1>1, <1>2, <1>3, SaleAssumption, TotalType

(* The stocks of the variants add up to an integer.                        *)
LEMMA SumType == \A f \in [Sku -> Int] : Sum(f) \in Int
  BY SaleAssumption, TotalType DEF Sum

(* Every scenario starts well typed.                                       *)
LEMMA StockTypeInit == StockInit => StockTypeOK
<1>. SUFFICES ASSUME StockInit PROVE StockTypeOK
  OBVIOUS
<1>1. PICK c \in Scenario :
        /\ SaleInit(c.sales)
        /\ total = Sum(InitStock) + c.drift
        /\ form = NoForm
        /\ receipt = [r \in Receipt |-> IF r \in c.receipts THEN "new" ELSE "done"]
        /\ invoice = [active |-> FALSE, keyUsed |-> FALSE]
        /\ job = NoJob
        /\ changes = c.changes
        /\ moved = [k \in Sku |-> 0]
        /\ blind = FALSE
  BY DEF StockInit
<1>2. c.drift \in Int /\ c.changes \in Nat
  BY ScenarioAssumption
<1>3. InitStock \in [Sku -> Nat] /\ Sum(InitStock) \in Int
  BY SaleAssumption, SumType
<1>4. SalesTyped
  <2>1. decremented \in [Sale -> Seq(Sku)]
    <3>1. <<>> \in Seq(Sku)
      OBVIOUS
    <3>2. decremented = [s \in Sale |-> <<>>]
      BY <1>1 DEF SaleInit
    <3>. QED
      BY <3>1, <3>2, Zenon
  <2>2. phase \in [Sale -> SalePhase]
    BY <1>1 DEF SaleInit, SalePhase
  <2>3. reservation \in [Sale -> {"none", "reserved", "released"}]
    BY <1>1 DEF SaleInit
  <2>4. onHand \in [Sku -> Nat] /\ late \in BOOLEAN /\ lost \in Nat /\ crashes \in Nat
    BY <1>1, <1>3 DEF SaleInit
  <2>. QED
    BY <2>1, <2>2, <2>3, <2>4 DEF SalesTyped
<1>5. DeskTyped
  <2>1. NoForm \in FormType
    BY <1>3 DEF NoForm, FormType
  <2>. QED
    BY <1>1, <2>1 DEF NoJob, DeskTyped
<1>6. SumsTyped
  <2>1. total \in Int
    BY <1>1, <1>2, <1>3
  <2>2. moved \in [Sku -> Int]
    BY <1>1
  <2>3. changes \in Nat /\ blind \in BOOLEAN
    BY <1>1, <1>2
  <2>. QED
    BY <2>1, <2>2, <2>3 DEF SumsTyped
<1>. QED
  BY <1>4, <1>5, <1>6 DEF StockTypeOK

(* A step of a sale types what it writes,                                  *)
LEMMA SaleTypeStep ==
    ASSUME StockTypeOK, SaleStep(SaleNext) PROVE StockTypeOK'
<1>1. onHand \in [Sku -> Nat] /\ total \in Int
  BY DEF StockTypeOK, SalesTyped, SumsTyped
<1>2. PICK s \in Sale : CheckLines(s) \/ Proceed(s) \/ CancelOrder(s) \/ Crash(s)
  BY DEF SaleStep, SaleNext
<1>3. StockOps[s] \in Seq(Sku) /\ decremented[s] \in Seq(Sku)
  BY SaleAssumption DEF StockTypeOK, SalesTyped
<1>4. SalesTyped'
  <2>0. SalesTyped
    BY DEF StockTypeOK
  <2>1. CASE CheckLines(s)
    BY <2>0, <2>1 DEF CheckLines, Step, SalesTyped, SalePhase
  <2>2. CASE TakeLine(s)
    <3>1. NextLine(s) \in Sku
      BY <1>3, <2>2 DEF TakeLine, NextLine
    <3>2. CASE ShortOf(s)
      BY <2>0, <2>2, <3>2 DEF TakeLine, Step, SalesTyped, SalePhase
    <3>3. CASE ~ShortOf(s)
      <4>. DEFINE more == Append(decremented[s], NextLine(s))
                  less == onHand[NextLine(s)] - 1
      <4>1. more \in Seq(Sku)
        BY <1>3, <3>1
      <4>2. less \in Nat
        BY <1>1, <3>1, <3>3 DEF ShortOf
      <4>3. /\ onHand' = [onHand EXCEPT ![NextLine(s)] = less]
            /\ decremented' = [decremented EXCEPT ![s] = more]
            /\ UNCHANGED <<phase, reservation, late, lost, crashes>>
        BY <2>2, <3>3 DEF TakeLine
      <4>. HIDE DEF more, less
      <4>. QED
        BY <2>0, <3>1, <4>1, <4>2, <4>3 DEF SalesTyped
    <3>. QED
      BY <3>2, <3>3
  <2>3. CASE CreateOrder(s)
    BY <2>0, <2>3 DEF CreateOrder, Step, SalesTyped, SalePhase
  <2>4. CASE RecordSale(s)
    BY <2>0, <2>4 DEF RecordSale, Step, SalesTyped, SalePhase
  <2>5. CASE UndoLine(s)
    <3>1. CASE decremented[s] = <<>>
      BY <2>0, <2>5, <3>1 DEF UndoLine, Step, SalesTyped, SalePhase
    <3>2. CASE decremented[s] # <<>>
      <4>. DEFINE less == Front(decremented[s])
      <4>1. less \in Seq(Sku) /\ Last(decremented[s]) \in Sku
        BY <1>3, <3>2, CountFront
      <4>2. PutBack(s) \in [Sku -> Nat]
        BY <1>1, <4>1 DEF PutBack
      <4>3. /\ onHand' \in [Sku -> Nat] /\ lost' \in Nat
            /\ decremented' = [decremented EXCEPT ![s] = less]
            /\ UNCHANGED <<phase, reservation, late, crashes>>
        BY <2>0, <2>5, <3>2, <4>2 DEF UndoLine, SalesTyped
      <4>. HIDE DEF less
      <4>. QED
        BY <2>0, <4>1, <4>3 DEF SalesTyped
    <3>. QED
      BY <3>1, <3>2
  <2>6. CASE CancelOrder(s)
    <3>1. \A k \in Sku : Count(StockOps[s], k) \in Nat
      BY <1>3, CountType
    <3>. QED
      BY <1>1, <2>0, <2>6, <3>1 DEF CancelOrder, SalesTyped
  <2>7. CASE Crash(s)
    BY <2>0, <2>7 DEF Crash, SalesTyped, SalePhase
  <2>. QED
    BY <1>2, <2>1, <2>2, <2>3, <2>4, <2>5, <2>6, <2>7 DEF Proceed
<1>5. total' \in Int
  <2>1. onHand' \in [Sku -> Nat]
    BY <1>4 DEF SalesTyped
  <2>2. Sum(onHand) \in Int /\ Sum(onHand') \in Int
    BY <1>1, <2>1, SumType
  <2>. QED
    BY <1>1, <2>2 DEF SaleStep, Carry
<1>6. UNCHANGED <<receipt, invoice, job, changes, moved, blind>>
  BY DEF SaleStep
<1>7. DeskTyped'
  <2>1. form' \in FormType
    BY DEF SaleStep, Touch, StockTypeOK, DeskTyped, FormType
  <2>. QED
    BY <1>6, <2>1 DEF StockTypeOK, DeskTyped
<1>8. SumsTyped'
  BY <1>5, <1>6 DEF StockTypeOK, SumsTyped
<1>. QED
  BY <1>4, <1>7, <1>8 DEF StockTypeOK

(* A save types the product and leaves the form well formed.               *)
LEMMA SaveTypes ==
    ASSUME StockTypeOK, NEW newStock \in [Sku -> Nat], Save(newStock)
    PROVE  onHand' \in [Sku -> Nat] /\ total' \in Int /\ form' \in FormType
<1>1. Sum(newStock) \in Int
  BY SumType
<1>. QED
  BY <1>1 DEF Save, Touch, StockTypeOK, DeskTyped, FormType

(* and so does a step of an admin, a delivery or the reconciliation.       *)
LEMMA DeskTypeStep ==
    ASSUME StockTypeOK, [StockNext]_stockVars, ~SaleStep(SaleNext) PROVE StockTypeOK'
<1>1. onHand \in [Sku -> Nat] /\ moved \in [Sku -> Int] /\ form \in FormType /\ changes \in Nat
  BY DEF StockTypeOK, SalesTyped, DeskTyped, SumsTyped
<1>2. NoForm \in FormType
  BY SaleAssumption DEF NoForm, FormType
<1>3. ASSUME NEW k \in Sku, NEW delta \in Delta, AdjustStock(k, delta) PROVE StockTypeOK'
  <2>1. [onHand EXCEPT ![k] = @ + delta] \in [Sku -> Nat]
    BY <1>1, <1>3 DEF AdjustStock, Delta
  <2>2. moved' \in [Sku -> Int] /\ changes' \in Nat
    BY <1>1, <1>3 DEF AdjustStock, Change, Delta
  <2>3. onHand' \in [Sku -> Nat] /\ total' \in Int /\ form' \in FormType
    BY <1>3, <2>1, SaveTypes DEF AdjustStock
  <2>4. UNCHANGED <<Others, receipt, invoice, job, blind>>
    BY <1>3 DEF AdjustStock
  <2>. QED
    BY <2>2, <2>3, <2>4 DEF Others, StockTypeOK, SalesTyped, DeskTyped, SumsTyped
<1>4. ASSUME NEW k \in Sku, NEW delta \in Delta, NEW dated \in BOOLEAN, OpenForm(k, delta, dated)
      PROVE  StockTypeOK'
  <2>1. [onHand EXCEPT ![k] = @ + delta] \in [Sku -> Nat]
    BY <1>1, <1>4 DEF OpenForm, Delta
  <2>2. form' \in FormType /\ changes' \in Nat
    BY <1>1, <1>4, <2>1 DEF OpenForm, Change, FormType
  <2>3. UNCHANGED <<saleVars, total, receipt, invoice, job, moved, blind>>
    BY <1>4 DEF OpenForm
  <2>. QED
    BY <2>2, <2>3 DEF saleVars, StockTypeOK, SalesTyped, DeskTyped, SumsTyped
<1>5. ASSUME NEW r \in Receipt, CheckReceipt(r) PROVE StockTypeOK'
  <2>1. receipt' \in [Receipt -> {"new", "checked", "done"}]
    BY <1>5 DEF CheckReceipt, StockTypeOK, DeskTyped
  <2>2. UNCHANGED <<saleVars, total, form, invoice, job, changes, moved, blind>>
    BY <1>5 DEF CheckReceipt
  <2>. QED
    BY <2>1, <2>2 DEF saleVars, StockTypeOK, SalesTyped, DeskTyped, SumsTyped
<1>6. ASSUME NEW r \in Receipt, RecordReceipt(r) PROVE StockTypeOK'
  <2>0. Delivered \in Sku
    BY ReceiptAssumption
  <2>1. receipt' \in [Receipt -> {"new", "checked", "done"}]
    BY <1>6 DEF RecordReceipt, StockTypeOK, DeskTyped
  <2>2. UNCHANGED <<Others, job, changes, blind>>
    BY <1>6 DEF RecordReceipt
  <2>3. CASE Indexed(r)
    <3>1. UNCHANGED <<product, form, invoice, moved>>
      BY <1>6, <2>3 DEF RecordReceipt
    <3>. QED
      BY <2>1, <2>2, <3>1 DEF Others, product, StockTypeOK, SalesTyped, DeskTyped, SumsTyped
  <2>4. CASE ~Indexed(r)
    <3>1. /\ invoice' = [active |-> TRUE, keyUsed |-> invoice.keyUsed \/ r \in Keyed]
          /\ Save([onHand EXCEPT ![Delivered] = @ + 1])
          /\ moved' = [moved EXCEPT ![Delivered] = @ + 1]
      BY <1>6, <2>4 DEF RecordReceipt
    <3>2. [onHand EXCEPT ![Delivered] = @ + 1] \in [Sku -> Nat]
      BY <1>1, <2>0
    <3>3. onHand' \in [Sku -> Nat] /\ total' \in Int /\ form' \in FormType
      BY <3>1, <3>2, SaveTypes
    <3>4. invoice' \in [active : BOOLEAN, keyUsed : BOOLEAN]
      BY <3>1 DEF StockTypeOK, DeskTyped
    <3>5. moved' \in [Sku -> Int]
      BY <1>1, <2>0, <3>1
    <3>. QED
      BY <2>1, <2>2, <3>3, <3>4, <3>5 DEF Others, StockTypeOK, SalesTyped, DeskTyped, SumsTyped
  <2>. QED
    BY <2>3, <2>4
<1>7. CASE VoidInvoice
  <2>0. changes' \in Nat
    BY <1>1, <1>7 DEF VoidInvoice, Change
  <2>1. invoice' \in [active : BOOLEAN, keyUsed : BOOLEAN]
    <3>1. invoice \in [active : BOOLEAN, keyUsed : BOOLEAN]
      BY DEF StockTypeOK, DeskTyped
    <3>2. invoice' = [invoice EXCEPT !.active = FALSE]
      BY <1>7 DEF VoidInvoice
    <3>. QED
      BY <3>1, <3>2
  <2>2. UNCHANGED <<saleVars, total, form, receipt, job, moved, blind>>
    BY <1>7 DEF VoidInvoice
  <2>. QED
    BY <2>0, <2>1, <2>2 DEF saleVars, StockTypeOK, SalesTyped, DeskTyped, SumsTyped
<1>8. CASE UpdateProduct
  <2>1. UNCHANGED <<Others, receipt, invoice, job, changes>>
    BY <1>8 DEF UpdateProduct
  <2>2. blind' \in BOOLEAN
    BY <1>1, <1>8 DEF UpdateProduct, StockTypeOK, SumsTyped, FormType
  <2>3. /\ onHand' \in [Sku -> Nat] /\ total' \in Int /\ moved' \in [Sku -> Int]
        /\ form' = NoForm
    <3>1. CASE form.dated /\ ~form.current
      BY <1>8, <3>1 DEF UpdateProduct, product, StockTypeOK, SalesTyped, SumsTyped
    <3>2. CASE ~(form.dated /\ ~form.current)
      <4>1. SaveForm
        BY <1>8, <3>2 DEF UpdateProduct
      <4>2. form.typed \in [Sku -> Nat] /\ form.saw \in [Sku -> Nat]
        BY <1>1 DEF FormType
      <4>3. Sum(form.typed) \in Int
        BY <4>2, SumType
      <4>. QED
        BY <1>1, <4>1, <4>2, <4>3 DEF SaveForm
    <3>. QED
      BY <3>1, <3>2
  <2>. QED
    BY <1>2, <2>1, <2>2, <2>3 DEF Others, StockTypeOK, SalesTyped, DeskTyped, SumsTyped
<1>9. CASE Reconcile
  <2>1. Sum(onHand) \in Int
    BY <1>1, SumType
  <2>2. job' \in [pc : {"idle", "found", "read"}, sum : Int] /\ total' \in Int
    BY <1>9, <2>1 DEF Reconcile, FindDrift, ReadVariants, StoreTotal, NoJob,
                     StockTypeOK, DeskTyped, SumsTyped
  <2>3. form' \in FormType
    BY <1>1, <1>9 DEF Reconcile, FindDrift, ReadVariants, StoreTotal, Touch, FormType
  <2>4. UNCHANGED <<saleVars, receipt, invoice, changes, moved, blind>>
    BY <1>9 DEF Reconcile, FindDrift, ReadVariants, StoreTotal
  <2>. QED
    BY <2>2, <2>3, <2>4 DEF saleVars, StockTypeOK, SalesTyped, DeskTyped, SumsTyped
<1>10. CASE UNCHANGED stockVars
  BY <1>10 DEF stockVars, saleVars, desk, StockTypeOK, SalesTyped, DeskTyped, SumsTyped
<1>. QED
  BY <1>3, <1>4, <1>5, <1>6, <1>7, <1>8, <1>9, <1>10 DEF StockNext

(* Stock is never negative, whoever writes it: the state is well typed for *)
(* any products, sales, deliveries and scenarios.                          *)
THEOREM StockTyped == StockSpec => []StockTypeOK
<1>1. StockTypeOK /\ [StockNext]_stockVars => StockTypeOK'
  BY SaleTypeStep, DeskTypeStep
<1>. QED
  BY <1>1, StockTypeInit, PTL DEF StockSpec

-----------------------------------------------------------------------------
(* The stock is explained                                                  *)

(* Nothing happened that StockIsExplained excepts: no form without a date  *)
(* saved over a newer product, no order taken for lost that was created,   *)
(* no release that failed.                                                 *)
Clean == ~blind /\ ~late /\ lost = 0

(* What is left of StockIsExplained when the types are known.              *)
Explained == \A k \in Sku : Clean => onHand[k] + Held(k) = InitStock[k] + moved[k]

(* In a well typed state it says the same,                                 *)
LEMMA ExplainedIs == StockTypeOK => (StockIsExplained <=> Explained)
<1>. SUFFICES ASSUME StockTypeOK PROVE StockIsExplained <=> Explained
  OBVIOUS
<1>1. \A k \in Sku : onHand[k] >= 0
  BY DEF StockTypeOK, SalesTyped
<1>. QED
  BY <1>1 DEF StockIsExplained, Explained, Clean, Held

(* and after a step.                                                       *)
LEMMA ExplainedNext == StockTypeOK' /\ Explained' => StockIsExplained'
<1>. SUFFICES ASSUME StockTypeOK', Explained' PROVE StockIsExplained'
  OBVIOUS
<1>1. \A k \in Sku : (onHand[k])' >= 0
  BY DEF StockTypeOK, SalesTyped
<1>. QED
  BY <1>1 DEF StockIsExplained, Explained, Clean, Held

(* A step explains the stock when shelf and held units together change by  *)
(* what the admins meant to add.                                           *)
LEMMA ExplainedMoves ==
    ASSUME StockTypeOK, StockTypeOK', Explained, Clean' => Clean,
           \A k \in Sku : Held(k) \in Int /\ Held(k)' \in Int,
           \A k \in Sku : Clean' =>
               (onHand[k])' + Held(k)' = (onHand[k] + Held(k)) + ((moved[k])' - moved[k])
    PROVE  Explained'
<1>. SUFFICES ASSUME NEW k \in Sku, Clean'
              PROVE  (onHand[k])' + Held(k)' = InitStock[k] + (moved[k])'
  BY DEF Explained
<1>1. onHand[k] + Held(k) = InitStock[k] + moved[k]
  BY DEF Explained
<1>2. /\ onHand[k] \in Int /\ (onHand[k])' \in Int /\ moved[k] \in Int /\ (moved[k])' \in Int
      /\ InitStock[k] \in Int /\ Held(k) \in Int /\ Held(k)' \in Int
  BY SaleAssumption DEF StockTypeOK, SalesTyped, SumsTyped
<1>3. (onHand[k])' + Held(k)' = (onHand[k] + Held(k)) + ((moved[k])' - moved[k])
  OBVIOUS
<1>4. (onHand[k])' + Held(k)' = (InitStock[k] + moved[k]) + ((moved[k])' - moved[k])
  BY <1>1, <1>3
<1>. QED
  BY <1>2, <1>4

(* A sale's step moves units between the shelf and what that sale holds.   *)
LEMMA SaleMoves ==
    ASSUME StockTypeOK, StockTypeOK', Explained, NEW s \in Sale, UNCHANGED <<moved, blind>>,
           Clean' => Clean,
           \A t \in Sale \ {s} : UNCHANGED <<decremented[t], reservation[t]>>,
           \A k \in Sku : Clean' =>
               (onHand[k])' + Holding(s, k)' = onHand[k] + Holding(s, k)
    PROVE  Explained'
<1>1. \A k \in Sku : \A t \in Sale \ {s} : Holding(t, k)' = Holding(t, k)
  BY DEF Holding
<1>. SUFFICES ASSUME NEW k \in Sku
              PROVE  /\ Held(k) \in Int /\ Held(k)' \in Int
                     /\ Clean' =>
                          (onHand[k])' + Held(k)' = (onHand[k] + Held(k)) + ((moved[k])' - moved[k])
  BY ExplainedMoves
<1>2. Held(k)' = Held(k) + (Holding(s, k)' - Holding(s, k)) /\ Held(k) \in Int
  BY <1>1, HeldMoves
<1>3. Holding(s, k) \in Nat /\ Holding(s, k)' \in Nat
  BY HoldingType, HoldingTypeNext
<1>4. /\ onHand[k] \in Int /\ (onHand[k])' \in Int /\ moved[k] \in Int /\ (moved[k])' = moved[k]
  BY DEF StockTypeOK, SalesTyped, SumsTyped
<1>. QED
  BY <1>2, <1>3, <1>4

(* What a sale holds, by what became of its reservation,                   *)
LEMMA HoldingIs ==
    ASSUME NEW s, NEW k
    PROVE  /\ reservation[s] = "none" => Holding(s, k) = Count(decremented[s], k)
           /\ reservation[s] = "reserved" => Holding(s, k) = Count(StockOps[s], k)
           /\ reservation[s] = "released" => Holding(s, k) = 0
  BY DEF Holding

(* before and after a step.                                                *)
LEMMA HoldingNext ==
    ASSUME NEW s, NEW k
    PROVE  /\ (reservation[s])' = "none" => Holding(s, k)' = Count((decremented[s])', k)
           /\ (reservation[s])' = "reserved" => Holding(s, k)' = Count(StockOps[s], k)
           /\ (reservation[s])' = "released" => Holding(s, k)' = 0
  BY DEF Holding, Count

(* A sale that took nothing holds nothing.                                 *)
LEMMA CountEmpty == \A k : Count(<<>>, k) = 0
  BY FS_EmptySet DEF Count

(* A line taken moves one unit from the shelf to the sale.                 *)
LEMMA TakeExplained ==
    ASSUME StockInv, StockTypeOK', NEW s \in Sale, TakeLine(s), UNCHANGED <<moved, blind>>
    PROVE  Explained'
<1>1. StockTypeOK /\ TakenInOrder /\ Explained
  BY ExplainedIs DEF StockInv
<1>2. /\ decremented \in [Sale -> Seq(Sku)] /\ onHand \in [Sku -> Nat] /\ StockOps[s] \in Seq(Sku)
      /\ UNCHANGED <<reservation, late, lost>>
  BY <1>1, SaleAssumption DEF TakeLine, StockTypeOK, SalesTyped
<1>3. CASE ShortOf(s)
  <2>1. UNCHANGED <<onHand, decremented>>
    BY <1>3 DEF TakeLine
  <2>2. \A k \in Sku : Holding(s, k)' = Holding(s, k)
    BY <1>2, <2>1 DEF Holding
  <2>. QED
    BY <1>1, <1>2, <2>1, <2>2, SaleMoves DEF Clean
<1>4. CASE ~ShortOf(s)
  <2>1. /\ onHand' = [onHand EXCEPT ![NextLine(s)] = @ - 1]
        /\ decremented' = [decremented EXCEPT ![s] = Append(@, NextLine(s))]
        /\ reservation[s] = "none"
    BY <1>1, <1>4 DEF TakeLine, TakenInOrder
  <2>2. NextLine(s) \in Sku
    BY <1>2 DEF TakeLine, NextLine
  <2>3. ASSUME NEW k \in Sku
        PROVE  (onHand[k])' + Holding(s, k)' = onHand[k] + Holding(s, k)
    <3>1. Count(Append(decremented[s], NextLine(s)), k)
              = Count(decremented[s], k) + (IF NextLine(s) = k THEN 1 ELSE 0)
      BY <1>2, <2>2, CountAppend
    <3>2. Holding(s, k) = Count(decremented[s], k) /\ Count(decremented[s], k) \in Nat
      BY <1>2, <2>1, HoldingIs, CountType
    <3>3. Holding(s, k)' = Count(Append(decremented[s], NextLine(s)), k)
      BY <1>2, <2>1, HoldingNext
    <3>4. (onHand[k])' = onHand[k] - (IF NextLine(s) = k THEN 1 ELSE 0) /\ onHand[k] \in Nat
      BY <1>2, <2>1, <2>2
    <3>. QED
      BY <3>1, <3>2, <3>3, <3>4
  <2>4. \A t \in Sale \ {s} : UNCHANGED <<decremented[t], reservation[t]>>
    BY <1>2, <2>1
  <2>. QED
    BY <1>1, <1>2, <2>3, <2>4, SaleMoves DEF Clean
<1>. QED
  BY <1>3, <1>4

(* An order takes over what its sale has taken, which is all of its lines. *)
LEMMA CreateExplained ==
    ASSUME StockInv, StockTypeOK', NEW s \in Sale, CreateOrder(s), UNCHANGED <<moved, blind>>
    PROVE  Explained'
<1>1. StockTypeOK /\ TakenInOrder /\ Explained
  BY ExplainedIs DEF StockInv
<1>2. /\ decremented[s] \in Seq(Sku) /\ StockOps[s] \in Seq(Sku)
      /\ reservation \in [Sale -> {"none", "reserved", "released"}]
      /\ UNCHANGED <<onHand, decremented, late, lost>>
  BY <1>1, SaleAssumption DEF CreateOrder, StockTypeOK, SalesTyped
<1>3. phase[s] = "taking" /\ reservation[s] = "none"
  BY <1>1 DEF CreateOrder, Step, TakenInOrder
<1>4. decremented[s] = StockOps[s]
  BY <1>1, <1>2, <1>3, SeqEqual DEF CreateOrder, TakenInOrder
<1>5. \A t \in Sale \ {s} : UNCHANGED <<decremented[t], reservation[t]>>
  BY <1>2 DEF CreateOrder
<1>6. ASSUME NEW k \in Sku PROVE Holding(s, k)' = Holding(s, k)
  <2>1. Holding(s, k) = Count(StockOps[s], k)
    BY <1>3, <1>4, HoldingIs
  <2>2. CASE (reservation[s])' = "none"
    BY <1>2, <1>4, <2>1, <2>2, HoldingNext
  <2>3. CASE (reservation[s])' = "reserved"
    BY <2>1, <2>3, HoldingNext
  <2>4. CASE (reservation[s])' = "released" /\ StockOps[s] = <<>>
    BY <2>1, <2>4, HoldingNext, CountEmpty
  <2>. QED
    BY <1>2, <1>3, <2>2, <2>3, <2>4 DEF CreateOrder
<1>. QED
  BY <1>1, <1>2, <1>5, <1>6, SaleMoves DEF Clean

(* A line undone moves its unit back; only a late order is undone and      *)
(* kept.                                                                   *)
LEMMA UndoExplained ==
    ASSUME StockInv, StockTypeOK', NEW s \in Sale, UndoLine(s), UNCHANGED <<moved, blind>>
    PROVE  Explained'
<1>1. StockTypeOK /\ TakenInOrder /\ Explained
  BY ExplainedIs DEF StockInv
<1>2. /\ decremented \in [Sale -> Seq(Sku)] /\ onHand \in [Sku -> Nat] /\ lost \in Nat
      /\ UNCHANGED <<reservation, late>>
  BY <1>1 DEF UndoLine, StockTypeOK, SalesTyped
<1>3. CASE decremented[s] = <<>>
  <2>1. UNCHANGED <<onHand, decremented, lost>>
    BY <1>3 DEF UndoLine
  <2>2. \A k \in Sku : Holding(s, k)' = Holding(s, k)
    BY <1>2, <2>1 DEF Holding
  <2>. QED
    BY <1>1, <1>2, <2>1, <2>2, SaleMoves DEF Clean
<1>4. CASE decremented[s] # <<>>
  <2>. DEFINE l == Last(decremented[s])
  <2>1. decremented' = [decremented EXCEPT ![s] = Front(@)]
    BY <1>4 DEF UndoLine
  <2>2. Clean' => Clean /\ onHand' = PutBack(s) /\ reservation[s] = "none"
    BY <1>1, <1>2, <1>4 DEF UndoLine, TakenInOrder, Clean
  <2>3. ASSUME NEW k \in Sku, Clean'
        PROVE  (onHand[k])' + Holding(s, k)' = onHand[k] + Holding(s, k)
    <3>1. /\ Front(decremented[s]) \in Seq(Sku) /\ l \in Sku
          /\ Count(decremented[s], k) = Count(Front(decremented[s]), k) + (IF l = k THEN 1 ELSE 0)
      BY <1>2, <1>4, CountFront
    <3>2. Holding(s, k) = Count(decremented[s], k) /\ Count(Front(decremented[s]), k) \in Nat
      BY <2>2, <2>3, <3>1, HoldingIs, CountType
    <3>3. Holding(s, k)' = Count(Front(decremented[s]), k)
      BY <1>2, <2>1, <2>2, <2>3, HoldingNext
    <3>4. (onHand[k])' = onHand[k] + (IF l = k THEN 1 ELSE 0) /\ onHand[k] \in Nat
      BY <1>2, <2>2, <2>3, <3>1 DEF PutBack
    <3>. QED
      BY <3>1, <3>2, <3>3, <3>4
  <2>4. \A t \in Sale \ {s} : UNCHANGED <<decremented[t], reservation[t]>>
    BY <1>2, <2>1
  <2>5. Clean' => Clean
    BY <2>2
  <2>. QED
    BY <1>1, <2>3, <2>4, <2>5, SaleMoves
<1>. QED
  BY <1>3, <1>4

(* A cancelled order gives back all its lines, or loses their release.     *)
LEMMA CancelExplained ==
    ASSUME StockInv, StockTypeOK', NEW s \in Sale, CancelOrder(s), UNCHANGED <<moved, blind>>
    PROVE  Explained'
<1>1. StockTypeOK /\ Explained
  BY ExplainedIs DEF StockInv
<1>2. /\ reservation \in [Sale -> {"none", "reserved", "released"}] /\ onHand \in [Sku -> Nat]
      /\ StockOps[s] \in Seq(Sku) /\ UNCHANGED <<decremented, late, lost>>
  BY <1>1, SaleAssumption DEF CancelOrder, StockTypeOK, SalesTyped
<1>3. reservation[s] = "reserved" /\ (reservation[s])' = "released"
  BY <1>2 DEF CancelOrder
<1>4. ASSUME NEW k \in Sku
      PROVE  (onHand[k])' + Holding(s, k)' = onHand[k] + Holding(s, k)
  <2>1. Holding(s, k) = Count(StockOps[s], k) /\ Holding(s, k)' = 0
    BY <1>3, HoldingIs, HoldingNext
  <2>2. Count(StockOps[s], k) \in Nat
    BY <1>2, CountType
  <2>3. (onHand[k])' = onHand[k] + Count(StockOps[s], k) /\ onHand[k] \in Nat
    BY <1>2 DEF CancelOrder
  <2>. QED
    BY <2>1, <2>2, <2>3
<1>5. \A t \in Sale \ {s} : UNCHANGED <<decremented[t], reservation[t]>>
  BY <1>2 DEF CancelOrder
<1>. QED
  BY <1>1, <1>2, <1>4, <1>5, SaleMoves DEF Clean

(* A step that leaves the sales alone moves the shelf and moved by as      *)
(* much.                                                                   *)
LEMMA DeskMoves ==
    ASSUME StockTypeOK, StockTypeOK', Explained, UNCHANGED Others, Clean' => Clean,
           \A k \in Sku : Clean' => (onHand[k])' - onHand[k] = (moved[k])' - moved[k]
    PROVE  Explained'
<1>. SUFFICES ASSUME NEW k \in Sku
              PROVE  /\ Held(k) \in Int /\ Held(k)' \in Int
                     /\ Clean' =>
                          (onHand[k])' + Held(k)' = (onHand[k] + Held(k)) + ((moved[k])' - moved[k])
  BY ExplainedMoves
<1>1. Held(k)' = Held(k) /\ Held(k) \in Int
  BY HeldStays DEF Others
<1>2. /\ onHand[k] \in Int /\ (onHand[k])' \in Int /\ moved[k] \in Int /\ (moved[k])' \in Int
  BY DEF StockTypeOK, SalesTyped, SumsTyped
<1>. QED
  BY <1>1, <1>2

-----------------------------------------------------------------------------
(* What a sale has taken, and the form, over a step                        *)

(* A sale takes its lines in order, and gives them back from the last.     *)
LEMMA SaleOrderStep ==
    ASSUME StockTypeOK, TakenInOrder, NEW s \in Sale,
           CheckLines(s) \/ Proceed(s) \/ CancelOrder(s) \/ Crash(s)
    PROVE  TakenInOrder'
<1>1. /\ phase \in [Sale -> SalePhase] /\ decremented \in [Sale -> Seq(Sku)]
      /\ reservation \in [Sale -> {"none", "reserved", "released"}]
      /\ StockOps[s] \in Seq(Sku) /\ decremented[s] \in Seq(Sku) /\ late \in BOOLEAN
  BY SaleAssumption DEF StockTypeOK, SalesTyped
<1>2. CASE CheckLines(s)
  <2>1. phase[s] = "new" /\ decremented[s] = <<>> /\ reservation[s] = "none"
    BY <1>2 DEF CheckLines, Step, TakenInOrder
  <2>2. phase' = [phase EXCEPT ![s] = "taking"] /\ UNCHANGED <<decremented, reservation, late>>
    BY <1>2 DEF CheckLines, Step
  <2>. QED
    BY <1>1, <2>1, <2>2 DEF TakenInOrder
<1>3. CASE TakeLine(s)
  <2>0. UNCHANGED <<reservation, late>> /\ phase[s] = "taking" /\ reservation[s] = "none"
    BY <1>3 DEF TakeLine, Step, TakenInOrder
  <2>1. CASE ShortOf(s)
    <3>1. phase' = [phase EXCEPT ![s] = "undoing"] /\ UNCHANGED decremented
      BY <1>3, <2>1 DEF TakeLine, Step
    <3>. QED
      BY <1>1, <2>0, <3>1 DEF TakenInOrder
  <2>2. CASE ~ShortOf(s)
    <3>. DEFINE n == Len(decremented[s])
                more == Append(decremented[s], NextLine(s))
    <3>1. /\ UNCHANGED phase /\ n < Len(StockOps[s])
          /\ decremented' = [decremented EXCEPT ![s] = more]
      BY <1>3, <2>2 DEF TakeLine
    <3>2. NextLine(s) \in Sku
      BY <1>1, <3>1 DEF NextLine
    <3>3. /\ Len(more) = n + 1 /\ more[n + 1] = StockOps[s][n + 1]
          /\ \A i \in 1 .. n : more[i] = decremented[s][i]
      BY <1>1, <3>2, AppendProperties DEF NextLine
    <3>4. \A i \in 1 .. n : decremented[s][i] = StockOps[s][i]
      BY <2>0 DEF TakenInOrder
    <3>5. n \in Nat /\ Len(StockOps[s]) \in Nat
      BY <1>1
    <3>. HIDE DEF n, more
    <3>6. Len(more) <= Len(StockOps[s]) /\ \A i \in 1 .. Len(more) : more[i] = StockOps[s][i]
      BY <3>1, <3>3, <3>4, <3>5
    <3>7. \A t \in Sale : (decremented[t])' = IF t = s THEN more ELSE decremented[t]
      BY <1>1, <3>1
    <3>. QED
      BY <1>1, <2>0, <3>1, <3>6, <3>7 DEF TakenInOrder
  <2>. QED
    BY <2>1, <2>2
<1>4. CASE CreateOrder(s)
  <2>1. /\ phase[s] = "taking" /\ reservation[s] = "none" /\ UNCHANGED <<decremented, late>>
        /\ \A t \in Sale \ {s} : UNCHANGED <<phase[t], reservation[t]>>
    BY <1>1, <1>4 DEF CreateOrder, Step, TakenInOrder
  <2>2. \/ (phase[s])' = "recording"
        \/ (phase[s])' = "undoing" /\ (reservation[s])' = "none"
    BY <1>1, <1>4, <2>1 DEF CreateOrder, Step
  <2>. QED
    BY <2>1, <2>2 DEF TakenInOrder
<1>5. CASE RecordSale(s)
  <2>1. /\ UNCHANGED <<decremented, reservation>> /\ (late => late')
        /\ \A t \in Sale \ {s} : UNCHANGED phase[t]
        /\ (phase[s])' = "done" \/ ((phase[s])' = "undoing" /\ late')
    BY <1>1, <1>5 DEF RecordSale, Step
  <2>. QED
    BY <2>1 DEF TakenInOrder
<1>6. CASE UndoLine(s)
  <2>1. /\ UNCHANGED <<reservation, late>> /\ phase[s] = "undoing"
        /\ \A t \in Sale \ {s} : UNCHANGED <<phase[t], decremented[t]>>
        /\ (phase[s])' \in {"undoing", "failed"}
    BY <1>1, <1>6 DEF UndoLine, Step
  <2>. QED
    BY <2>1 DEF TakenInOrder
<1>7. CASE CancelOrder(s)
  <2>1. /\ UNCHANGED <<phase, decremented, late>> /\ reservation[s] = "reserved"
        /\ \A t \in Sale \ {s} : UNCHANGED reservation[t]
    BY <1>1, <1>7 DEF CancelOrder
  <2>. QED
    BY <2>1 DEF TakenInOrder
<1>8. CASE Crash(s)
  <2>1. /\ UNCHANGED <<decremented, reservation, late>> /\ (phase[s])' = "dead"
        /\ \A t \in Sale \ {s} : UNCHANGED phase[t]
    BY <1>1, <1>8 DEF Crash
  <2>. QED
    BY <2>1 DEF TakenInOrder
<1>. QED
  BY <1>2, <1>3, <1>4, <1>5, <1>6, <1>7, <1>8 DEF Proceed

(* A step that writes the stock of a product overtakes its open form.      *)
LEMMA SaleFormStep ==
    ASSUME StockTypeOK, FormFresh, SaleStep(SaleNext) PROVE FormFresh'
  BY DEF SaleStep, Touch, FormFresh, StockTypeOK, DeskTyped, FormType

(* A save of the document, or of its total, overtakes an open form.        *)
LEMMA Overtaken == ASSUME StockTypeOK, Touch PROVE FormFresh'
  BY DEF Touch, FormFresh, StockTypeOK, DeskTyped, FormType

-----------------------------------------------------------------------------
(* The invariant                                                           *)

(* Before anything happens the shelf holds the opening stock.              *)
LEMMA StockInvInit == StockInit => StockInv
<1>. SUFFICES ASSUME StockInit PROVE StockInv
  OBVIOUS
<1>1. StockTypeOK
  BY StockTypeInit
<1>2. PICK sales \in SUBSET Sale : SaleInit(sales)
  BY ScenarioAssumption DEF StockInit
<1>3. form = NoForm /\ moved = [k \in Sku |-> 0]
  BY DEF StockInit
<1>4. TakenInOrder
  BY <1>2 DEF SaleInit, TakenInOrder
<1>5. FormFresh
  BY <1>3 DEF NoForm, FormFresh
<1>6. Explained
  <2>. SUFFICES ASSUME NEW k \in Sku PROVE onHand[k] + Held(k) = InitStock[k] + moved[k]
    BY DEF Explained
  <2>. DEFINE f == [s \in Sale |-> Holding(s, k)]
  <2>1. \A s \in Sale : f[s] = 0
    <3>1. \A s \in Sale : reservation[s] = "none" /\ decremented[s] = <<>>
      BY <1>2 DEF SaleInit
    <3>. QED
      BY <3>1, HoldingIs, CountEmpty
  <2>2. Held(k) = Total(f, Sale)
    BY DEF Held
  <2>. HIDE DEF f
  <2>3. Total(f, Sale) = Total(f, {})
    BY <2>1, SaleAssumption, TotalPart
  <2>4. Held(k) = 0
    BY <2>2, <2>3, TotalEmpty
  <2>5. onHand[k] = InitStock[k] /\ moved[k] = 0 /\ InitStock[k] \in Nat
    BY <1>2, <1>3, SaleAssumption DEF SaleInit
  <2>. QED
    BY <2>4, <2>5
<1>. QED
  BY <1>1, <1>4, <1>5, <1>6, ExplainedIs DEF StockInv

(* Every step of a sale keeps the invariant,                               *)
LEMMA SaleInvStep == ASSUME StockInv, SaleStep(SaleNext) PROVE StockInv'
<1>1. StockTypeOK' /\ StockTypeOK /\ TakenInOrder /\ FormFresh /\ Explained
  BY SaleTypeStep, ExplainedIs DEF StockInv
<1>2. PICK s \in Sale : CheckLines(s) \/ Proceed(s) \/ CancelOrder(s) \/ Crash(s)
  BY DEF SaleStep, SaleNext
<1>3. TakenInOrder' /\ FormFresh'
  BY <1>1, <1>2, SaleOrderStep, SaleFormStep
<1>4. UNCHANGED <<moved, blind>>
  BY DEF SaleStep
<1>5. Explained'
  <2>1. ASSUME UNCHANGED <<onHand, decremented, reservation, lost>>, late => late'
        PROVE  Explained'
    <3>1. \A k \in Sku : Holding(s, k)' = Holding(s, k)
      BY <2>1 DEF Holding
    <3>. QED
      BY <1>1, <1>4, <2>1, <3>1, SaleMoves DEF Clean
  <2>2. CASE CheckLines(s)
    BY <2>1, <2>2 DEF CheckLines
  <2>3. CASE RecordSale(s)
    BY <2>1, <2>3 DEF RecordSale
  <2>4. CASE Crash(s)
    BY <2>1, <2>4 DEF Crash
  <2>. QED
    BY <1>1, <1>2, <1>4, <2>2, <2>3, <2>4, TakeExplained, CreateExplained, UndoExplained,
       CancelExplained DEF Proceed
<1>6. StockIsExplained'
  BY <1>1, <1>5, ExplainedNext
<1>. QED
  BY <1>1, <1>3, <1>6 DEF StockInv

(* and every step of an admin, a delivery and the reconciliation.          *)
LEMMA DeskInvStep ==
    ASSUME StockInv, [StockNext]_stockVars, ~SaleStep(SaleNext) PROVE StockInv'
<1>1. StockTypeOK' /\ StockTypeOK /\ TakenInOrder /\ FormFresh /\ Explained
  BY DeskTypeStep, ExplainedIs DEF StockInv
<1>2. onHand \in [Sku -> Nat] /\ moved \in [Sku -> Int] /\ form \in FormType
  BY <1>1 DEF StockTypeOK, SalesTyped, DeskTyped, SumsTyped
<1>3. UNCHANGED Others /\ FormFresh' /\ Explained'
  <2>1. ASSUME UNCHANGED <<onHand, moved, blind, Others>> PROVE Explained'
    BY <1>1, <1>2, <2>1, DeskMoves DEF Clean, Others
  <2>2. ASSUME NEW k \in Sku, NEW delta \in Delta, AdjustStock(k, delta)
        PROVE  UNCHANGED Others /\ FormFresh' /\ Explained'
    <3>1. /\ UNCHANGED <<Others, blind>> /\ Touch
          /\ onHand' = [onHand EXCEPT ![k] = @ + delta]
          /\ moved' = [moved EXCEPT ![k] = @ + delta]
      BY <2>2 DEF AdjustStock, Save
    <3>2. \A j \in Sku : (onHand[j])' - onHand[j] = (moved[j])' - moved[j]
      BY <1>2, <3>1 DEF Delta
    <3>. QED
      BY <1>1, <3>1, <3>2, DeskMoves, Overtaken DEF Clean, Others
  <2>3. ASSUME NEW k \in Sku, NEW delta \in Delta, NEW dated \in BOOLEAN,
               OpenForm(k, delta, dated)
        PROVE  UNCHANGED Others /\ FormFresh' /\ Explained'
    <3>1. UNCHANGED <<onHand, moved, blind, Others>> /\ (form.saw)' = onHand
      BY <2>3 DEF OpenForm, saleVars, Others
    <3>. QED
      BY <2>1, <3>1 DEF FormFresh
  <2>4. ASSUME NEW r \in Receipt, CheckReceipt(r)
        PROVE  UNCHANGED Others /\ FormFresh' /\ Explained'
    <3>1. UNCHANGED <<onHand, moved, blind, Others, form>>
      BY <2>4 DEF CheckReceipt, saleVars, Others
    <3>. QED
      BY <1>1, <2>1, <3>1 DEF FormFresh
  <2>5. ASSUME NEW r \in Receipt, RecordReceipt(r)
        PROVE  UNCHANGED Others /\ FormFresh' /\ Explained'
    <3>1. CASE Indexed(r)
      <4>1. UNCHANGED <<onHand, moved, blind, Others, form>>
        BY <2>5, <3>1 DEF RecordReceipt, product
      <4>. QED
        BY <1>1, <2>1, <4>1 DEF FormFresh
    <3>2. CASE ~Indexed(r)
      <4>1. /\ UNCHANGED <<Others, blind>> /\ Touch
            /\ onHand' = [onHand EXCEPT ![Delivered] = @ + 1]
            /\ moved' = [moved EXCEPT ![Delivered] = @ + 1]
        BY <2>5, <3>2 DEF RecordReceipt, Save
      <4>2. \A j \in Sku : (onHand[j])' - onHand[j] = (moved[j])' - moved[j]
        BY <1>2, <4>1
      <4>. QED
        BY <1>1, <4>1, <4>2, DeskMoves, Overtaken DEF Clean, Others
    <3>. QED
      BY <3>1, <3>2
  <2>6. CASE VoidInvoice
    <3>1. UNCHANGED <<onHand, moved, blind, Others, form>>
      BY <2>6 DEF VoidInvoice, saleVars, Others
    <3>. QED
      BY <1>1, <2>1, <3>1 DEF FormFresh
  <2>7. CASE UpdateProduct
    <3>1. UNCHANGED Others /\ form' = NoForm /\ (blind => blind')
      BY <2>7 DEF UpdateProduct, SaveForm
    <3>2. FormFresh'
      BY <3>1 DEF NoForm, FormFresh
    <3>3. ASSUME Clean'
          PROVE  Clean /\ \A k \in Sku : (onHand[k])' - onHand[k] = (moved[k])' - moved[k]
      <4>1. Clean /\ (form.dated \/ form.current) /\ form.open
        <5>1. blind' = (blind \/ ~(form.dated \/ form.current)) /\ form.open
          BY <2>7 DEF UpdateProduct
        <5>2. UNCHANGED <<late, lost>> /\ ~blind' /\ ~late' /\ lost' = 0
          BY <3>1, <3>3 DEF Clean, Others
        <5>. QED
          BY <5>1, <5>2 DEF Clean
      <4>2. CASE form.dated /\ ~form.current
        <5>1. UNCHANGED <<onHand, moved>>
          BY <2>7, <4>2 DEF UpdateProduct, product
        <5>. QED
          BY <1>2, <4>1, <5>1
      <4>3. CASE ~(form.dated /\ ~form.current)
        <5>1. SaveForm /\ form.current
          BY <1>2, <2>7, <4>1, <4>3 DEF UpdateProduct, FormType
        <5>2. form.saw = onHand /\ form.typed \in [Sku -> Nat]
          BY <1>1, <1>2, <4>1, <5>1 DEF FormFresh, FormType
        <5>. QED
          BY <1>2, <4>1, <5>1, <5>2 DEF SaveForm
      <4>. QED
        BY <4>2, <4>3
    <3>. QED
      BY <1>1, <3>1, <3>2, <3>3, DeskMoves
  <2>8. CASE Reconcile
    <3>1. UNCHANGED <<onHand, moved, blind, Others>> /\ (UNCHANGED form \/ Touch)
      BY <2>8 DEF Reconcile, FindDrift, ReadVariants, StoreTotal, saleVars, Others
    <3>2. FormFresh'
      BY <1>1, <3>1, Overtaken DEF FormFresh
    <3>. QED
      BY <2>1, <3>1, <3>2
  <2>9. CASE UNCHANGED stockVars
    <3>1. UNCHANGED <<onHand, moved, blind, Others, form>>
      BY <2>9 DEF stockVars, saleVars, desk, Others
    <3>. QED
      BY <1>1, <2>1, <3>1 DEF FormFresh
  <2>. QED
    BY <2>2, <2>3, <2>4, <2>5, <2>6, <2>7, <2>8, <2>9 DEF StockNext
<1>4. TakenInOrder'
  BY <1>1, <1>3 DEF TakenInOrder, Others
<1>5. StockIsExplained'
  BY <1>1, <1>3, ExplainedNext
<1>. QED
  BY <1>1, <1>3, <1>4, <1>5 DEF StockInv

(* For any products, sales, deliveries and scenarios: the stock of every   *)
(* variant is its opening stock and what admins, forms and deliveries      *)
(* meant to add, less what the sales hold, unless an undated form, a late  *)
(* order or a lost release made a difference.                              *)
THEOREM StockExplained == StockSpec => []StockIsExplained
<1>1. StockInv /\ [StockNext]_stockVars => StockInv'
  BY SaleInvStep, DeskInvStep
<1>2. StockInv => StockIsExplained
  BY DEF StockInv
<1>. QED
  BY <1>1, <1>2, StockInvInit, PTL DEF StockSpec
=============================================================================
