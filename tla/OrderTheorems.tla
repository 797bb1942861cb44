---------------------------- MODULE OrderTheorems ----------------------------
(***************************************************************************)
(* What the sequences of Orders are: by counting predecessors, a strict     *)
(* total order of a finite set gives every element its own place.           *)
(***************************************************************************)
EXTENDS Orders, FiniteSetTheorems, WellFoundedInduction, TLAPS

\* A set of numbers that is not empty has a least and, when it is bounded, a
\* greatest.
LEMMA HasLeast ==
    ASSUME NEW S \in SUBSET Nat, S # {}
    PROVE  \E x \in S : \A y \in S : x <= y
<1>1. PICK x \in S : \A y \in S : <<y, x>> \notin OpToRel(<, Nat)
  BY NatLessThanWellFounded, WFMin
<1>2. OpToRel(<, Nat) = {p \in Nat \X Nat : p[1] < p[2]}
  BY ZenonT(20) DEF OpToRel
<1>3. ASSUME NEW y \in S PROVE ~(y < x)
  <2>1. <<y, x>> \in Nat \X Nat /\ <<y, x>>[1] = y /\ <<y, x>>[2] = x
    OBVIOUS
  <2>. QED
    BY <1>1, <1>2, <2>1
<1>. QED
  BY <1>3

LEMMA HasGreatest ==
    ASSUME NEW S, NEW n \in Nat, S \subseteq 0 .. n, S # {}
    PROVE  \E x \in S : \A y \in S : x >= y
<1> DEFINE T == {n - x : x \in S}
<1>1. T \in SUBSET Nat /\ T # {}
  <2>1. \A x \in S : n - x \in Nat
    OBVIOUS
  <2>2. PICK x \in S : TRUE
    OBVIOUS
  <2>3. n - x \in T
    OBVIOUS
  <2>. QED
    BY <2>1, <2>3
<1>2. PICK t \in T : \A u \in T : t <= u
  BY <1>1, HasLeast
<1>3. PICK x \in S : t = n - x
  OBVIOUS
<1>4. \A y \in S : n - y \in T
  OBVIOUS
<1>. QED
  BY <1>2, <1>3, <1>4

\* What holds of 0, and of a number if of the one before, holds up to n.
LEMMA UpTo ==
    ASSUME NEW n \in Nat, NEW S, 0 \in S, \A k \in 1 .. n : k - 1 \in S => k \in S
    PROVE  0 .. n \subseteq S
<1> DEFINE B == (0 .. n) \ S
<1>1. ASSUME B # {} PROVE FALSE
  <2>1. PICK m \in B : \A y \in B : m <= y
    <3>1. B \in SUBSET Nat
      OBVIOUS
    <3>. HIDE DEF B
    <3>. QED
      BY <1>1, <3>1, HasLeast
  <2>2. m \in 1 .. n /\ m - 1 \in 0 .. n /\ m - 1 \notin B
    BY <2>1
  <2>. QED
    BY <2>2
<1>. QED
  BY <1>1

\* A walk of n steps in X, the i-th by g[i], can be taken.
Strides(n, X) == [1 .. n -> [X -> X]]

IsWalk(n, X, x, g, f) ==
    /\ f \in [0 .. n -> X]
    /\ f[0] = x
    /\ \A i \in 1 .. n : f[i] = g[i][f[i - 1]]

LEMMA Walk ==
    ASSUME NEW n \in Nat, NEW X, NEW x \in X, NEW g \in Strides(n, X)
    PROVE  \E f : IsWalk(n, X, x, g, f)
<1> DEFINE S == {m \in 0 .. n : \E f : IsWalk(m, X, x, g, f)}
<1>1. 0 \in S
  <2>1. IsWalk(0, X, x, g, [k \in 0 .. 0 |-> x])
    BY DEF IsWalk
  <2>. QED
    BY <2>1
<1>2. ASSUME NEW m \in 1 .. n, m - 1 \in S PROVE m \in S
  <2>1. PICK f : IsWalk(m - 1, X, x, g, f)
    BY <1>2
  <2> DEFINE h == [k \in 0 .. m |-> IF k = m THEN g[m][f[m - 1]] ELSE f[k]]
  <2>2. g[m] \in [X -> X] /\ f[m - 1] \in X
    BY <2>1 DEF IsWalk, Strides
  <2>3. h \in [0 .. m -> X] /\ h[0] = x
    BY <2>1, <2>2 DEF IsWalk
  <2>4. \A k \in 1 .. m : h[k] = g[k][h[k - 1]]
    BY <2>1, <2>2 DEF IsWalk
  <2>5. IsWalk(m, X, x, g, h)
    BY <2>3, <2>4 DEF IsWalk
  <2>. HIDE DEF h
  <2>. QED
    BY <2>5
<1>. HIDE DEF S
<1>3. 0 .. n \subseteq S
  BY <1>1, <1>2, UpTo
<1>. QED
  BY <1>3 DEF S

\* What goes before i.
Preds(P, R, i) == {j \in P : <<j, i>> \in R}

TotalOrder(P, R) ==
    /\ \A i \in P : <<i, i>> \notin R
    /\ \A i, j, k \in P : <<i, j>> \in R /\ <<j, k>> \in R => <<i, k>> \in R
    /\ \A i, j \in P : i # j => <<i, j>> \in R \/ <<j, i>> \in R

\* In a strict total order R of a finite set, each number below the set's size
\* is that of the predecessors of one element, and who has fewer goes before.
LEMMA Ranked ==
    ASSUME NEW P, IsFiniteSet(P), NEW R, TotalOrder(P, R)
    PROVE  /\ Cardinality(P) \in Nat
           /\ \A m \in 0 .. Cardinality(P) - 1 :
                \E i \in P : Cardinality(Preds(P, R, i)) = m
           /\ \A i, j \in P :
                Cardinality(Preds(P, R, i)) < Cardinality(Preds(P, R, j)) <=> <<i, j>> \in R
           /\ \A i \in P : Cardinality(Preds(P, R, i)) \in 0 .. Cardinality(P) - 1
<1> DEFINE Pred(i) == Preds(P, R, i)
           n == Cardinality(P)
           rank == [i \in P |-> Cardinality(Pred(i))]
<1>. HIDE DEF Pred, n, rank
<1>1. n \in Nat
  BY FS_CardinalityType DEF n
<1>2. ASSUME NEW i \in P
      PROVE  IsFiniteSet(Pred(i)) /\ Cardinality(Pred(i)) \in 0 .. n - 1
  <2>1. IsFiniteSet(P \ {i}) /\ Cardinality(P \ {i}) = n - 1
    BY FS_RemoveElement DEF n
  <2>2. Pred(i) \in SUBSET (P \ {i})
    BY DEF Pred, Preds, TotalOrder
  <2>3. IsFiniteSet(Pred(i)) /\ Cardinality(Pred(i)) <= Cardinality(P \ {i})
    BY <2>1, <2>2, FS_Subset
  <2>4. Cardinality(Pred(i)) \in Nat
    BY <2>3, FS_CardinalityType
  <2>. QED
    BY <1>1, <2>1, <2>3, <2>4
<1>3. ASSUME NEW i \in P, NEW j \in P, <<i, j>> \in R
      PROVE  Cardinality(Pred(i)) < Cardinality(Pred(j))
  <2>1. Pred(i) \in SUBSET Pred(j)
    BY <1>3 DEF Pred, Preds, TotalOrder
  <2>2. Pred(i) # Pred(j)
    BY <1>3 DEF Pred, Preds, TotalOrder
  <2>3. /\ Cardinality(Pred(i)) <= Cardinality(Pred(j))
        /\ Cardinality(Pred(i)) # Cardinality(Pred(j))
    BY <1>2, <2>1, <2>2, FS_Subset
  <2>. QED
    BY <1>1, <1>2, <2>3
<1>4. ASSUME NEW i \in P, NEW j \in P, Cardinality(Pred(i)) < Cardinality(Pred(j))
      PROVE  <<i, j>> \in R
  <2>1. i # j
    BY <1>1, <1>2, <1>4
  <2>2. CASE <<j, i>> \in R
    BY <1>1, <1>2, <1>3, <1>4, <2>2
  <2>. QED
    BY <2>1, <2>2 DEF TotalOrder
<1>5. rank \in Surjection(P, 0 .. n - 1)
  <2>1. rank \in [P -> 0 .. n - 1]
    BY <1>2 DEF rank
  <2>2. ASSUME NEW i \in P, NEW j \in P, rank[i] = rank[j]
        PROVE  i = j
    <3>1. /\ Cardinality(Pred(i)) = Cardinality(Pred(j))
          /\ Cardinality(Pred(i)) \in Nat
      BY <1>1, <1>2, <2>2 DEF rank
    <3>2. <<i, j>> \notin R /\ <<j, i>> \notin R
      BY <1>3, <3>1
    <3>. QED
      BY <3>2 DEF TotalOrder
  <2>3. rank \in Injection(P, 0 .. n - 1)
    BY <2>1, <2>2 DEF Injection, IsInjective
  <2>4. IsFiniteSet(0 .. n - 1) /\ Cardinality(0 .. n - 1) = n
    BY <1>1, FS_Interval
  <2>. QED
    BY <2>3, <2>4, FS_Injection DEF n
<1>6. \A m \in 0 .. n - 1 : \E i \in P : rank[i] = m
  BY <1>5 DEF Surjection
<1>. QED
  <2>1. \A i, j \in P : Cardinality(Pred(i)) < Cardinality(Pred(j)) <=> <<i, j>> \in R
    BY <1>3, <1>4
  <2>2. \A m \in 0 .. n - 1 : \E i \in P : Cardinality(Pred(i)) = m
    BY <1>6 DEF rank
  <2>. QED
    BY <1>1, <1>2, <2>1, <2>2 DEF Pred, n

\* Which element is at which place.
Place(P, R) ==
    [k \in 1 .. Cardinality(P) |-> CHOOSE i \in P : Cardinality(Preds(P, R, i)) = k - 1]

\* Every element has its place, in the order.
LEMMA PlaceIs ==
    ASSUME NEW P, IsFiniteSet(P), NEW R, TotalOrder(P, R)
    PROVE  /\ Cardinality(P) \in Nat
           /\ Place(P, R) \in [1 .. Cardinality(P) -> P]
           /\ \A k, l \in 1 .. Cardinality(P) :
                k < l => <<Place(P, R)[k], Place(P, R)[l]>> \in R
           /\ \A i \in P : \E k \in 1 .. Cardinality(P) : Place(P, R)[k] = i
<1> DEFINE n == Cardinality(P)
           Rank(i) == Cardinality(Preds(P, R, i))
           at == Place(P, R)
<1>. HIDE DEF n, Rank
<1>1. /\ n \in Nat
      /\ \A m \in 0 .. n - 1 : \E i \in P : Rank(i) = m
      /\ \A i, j \in P : Rank(i) < Rank(j) <=> <<i, j>> \in R
      /\ \A i \in P : Rank(i) \in 0 .. n - 1
  BY Ranked DEF n, Rank
<1>2. at = [k \in 1 .. n |-> CHOOSE i \in P : Rank(i) = k - 1]
  BY DEF Place, n, Rank
<1>. HIDE DEF at
<1>3. ASSUME NEW k \in 1 .. n
      PROVE  at[k] \in P /\ Rank(at[k]) = k - 1
  <2>1. k - 1 \in 0 .. n - 1
    BY <1>1
  <2>2. \E i \in P : Rank(i) = k - 1
    BY <1>1, <2>1
  <2>. QED
    BY <1>2, <2>2
<1>4. at \in [1 .. n -> P]
  BY <1>2, <1>3
<1>5. ASSUME NEW k \in 1 .. n, NEW l \in 1 .. n, k < l
      PROVE  <<at[k], at[l]>> \in R
  BY <1>1, <1>3, <1>5
<1>6. ASSUME NEW i \in P
      PROVE  \E k \in 1 .. n : at[k] = i
  <2> DEFINE k == Rank(i) + 1
  <2>1. k \in 1 .. n /\ Rank(i) = k - 1 /\ Rank(i) \in Nat
    BY <1>1
  <2>2. at[k] \in P /\ Rank(at[k]) = Rank(i)
    BY <1>3, <2>1
  <2>3. <<at[k], i>> \notin R /\ <<i, at[k]>> \notin R
    BY <1>1, <2>1, <2>2
  <2>. QED
    BY <2>1, <2>2, <2>3 DEF TotalOrder
<1>. QED
  BY <1>1, <1>4, <1>5, <1>6 DEF n, at

\* The numbers up to n are n.
LEMMA OneTo ==
    ASSUME NEW n \in Nat
    PROVE  IsFiniteSet(1 .. n) /\ Cardinality(1 .. n) = n
<1>1. /\ IsFiniteSet(1 .. n)
      /\ Cardinality(1 .. n) = IF 1 > n THEN 0 ELSE n - 1 + 1
  BY FS_Interval
<1>. QED
  BY <1>1

\* A finite set that a total order is on has a first.
LEMMA FirstOf ==
    ASSUME NEW P, IsFiniteSet(P), P # {}, NEW R, TotalOrder(P, R)
    PROVE  \E s \in P : \A q \in P \ {s} : <<s, q>> \in R
<1> DEFINE n == Cardinality(P)
           at == Place(P, R)
<1>1. /\ n \in Nat /\ at \in [1 .. n -> P]
      /\ \A k, l \in 1 .. n : k < l => <<at[k], at[l]>> \in R
      /\ \A i \in P : \E k \in 1 .. n : at[k] = i
  BY PlaceIs
<1>. HIDE DEF n, at
<1>2. PICK i \in P : TRUE
  OBVIOUS
<1>3. 1 \in 1 .. n
  BY <1>1, <1>2
<1>4. ASSUME NEW q \in P \ {at[1]} PROVE <<at[1], q>> \in R
  <2>1. PICK k \in 1 .. n : at[k] = q
    BY <1>1
  <2>2. k # 1
    BY <2>1
  <2>3. 1 < k
    BY <1>1, <2>1, <2>2
  <2>. QED
    BY <1>1, <1>3, <2>1, <2>3
<1>5. at[1] \in P
  BY <1>1, <1>3
<1>. QED
  BY <1>4, <1>5

LEMMA ASeqOf ==
    ASSUME NEW S, NEW n \in Nat, NEW f, f = [i \in 1 .. n |-> f[i]],
           \A i \in 1 .. n : f[i] \in S
    PROVE  f \in Seq(S) /\ Len(f) = n
OBVIOUS

\* The places of a sequence are in a strict total order.
LEMMA PlacesInOrder ==
    ASSUME NEW S, NEW s \in Seq(S), NEW P \in SUBSET DOMAIN s
    PROVE  /\ IsFiniteSet(P) /\ P \subseteq Nat /\ IsFiniteSet(DOMAIN s)
           /\ DOMAIN s = 1 .. Len(s) /\ Len(s) \in Nat
           /\ Cardinality(DOMAIN s) = Len(s)
           /\ TotalOrder(P, {x \in P \X P : x[1] < x[2]})
           /\ \A i \in P : Preds(P, {x \in P \X P : x[1] < x[2]}, i) = {j \in P : j < i}
<1> DEFINE R == {x \in P \X P : x[1] < x[2]}
<1>1. DOMAIN s = 1 .. Len(s) /\ Len(s) \in Nat
  OBVIOUS
<1>2. IsFiniteSet(DOMAIN s) /\ Cardinality(DOMAIN s) = Len(s)
  <2>1. /\ IsFiniteSet(1 .. Len(s))
        /\ Cardinality(1 .. Len(s)) = IF 1 > Len(s) THEN 0 ELSE Len(s) - 1 + 1
    BY <1>1, FS_Interval
  <2>. QED
    BY <1>1, <2>1
<1>3. IsFiniteSet(P)
  BY <1>2, FS_Subset
<1>4. P \subseteq Nat
  BY <1>1
<1>5. \A i, j \in P : <<i, j>> \in R <=> i < j
  OBVIOUS
<1>. HIDE DEF R
<1>6. TotalOrder(P, R)
  BY <1>4, <1>5 DEF TotalOrder
<1>7. \A i \in P : Preds(P, R, i) = {j \in P : j < i}
  BY <1>5 DEF Preds
<1>. QED
  BY <1>1, <1>2, <1>3, <1>4, <1>6, <1>7 DEF R

\* The places of P, in order.
InOrder(P) == Place(P, {x \in P \X P : x[1] < x[2]})

\* t has the elements of s at the places of P, each once and in order.
Selection(S, t, s, P, at) ==
    /\ Cardinality(P) \in Nat
    /\ t \in Seq(S) /\ Len(t) = Cardinality(P)
    /\ at \in [1 .. Cardinality(P) -> P]
    /\ \A k \in 1 .. Cardinality(P) : t[k] = s[at[k]]
    /\ \A k, l \in 1 .. Cardinality(P) : k < l => at[k] < at[l]
    /\ \A i \in P : \E k \in 1 .. Cardinality(P) : at[k] = i

\* t has the elements of s, each once, in the order of R.
Arrangement(S, t, s, R, at) ==
    /\ t \in Seq(S) /\ Len(t) = Len(s)
    /\ at \in [1 .. Len(s) -> 1 .. Len(s)]
    /\ \A k \in 1 .. Len(s) : t[k] = s[at[k]]
    /\ \A k, l \in 1 .. Len(s) : k < l => <<at[k], at[l]>> \in R
    /\ \A i \in 1 .. Len(s) : \E k \in 1 .. Len(s) : at[k] = i

\* SubSequence selects.
LEMMA SubSequenceIs ==
    ASSUME NEW S, NEW s \in Seq(S), NEW P \in SUBSET DOMAIN s
    PROVE  Selection(S, SubSequence(s, P), s, P, InOrder(P))
<1> DEFINE R == {x \in P \X P : x[1] < x[2]}
           n == Cardinality(P)
           at == Place(P, R)
           sub == SubSequence(s, P)
<1>1. /\ IsFiniteSet(P) /\ TotalOrder(P, R)
      /\ \A i \in P : Preds(P, R, i) = {j \in P : j < i}
  BY PlacesInOrder
<1>2. \A i, j \in P : <<i, j>> \in R => i < j
  OBVIOUS
<1>. HIDE DEF R
<1>3. /\ n \in Nat
      /\ at \in [1 .. n -> P]
      /\ \A k, l \in 1 .. n : k < l => <<at[k], at[l]>> \in R
      /\ \A i \in P : \E k \in 1 .. n : at[k] = i
  BY <1>1, PlaceIs
<1>4. \A k \in 1 .. n : at[k] = CHOOSE i \in P : Cardinality({j \in P : j < i}) = k - 1
  <2>1. ASSUME NEW k \in 1 .. n
        PROVE  (CHOOSE i \in P : Cardinality(Preds(P, R, i)) = k - 1)
             = (CHOOSE i \in P : Cardinality({j \in P : j < i}) = k - 1)
    <3>1. \A i \in P : (Cardinality(Preds(P, R, i)) = k - 1)
                       <=> (Cardinality({j \in P : j < i}) = k - 1)
      BY <1>1
    <3>. QED
      BY <3>1
  <2>. QED
    BY <2>1 DEF Place
<1>5. \A k \in 1 .. n : sub[k] = s[at[k]]
  BY <1>4 DEF SubSequence
<1>6. sub = [k \in 1 .. n |-> sub[k]] /\ \A k \in 1 .. n : sub[k] \in S
  <2>1. sub = [k \in 1 .. n |-> sub[k]]
    BY DEF SubSequence
  <2>2. \A i \in P : s[i] \in S
    OBVIOUS
  <2>. HIDE DEF at, n, sub
  <2>. QED
    BY <1>3, <1>5, <2>1, <2>2
<1>7. InOrder(P) = at
  BY DEF InOrder, R
<1>. HIDE DEF at, n, sub
<1>8. sub \in Seq(S) /\ Len(sub) = n
  BY <1>3, <1>6, ASeqOf
<1>9. \A k, l \in 1 .. n : k < l => at[k] < at[l]
  BY <1>2, <1>3
<1>. QED
  BY <1>3, <1>5, <1>7, <1>8, <1>9 DEF n, sub, Selection

\* Ordered arranges.
LEMMA OrderedIs ==
    ASSUME NEW S, NEW s \in Seq(S), NEW R, TotalOrder(DOMAIN s, R)
    PROVE  Arrangement(S, Ordered(s, R), s, R, Place(DOMAIN s, R))
<1> DEFINE P == DOMAIN s
           n == Cardinality(P)
           at == Place(P, R)
           ord == Ordered(s, R)
<1>1. IsFiniteSet(P) /\ P = 1 .. Len(s) /\ n = Len(s) /\ Len(s) \in Nat
  BY PlacesInOrder
<1>2. /\ at \in [1 .. n -> P]
      /\ \A k, l \in 1 .. n : k < l => <<at[k], at[l]>> \in R
      /\ \A i \in P : \E k \in 1 .. n : at[k] = i
  BY <1>1, PlaceIs
<1>3. \A k \in 1 .. n : ord[k] = s[at[k]]
  BY <1>1 DEF Ordered, Place, Preds
<1>4. ord = [k \in 1 .. n |-> ord[k]] /\ \A k \in 1 .. n : ord[k] \in S
  <2>1. ord = [k \in 1 .. n |-> ord[k]]
    BY <1>1 DEF Ordered
  <2>2. \A i \in P : s[i] \in S
    OBVIOUS
  <2>. HIDE DEF at, n, ord
  <2>. QED
    BY <1>2, <1>3, <2>1, <2>2
<1>5. P = 1 .. n
  BY <1>1
<1>. HIDE DEF at, n, ord, P
<1>6. ord \in Seq(S) /\ Len(ord) = n
  BY <1>1, <1>4, ASeqOf
<1>7. at \in [1 .. n -> 1 .. n] /\ \A i \in 1 .. n : \E k \in 1 .. n : at[k] = i
  BY <1>2, <1>5
<1>8. n = Len(s)
  BY <1>1
<1>9. /\ ord \in Seq(S) /\ Len(ord) = Len(s)
      /\ at \in [1 .. Len(s) -> 1 .. Len(s)]
      /\ \A k \in 1 .. Len(s) : ord[k] = s[at[k]]
      /\ \A k, l \in 1 .. Len(s) : k < l => <<at[k], at[l]>> \in R
      /\ \A i \in 1 .. Len(s) : \E k \in 1 .. Len(s) : at[k] = i
  BY <1>2, <1>3, <1>6, <1>7, <1>8
<1>. QED
  BY <1>9 DEF ord, at, P, Arrangement
=============================================================================
