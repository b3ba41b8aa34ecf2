----------------------------- MODULE OrderLemmas -----------------------------
(***************************************************************************)
(* What the proofs of the components share: induction over the numbers up to *)
(* a bound, and the sequence a set's members are in when a relation orders   *)
(* them.                                                                    *)
(***************************************************************************)
EXTENDS Orders, Sequences, WellFoundedInduction, FiniteSetTheorems, TLAPS

(* A set of numbers that is not empty has a least one. *)
LEMMA LeastOne == \A S \in SUBSET Nat : S # {} => \E n \in S : \A m \in S : n <= m
<1> DEFINE Lt == {ss \in Nat \X Nat : ss[1] < ss[2]}
<1>1. IsWellFoundedOn(Lt, Nat)
  BY NatLessThanWellFounded DEF OpToRel
<1> SUFFICES ASSUME NEW S \in SUBSET Nat, S # {} PROVE \E n \in S : \A m \in S : n <= m
  OBVIOUS
<1>2. PICK n \in S : \A m \in S : ~ (<<m, n>> \in Lt)
  <2> HIDE DEF Lt
  <2> QED
    BY <1>1, WFMin
<1>3. ASSUME NEW m \in S PROVE n <= m
  <2>1. m \in Nat /\ n \in Nat /\ <<m, n>> \in Nat \X Nat /\ <<m, n>>[1] = m /\ <<m, n>>[2] = n
    OBVIOUS
  <2>2. ~ (m < n)
    BY <1>2, <2>1
  <2> QED
    BY <2>1, <2>2
<1> QED
  BY <1>3

(* What holds of 0 and is passed on up to k holds of every number up to k. *)
LEMMA Climb ==
    ASSUME NEW k \in Nat, NEW S, 0 \in S, \A n \in 0..k : n \in S /\ n < k => n + 1 \in S
    PROVE  0..k \subseteq S
<1> SUFFICES ASSUME (0..k) \ S # {} PROVE FALSE
  OBVIOUS
<1>0. (0..k) \ S \in SUBSET Nat
  OBVIOUS
<1>1. PICK n \in (0..k) \ S : \A m \in (0..k) \ S : n <= m
  BY <1>0, LeastOne
<1>2. n # 0 /\ n - 1 \in 0..k /\ n - 1 < k /\ ~ (n <= n - 1) /\ n - 1 + 1 = n
  BY <1>1
<1>3. n - 1 \in S
  BY <1>1, <1>2
<1> QED
  BY <1>1, <1>2, <1>3

(* A sequence with one more at its end, and one with another behind it. *)
LEMMA OneMore ==
    ASSUME NEW Of, NEW q \in Seq(Of), NEW m \in Of
    PROVE  /\ Append(q, m) \in Seq(Of) /\ Len(Append(q, m)) = Len(q) + 1 /\ Len(q) \in Nat
           /\ DOMAIN q = 1..Len(q) /\ DOMAIN Append(q, m) = 1..(Len(q) + 1)
           /\ Append(q, m)[Len(q) + 1] = m
           /\ \A k \in 1..Len(q) : Append(q, m)[k] = q[k]
OBVIOUS

LEMMA JoinedEnds ==
    ASSUME NEW Of, NEW s \in Seq(Of), NEW t \in Seq(Of), NEW m, NEW n, Len(s) = m, Len(t) = n
    PROVE  /\ s \o t \in Seq(Of) /\ Len(s \o t) = m + n
           /\ \A j \in 1..(m + n) : (s \o t)[j] = IF j <= m THEN s[j] ELSE t[j - m]
<1>1. Len(s) \in Nat /\ Len(t) \in Nat /\ s \o t \in Seq(Of) /\ Len(s \o t) = Len(s) + Len(t)
  OBVIOUS
<1>2. \A j \in 1..(Len(s) + Len(t)) : (s \o t)[j] = IF j <= Len(s) THEN s[j] ELSE t[j - Len(s)]
  OBVIOUS
<1> QED
  BY <1>1, <1>2

-----------------------------------------------------------------------------
(* A finite set whose members are ordered by a relation has one sequence in    *)
(* its order.                                                               *)

TotalOn(S, R) ==
    /\ \A x \in S : <<x, x>> \notin R
    /\ \A x, y, z \in S : <<x, y>> \in R /\ <<y, z>> \in R => <<x, z>> \in R
    /\ \A x, y \in S : x # y => <<x, y>> \in R \/ <<y, x>> \in R

Preceding(S, R, x) == {y \in S : <<y, x>> \in R}

LEMMA RanksRise ==
    ASSUME NEW S, IsFiniteSet(S), NEW R, TotalOn(S, R)
    PROVE  /\ Cardinality(S) \in Nat
           /\ \A x \in S : /\ Cardinality(Preceding(S, R, x)) \in Nat
                           /\ Cardinality(Preceding(S, R, x)) < Cardinality(S)
           /\ \A x, y \in S : <<x, y>> \in R =>
                 Cardinality(Preceding(S, R, x)) < Cardinality(Preceding(S, R, y))
<1>1. \A x \in S : Preceding(S, R, x) \in SUBSET S /\ x \notin Preceding(S, R, x)
  BY DEF Preceding, TotalOn
<1>2. \A x \in S : IsFiniteSet(Preceding(S, R, x))
  BY <1>1, FS_Subset
<1>3. Cardinality(S) \in Nat /\ \A x \in S : Cardinality(Preceding(S, R, x)) \in Nat
  BY <1>2, FS_CardinalityType
<1>4. ASSUME NEW x \in S PROVE Cardinality(Preceding(S, R, x)) < Cardinality(S)
  <2>1. /\ Cardinality(Preceding(S, R, x)) <= Cardinality(S)
        /\ Cardinality(S) = Cardinality(Preceding(S, R, x)) => S = Preceding(S, R, x)
    BY <1>1, FS_Subset
  <2> QED
    BY <1>1, <1>3, <2>1
<1>5. ASSUME NEW x \in S, NEW y \in S, <<x, y>> \in R
      PROVE  Cardinality(Preceding(S, R, x)) < Cardinality(Preceding(S, R, y))
  <2>1. Preceding(S, R, x) \in SUBSET Preceding(S, R, y) /\ x \in Preceding(S, R, y)
    BY <1>5 DEF Preceding, TotalOn
  <2>2. /\ Cardinality(Preceding(S, R, x)) <= Cardinality(Preceding(S, R, y))
        /\ Cardinality(Preceding(S, R, y)) = Cardinality(Preceding(S, R, x)) =>
              Preceding(S, R, y) = Preceding(S, R, x)
    BY <1>2, <2>1, FS_Subset
  <2> QED
    BY <1>1, <1>3, <2>1, <2>2
<1> QED
  BY <1>3, <1>4, <1>5

(* Each place is some member's: as many members precede it as it has places    *)
(* before it.                                                               *)
LEMMA RanksAreFilled ==
    ASSUME NEW S, IsFiniteSet(S), NEW R, TotalOn(S, R)
    PROVE  \A k \in 1..Cardinality(S) : \E x \in S :
              Cardinality(Preceding(S, R, x)) + 1 = k
<1> DEFINE n == Cardinality(S)
           rank(x) == Cardinality(Preceding(S, R, x))
<1>1. PICK f : f = [x \in S |-> rank(x) + 1]
  OBVIOUS
<1>2. n \in Nat /\ \A x \in S : rank(x) \in Nat /\ rank(x) < n
  BY RanksRise
<1>3. f \in [S -> 1..n]
  BY <1>1, <1>2
<1>4. \A x, y \in S : x # y => rank(x) < rank(y) \/ rank(y) < rank(x)
  BY RanksRise DEF TotalOn
<1> HIDE DEF rank
<1>5. \A x, y \in S : x # y => f[x] # f[y]
  BY <1>1, <1>2, <1>4
<1>6. f \in Injection(S, 1..n)
  BY <1>3, <1>5 DEF Injection, IsInjective
<1>7. IsFiniteSet(1..n) /\ Cardinality(1..n) = n
  BY <1>2, FS_Interval
<1>8. f \in Surjection(S, 1..n)
  BY <1>6, <1>7, FS_Injection
<1>9. \A k \in 1..n : \E x \in S : f[x] = k
  BY <1>8 DEF Surjection
<1> QED
  BY <1>1, <1>9 DEF rank

LEMMA SomeOrder ==
    ASSUME NEW S, IsFiniteSet(S), NEW R, TotalOn(S, R)
    PROVE  \E s \in [1..Cardinality(S) -> S] :
              \A i, j \in DOMAIN s : i < j => <<s[i], s[j]>> \in R
<1> DEFINE n == Cardinality(S)
           rank(x) == Cardinality(Preceding(S, R, x))
<1>1. PICK s : s = [k \in 1..n |-> CHOOSE x \in S : rank(x) + 1 = k]
  OBVIOUS
<1>2. \A k \in 1..n : \E x \in S : rank(x) + 1 = k
  BY RanksAreFilled
<1>3. n \in Nat /\ \A x \in S : rank(x) \in Nat
  BY RanksRise
<1>4. \A x, y \in S : <<x, y>> \in R => rank(x) < rank(y)
  BY RanksRise
<1> HIDE DEF rank
<1>5. \A k \in 1..n : s[k] \in S /\ rank(s[k]) + 1 = k
  BY <1>1, <1>2
<1>6. s \in [1..n -> S]
  BY <1>1, <1>5
<1>7. ASSUME NEW i \in 1..n, NEW j \in 1..n, i < j PROVE <<s[i], s[j]>> \in R
  <2>1. s[i] # s[j]
    BY <1>3, <1>5, <1>7
  <2>2. <<s[i], s[j]>> \in R \/ <<s[j], s[i]>> \in R
    BY <1>5, <2>1 DEF TotalOn
  <2>3. <<s[j], s[i]>> \notin R
    BY <1>3, <1>4, <1>5, <1>7
  <2> QED
    BY <2>2, <2>3
<1> QED
  BY <1>6, <1>7

InOrder(s, S, R) ==
    /\ Cardinality(S) \in Nat
    /\ s \in [1..Cardinality(S) -> S]
    /\ \A i, j \in 1..Cardinality(S) : i < j => <<s[i], s[j]>> \in R
    /\ \A i, j \in 1..Cardinality(S) : s[i] = s[j] => i = j
    /\ \A x \in S : \E i \in 1..Cardinality(S) : s[i] = x
    /\ \A k \in 1..Cardinality(S) : Cardinality(Preceding(S, R, s[k])) = k - 1

(* At a place stands the member that as many precede as it has places before it. *)
LEMMA OneOrder ==
    ASSUME NEW S, NEW R, NEW s, InOrder(s, S, R), NEW k \in 1..Cardinality(S),
           NEW x \in S, Cardinality(Preceding(S, R, x)) = k - 1
    PROVE  s[k] = x
<1>1. PICK i \in 1..Cardinality(S) : s[i] = x
  BY DEF InOrder
<1>2. Cardinality(Preceding(S, R, s[i])) = i - 1 /\ Cardinality(S) \in Nat
  BY DEF InOrder
<1>3. i = k
  BY <1>1, <1>2
<1> QED
  BY <1>1, <1>3

(* A sequence whose members rise is the one of its members' order. *)
LEMMA InOrderIs ==
    ASSUME NEW S, IsFiniteSet(S), NEW R, TotalOn(S, R),
           NEW s \in [1..Cardinality(S) -> S],
           \A i, j \in 1..Cardinality(S) : i < j => <<s[i], s[j]>> \in R
    PROVE  InOrder(s, S, R)
<1> DEFINE n == Cardinality(S)
<1>1. n \in Nat
  BY RanksRise
<1>4. ASSUME NEW i \in 1..n, NEW j \in 1..n, s[i] = s[j] PROVE i = j
  <2>1. ~(i < j) /\ ~(j < i)
    BY <1>4 DEF TotalOn
  <2> QED
    BY <2>1
<1>5. IsFiniteSet(1..n) /\ Cardinality(1..n) = n
  BY <1>1, FS_Interval
<1>6. s \in Injection(1..n, S)
  BY <1>4 DEF Injection, IsInjective
<1>7. s \in Surjection(1..n, S)
  BY <1>5, <1>6, FS_Injection
<1>8. \A x \in S : \E i \in 1..n : s[i] = x
  BY <1>7 DEF Surjection
<1>9. ASSUME NEW k \in 1..n PROVE Cardinality(Preceding(S, R, s[k])) = k - 1
  <2>1. PICK g : g = [i \in 1..(k - 1) |-> s[i]]
    OBVIOUS
  <2>2. \A i \in 1..(k - 1) : i \in 1..n /\ i < k
    BY <1>1
  <2>3. g \in [1..(k - 1) -> Preceding(S, R, s[k])]
    BY <2>1, <2>2 DEF Preceding
  <2>4. \A i, j \in 1..(k - 1) : g[i] = g[j] => i = j
    BY <1>4, <2>1, <2>2
  <2>5. ASSUME NEW x \in Preceding(S, R, s[k]) PROVE \E i \in 1..(k - 1) : g[i] = x
    <3>1. PICK i \in 1..n : s[i] = x
      BY <1>8 DEF Preceding
    <3>2. i # k
      BY <3>1 DEF Preceding, TotalOn
    <3>3. ~(k < i)
      BY <3>1 DEF Preceding, TotalOn
    <3>4. i \in 1..(k - 1)
      BY <1>1, <3>2, <3>3
    <3> QED
      BY <2>1, <3>1, <3>4
  <2>6. g \in Bijection(1..(k - 1), Preceding(S, R, s[k]))
    BY <2>3, <2>4, <2>5 DEF Bijection, Injection, IsInjective, Surjection
  <2>7. IsFiniteSet(1..(k - 1)) /\ Cardinality(1..(k - 1)) = k - 1
    <3>1. 1 \in Int /\ k - 1 \in Int /\ k >= 1
      BY <1>1
    <3>2. IsFiniteSet(1..(k - 1)) /\
             Cardinality(1..(k - 1)) = IF 1 > k - 1 THEN 0 ELSE (k - 1) - 1 + 1
      BY <3>1, FS_Interval
    <3> QED
      BY <3>1, <3>2
  <2> QED
    BY <2>6, <2>7, FS_Bijection DEF ExistsBijection
<1> QED
  BY <1>1, <1>4, <1>8, <1>9 DEF InOrder

(* The sequence Ordered chooses has every member once, at the place that as    *)
(* many members precede (exporter.go, store.go ORDER BY).                      *)
LEMMA OrderedIs ==
    ASSUME NEW S, IsFiniteSet(S), NEW R, TotalOn(S, R)
    PROVE  InOrder(Ordered(S, R), S, R)
<1>1. /\ Ordered(S, R) \in [1..Cardinality(S) -> S]
      /\ \A i, j \in DOMAIN Ordered(S, R) : i < j => <<Ordered(S, R)[i], Ordered(S, R)[j]>> \in R
  BY SomeOrder DEF Ordered
<1> QED
  BY <1>1, InOrderIs

(* A sequence that is in one order is in each that agrees with it on its members. *)
LEMMA Reordered ==
    ASSUME NEW S, IsFiniteSet(S), NEW R, NEW Q, TotalOn(S, R), NEW s, InOrder(s, S, Q),
           \A x, y \in S : <<x, y>> \in Q => <<x, y>> \in R
    PROVE  InOrder(s, S, R) /\ Ordered(S, R) = s
<1>1. InOrder(s, S, R)
  <2>1. /\ s \in [1..Cardinality(S) -> S]
        /\ \A i, j \in 1..Cardinality(S) : i < j => <<s[i], s[j]>> \in R
    BY DEF InOrder
  <2> QED
    BY <2>1, InOrderIs
<1>2. PICK t : t = Ordered(S, R)
  OBVIOUS
<1>3. InOrder(t, S, R)
  BY <1>2, OrderedIs
<1>4. \A k \in 1..Cardinality(S) : s[k] \in S /\ Cardinality(Preceding(S, R, s[k])) = k - 1
  BY <1>1 DEF InOrder
<1>5. \A k \in 1..Cardinality(S) : t[k] = s[k]
  BY <1>3, <1>4, OneOrder
<1>6. t \in [1..Cardinality(S) -> S] /\ s \in [1..Cardinality(S) -> S]
  BY <1>1, <1>3 DEF InOrder
<1>7. PICK n : n = Cardinality(S)
  OBVIOUS
<1>8. t \in [1..n -> S] /\ s \in [1..n -> S] /\ \A k \in 1..n : t[k] = s[k]
  BY <1>5, <1>6, <1>7
<1>9. t = s
  <2>1. t = [k \in 1..n |-> t[k]] /\ s = [k \in 1..n |-> s[k]]
    BY <1>8
  <2>2. [k \in 1..n |-> t[k]] = [k \in 1..n |-> s[k]]
    BY <1>8
  <2> QED
    BY <2>1, <2>2
<1> QED
  BY <1>1, <1>2, <1>9

(* Two orders start alike if they agree on a part that precedes the rest in both. *)
LEMMA StartAlike ==
    ASSUME NEW S, IsFiniteSet(S), NEW R, TotalOn(S, R),
           NEW T, IsFiniteSet(T), NEW Q, TotalOn(T, Q),
           NEW P, P \subseteq S, P \subseteq T,
           \A x, y \in P : <<x, y>> \in R <=> <<x, y>> \in Q,
           \A x \in P, y \in S \ P : <<x, y>> \in R,
           \A x \in P, y \in T \ P : <<x, y>> \in Q
    PROVE  /\ Cardinality(P) \in Nat
           /\ Cardinality(P) <= Cardinality(S) /\ Cardinality(P) <= Cardinality(T)
           /\ \A k \in 1..Cardinality(P) : Ordered(S, R)[k] = Ordered(T, Q)[k]
<1>1. IsFiniteSet(P) /\ TotalOn(P, R)
  BY FS_Subset DEF TotalOn
<1>2. /\ Cardinality(P) \in Nat /\ Cardinality(S) \in Nat /\ Cardinality(T) \in Nat
      /\ Cardinality(P) <= Cardinality(S) /\ Cardinality(P) <= Cardinality(T)
  BY <1>1, FS_Subset, FS_CardinalityType
<1>3. ASSUME NEW x \in P
      PROVE  Preceding(S, R, x) = Preceding(P, R, x) /\ Preceding(T, Q, x) = Preceding(P, R, x)
  BY DEF Preceding, TotalOn
<1>4. ASSUME NEW k \in 1..Cardinality(P) PROVE Ordered(S, R)[k] = Ordered(T, Q)[k]
  <2>1. PICK x \in P : Cardinality(Preceding(P, R, x)) + 1 = k
    BY <1>1, RanksAreFilled
  <2>2. Cardinality(Preceding(P, R, x)) = k - 1
    BY <1>1, <2>1, RanksRise
  <2>3. k \in 1..Cardinality(S) /\ k \in 1..Cardinality(T) /\ x \in S /\ x \in T
    BY <1>2
  <2>4. InOrder(Ordered(S, R), S, R) /\ InOrder(Ordered(T, Q), T, Q)
    BY OrderedIs
  <2>5. Ordered(S, R)[k] = x
    BY <1>3, <2>2, <2>3, <2>4, OneOrder
  <2>6. Ordered(T, Q)[k] = x
    BY <1>3, <2>2, <2>3, <2>4, OneOrder
  <2> QED
    BY <2>5, <2>6
<1> QED
  BY <1>2, <1>4

(* The first n. *)
First(S, R, n) == {x \in S : Cardinality(Preceding(S, R, x)) < n}

LEMMA FirstIs ==
    ASSUME NEW S, IsFiniteSet(S), NEW R, TotalOn(S, R), NEW n \in Nat
    PROVE  /\ First(S, R, n) \subseteq S /\ IsFiniteSet(First(S, R, n))
           /\ \A x \in First(S, R, n), y \in S \ First(S, R, n) : <<x, y>> \in R
           /\ n <= Cardinality(S) => Cardinality(First(S, R, n)) = n
           /\ Cardinality(S) <= n => First(S, R, n) = S
<1>1. First(S, R, n) \subseteq S /\ IsFiniteSet(First(S, R, n))
  BY FS_Subset DEF First
<1>2. /\ Cardinality(S) \in Nat
      /\ \A x \in S : Cardinality(Preceding(S, R, x)) \in Nat
                      /\ Cardinality(Preceding(S, R, x)) < Cardinality(S)
  BY RanksRise
<1>3. ASSUME NEW x \in First(S, R, n), NEW y \in S \ First(S, R, n) PROVE <<x, y>> \in R
  <2>1. Cardinality(Preceding(S, R, x)) < n /\ ~(Cardinality(Preceding(S, R, y)) < n)
    BY DEF First
  <2>2. <<y, x>> \in R => Cardinality(Preceding(S, R, y)) < Cardinality(Preceding(S, R, x))
    BY <1>1, RanksRise
  <2>3. <<y, x>> \notin R /\ x # y
    BY <1>1, <1>2, <2>1, <2>2
  <2> QED
    BY <1>1, <2>3 DEF TotalOn
<1>4. Cardinality(S) <= n => First(S, R, n) = S
  BY <1>2 DEF First
<1>5. ASSUME n <= Cardinality(S) PROVE Cardinality(First(S, R, n)) = n
  <2>1. PICK s : s = Ordered(S, R)
    OBVIOUS
  <2>2. InOrder(s, S, R)
    BY <2>1, OrderedIs
  <2>3. PICK g : g = [k \in 1..n |-> s[k]]
    OBVIOUS
  <2>4. \A k \in 1..n : k \in 1..Cardinality(S) /\ g[k] = s[k]
    BY <1>2, <1>5, <2>3
  <2>5. \A k \in 1..n : g[k] \in First(S, R, n)
    BY <2>2, <2>4 DEF InOrder, First
  <2>6. g \in [1..n -> First(S, R, n)] /\ \A i, j \in 1..n : g[i] = g[j] => i = j
    BY <2>2, <2>3, <2>4, <2>5 DEF InOrder
  <2>7. ASSUME NEW x \in First(S, R, n) PROVE \E k \in 1..n : g[k] = x
    <3>1. PICK k \in 1..Cardinality(S) : s[k] = x
      BY <2>2 DEF InOrder, First
    <3>2. k - 1 < n
      BY <2>2, <3>1 DEF InOrder, First
    <3>3. k \in 1..n
      BY <3>2
    <3> QED
      BY <2>4, <3>1, <3>3
  <2>8. g \in Bijection(1..n, First(S, R, n))
    BY <2>6, <2>7 DEF Bijection, Injection, IsInjective, Surjection
  <2>9. IsFiniteSet(1..n) /\ Cardinality(1..n) = n
    BY FS_Interval
  <2> QED
    BY <2>8, <2>9, FS_Bijection DEF ExistsBijection
<1> QED
  BY <1>1, <1>3, <1>4, <1>5

(* A part of what is ordered is ordered. *)
LEMMA TotalOnPart ==
    ASSUME NEW S, NEW R, TotalOn(S, R), NEW P \in SUBSET S
    PROVE  TotalOn(P, R)
BY DEF TotalOn
=============================================================================
