---------------------------- MODULE SortingProofs ----------------------------
(***************************************************************************)
(* What sorting a finite set returns.  An order is as the database has it: *)
(* elements of which neither comes before the other are alike.             *)
(***************************************************************************)
EXTENDS Sorting, FiniteSetTheorems, TLAPS

(* Neither of two elements comes before the other, or one does; and those  *)
(* of which neither does are alike.                                        *)
WeakOrder(S, R) ==
    /\ \A x, y \in S : <<x, y>> \in R => <<y, x>> \notin R
    /\ \A x, y, z \in S : <<x, y>> \notin R /\ <<y, z>> \notin R => <<x, z>> \notin R

(* Every finite set can be sorted: an element's place is the number of     *)
(* those before it.                                                        *)
LEMMA CanBeSorted ==
    ASSUME NEW S, IsFiniteSet(S), NEW R, WeakOrder(S, R)
    PROVE  \E s \in [1..Cardinality(S) -> S] :
               \A i, j \in 1..Cardinality(S) :
                   i < j => s[i] # s[j] /\ <<s[j], s[i]>> \notin R
<1> DEFINE n == Cardinality(S)
<1>1. n \in Nat /\ ExistsBijection(1..n, S) BY FS_CardinalityType
<1>2. PICK e \in [1..n -> S] : \A i, j \in 1..n : e[i] = e[j] => i = j
  BY <1>1 DEF ExistsBijection, Bijection, Injection, IsInjective
<1> HIDE DEF n
<1> DEFINE Prec(i, j) == \/ <<e[i], e[j]>> \in R
                         \/ <<e[j], e[i]>> \notin R /\ i < j
           Below(j) == {i \in 1..n : Prec(i, j)}
           r == [j \in 1..n |-> Cardinality(Below(j)) + 1]
<1>3. \A i \in 1..n : ~Prec(i, i)
  BY <1>2 DEF WeakOrder
<1>4. \A i, j \in 1..n : i # j => Prec(i, j) \/ Prec(j, i)
  BY <1>1
<1>5. \A i, j, k \in 1..n : Prec(i, j) /\ Prec(j, k) => Prec(i, k)
  <2> SUFFICES ASSUME NEW i \in 1..n, NEW j \in 1..n, NEW k \in 1..n, Prec(i, j), Prec(j, k)
               PROVE  Prec(i, k)
    OBVIOUS
  <2>1. e[i] \in S /\ e[j] \in S /\ e[k] \in S BY <1>2
  <2>2. <<e[j], e[i]>> \notin R /\ <<e[k], e[j]>> \notin R BY <2>1 DEF WeakOrder
  <2>3. <<e[k], e[i]>> \notin R BY <2>1, <2>2 DEF WeakOrder
  <2>4. CASE <<e[i], e[k]>> \in R BY <2>4
  <2>5. CASE <<e[i], e[k]>> \notin R
    <3>1. <<e[i], e[j]>> \notin R BY <2>1, <2>2, <2>5 DEF WeakOrder
    <3>2. <<e[j], e[k]>> \notin R BY <2>1, <2>2, <2>5 DEF WeakOrder
    <3>3. i < j /\ j < k BY <3>1, <3>2
    <3>4. i < k BY <1>1, <3>3
    <3> QED BY <2>3, <3>4
  <2> QED BY <2>4, <2>5
<1> HIDE DEF Prec
<1>6. IsFiniteSet(1..n) /\ Cardinality(1..n) = n BY <1>1, FS_Interval
<1>7. \A j \in 1..n : IsFiniteSet(Below(j)) /\ Cardinality(Below(j)) \in Nat
  BY <1>6, FS_Subset, FS_CardinalityType
<1>8. \A j \in 1..n : Cardinality(Below(j)) + 1 <= n
  <2> SUFFICES ASSUME NEW j \in 1..n PROVE Cardinality(Below(j)) + 1 <= n
    OBVIOUS
  <2>1. Below(j) \cup {j} \in SUBSET (1..n) /\ j \notin Below(j) BY <1>3
  <2>2. Cardinality(Below(j) \cup {j}) = Cardinality(Below(j)) + 1 BY <1>7, <2>1, FS_AddElement
  <2>3. Cardinality(Below(j) \cup {j}) <= Cardinality(1..n) BY <1>6, <2>1, FS_Subset
  <2> QED BY <1>6, <2>2, <2>3
<1>9. \A i, j \in 1..n : Prec(i, j) => Cardinality(Below(i)) + 1 <= Cardinality(Below(j))
  <2> SUFFICES ASSUME NEW i \in 1..n, NEW j \in 1..n, Prec(i, j)
               PROVE  Cardinality(Below(i)) + 1 <= Cardinality(Below(j))
    OBVIOUS
  <2>1. Below(i) \cup {i} \in SUBSET Below(j) /\ i \notin Below(i) BY <1>3, <1>5
  <2>2. Cardinality(Below(i) \cup {i}) = Cardinality(Below(i)) + 1 BY <1>7, <2>1, FS_AddElement
  <2>3. Cardinality(Below(i) \cup {i}) <= Cardinality(Below(j)) BY <1>7, <2>1, FS_Subset
  <2> QED BY <2>2, <2>3
<1>10. /\ r \in [1..n -> 1..n] /\ \A i, j \in 1..n : Prec(i, j) => r[i] < r[j]
  <2>1. \A j \in 1..n : r[j] = Cardinality(Below(j)) + 1 OBVIOUS
  <2> HIDE DEF Below
  <2>2. ASSUME NEW j \in 1..n PROVE Cardinality(Below(j)) + 1 \in 1..n
    <3>1. PICK c \in Nat : c = Cardinality(Below(j)) BY <1>7
    <3>2. c + 1 <= n BY <1>8, <3>1
    <3>3. c + 1 \in 1..n BY <1>1, <3>2
    <3> QED BY <3>1, <3>3
  <2>3. r \in [1..n -> 1..n] BY <2>2
  <2> HIDE DEF r
  <2>4. \A i, j \in 1..n : Prec(i, j) => r[i] < r[j] BY <1>7, <1>9, <2>1
  <2> QED BY <2>3, <2>4
<1> HIDE DEF r, Below
<1>11. r \in Injection(1..n, 1..n)
  <2>1. \A i, j \in 1..n : r[i] = r[j] => i = j BY <1>1, <1>4, <1>10
  <2> QED BY <1>10, <2>1 DEF Injection, IsInjective
<1>12. \A k \in 1..n : \E i \in 1..n : r[i] = k
  <2>1. r \in Surjection(1..n, 1..n) BY <1>6, <1>11, FS_Injection
  <2> QED BY <2>1 DEF Surjection
<1> DEFINE g == [k \in 1..n |-> CHOOSE i \in 1..n : r[i] = k]
<1>13. \A k \in 1..n : g[k] \in 1..n /\ r[g[k]] = k BY <1>12
<1> HIDE DEF g
<1> DEFINE s == [k \in 1..n |-> e[g[k]]]
<1>14. s \in [1..n -> S] BY <1>2, <1>13
<1>15. ASSUME NEW k \in 1..n, NEW l \in 1..n, k < l PROVE s[k] # s[l] /\ <<s[l], s[k]>> \notin R
  <2>1. g[k] # g[l] /\ ~Prec(g[l], g[k]) BY <1>1, <1>10, <1>13, <1>15
  <2>2. s[k] = e[g[k]] /\ s[l] = e[g[l]] OBVIOUS
  <2>3. s[k] # s[l] BY <1>2, <1>13, <2>1, <2>2
  <2>4. <<e[g[l]], e[g[k]]>> \notin R BY <2>1 DEF Prec
  <2> QED BY <2>2, <2>3, <2>4
<1> HIDE DEF s
<1> QED BY <1>14, <1>15 DEF n

(* What Sorted returns.                                                    *)
LEMMA SortedFacts ==
    ASSUME NEW S, IsFiniteSet(S), NEW R, WeakOrder(S, R)
    PROVE  /\ Sorted(S, R) \in Seq(S)
           /\ Len(Sorted(S, R)) = Cardinality(S) /\ Cardinality(S) \in Nat
           /\ \A i, j \in 1..Cardinality(S) :
                 i < j => /\ Sorted(S, R)[i] # Sorted(S, R)[j]
                          /\ <<Sorted(S, R)[j], Sorted(S, R)[i]>> \notin R
           /\ \A x \in S : \E i \in 1..Cardinality(S) : Sorted(S, R)[i] = x
<1> DEFINE n == Cardinality(S)
<1> DEFINE s == Sorted(S, R)
<1>2. n \in Nat BY FS_CardinalityType
<1>3. s \in [1..n -> S] /\ \A i, j \in 1..n : i < j => s[i] # s[j] /\ <<s[j], s[i]>> \notin R
  BY CanBeSorted DEF Sorted
<1>4. IsFiniteSet(1..n) /\ Cardinality(1..n) = n BY <1>2, FS_Interval
<1> HIDE DEF s
<1>5. s \in Injection(1..n, S)
  <2> HIDE DEF n
  <2>0. \A i, j \in 1..n : i < j => s[i] # s[j] BY <1>3
  <2>1. \A i, j \in 1..n : s[i] = s[j] => i = j BY <1>2, <2>0
  <2> QED BY <1>3, <2>1 DEF Injection, IsInjective
<1>6. \A x \in S : \E i \in 1..n : s[i] = x
  <2>1. s \in Surjection(1..n, S) BY <1>4, <1>5, FS_Injection
  <2> QED BY <2>1 DEF Surjection
<1>7. s \in Seq(S) /\ Len(s) = n
  <2> HIDE DEF n
  <2> QED BY <1>2, <1>3
<1> QED BY <1>2, <1>3, <1>6, <1>7 DEF s

(* A finite set that has a member has one that none comes before.          *)
LEMMA FirstFact ==
    ASSUME NEW S, IsFiniteSet(S), S # {}, NEW R, WeakOrder(S, R)
    PROVE  \E x \in S : \A y \in S : <<y, x>> \notin R
<1> DEFINE s == Sorted(S, R)
           n == Cardinality(S)
<1>1. /\ s \in Seq(S) /\ Len(s) = n /\ n \in Nat
      /\ \A i, j \in 1..n : i < j => <<s[j], s[i]>> \notin R
      /\ \A x \in S : \E i \in 1..n : s[i] = x
  BY SortedFacts
<1> HIDE DEF s, n
<1>2. 1 \in 1..n /\ s[1] \in S
  <2>1. PICK x \in S : TRUE OBVIOUS
  <2>2. PICK i \in 1..n : s[i] = x BY <1>1, <2>1
  <2>3. 1 \in 1..n BY <1>1, <2>2
  <2> QED BY <1>1, <2>3
<1>3. ASSUME NEW y \in S PROVE <<y, s[1]>> \notin R
  <2>1. PICK i \in 1..n : s[i] = y BY <1>1
  <2>2. CASE i = 1 BY <1>2, <2>1, <2>2 DEF WeakOrder
  <2>3. CASE 1 < i BY <1>1, <1>2, <2>1, <2>3
  <2> QED BY <1>1, <2>2, <2>3
<1> QED BY <1>2, <1>3

(* A finite set of numbers has a greatest.                                 *)
LEMMA GreatestNumber ==
    ASSUME NEW S, S \subseteq Nat, IsFiniteSet(S), S # {}
    PROVE  \E x \in S : \A y \in S : y <= x
<1> DEFINE R == {p \in S \X S : p[1] > p[2]}
<1>1. WeakOrder(S, R) BY DEF WeakOrder
<1>2. PICK x \in S : \A y \in S : <<y, x>> \notin R
  <2> HIDE DEF R
  <2> QED BY <1>1, FirstFact
<1>3. \A y \in S : ~(y > x) BY <1>2
<1> QED BY <1>3

=============================================================================
