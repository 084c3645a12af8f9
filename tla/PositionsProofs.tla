--------------------------- MODULE PositionsProofs ---------------------------
(***************************************************************************)
(* Lemmas about Positions: Ascending lists a finite set of naturals, each  *)
(* member once, in increasing order.                                       *)
(***************************************************************************)
EXTENDS Positions, FiniteSetTheorems, TLAPS

(***************************************************************************)
(* Rank numbers the members of a finite set of naturals from 1.            *)
(***************************************************************************)
LEMMA RankNumbers ==
  ASSUME NEW S \in SUBSET Nat, IsFiniteSet(S)
  PROVE  /\ Cardinality(S) \in Nat
         /\ \A j \in 1..Cardinality(S) : \E i \in S : Rank(S, i) = j
         /\ \A i, j \in S : Rank(S, i) = Rank(S, j) => i = j
<1> DEFINE Upto(i) == {k \in S : k <= i}
           rank == [i \in S |-> Rank(S, i)]
<1>1. Cardinality(S) \in Nat
  BY FS_CardinalityType
<1>2. ASSUME NEW i \in S
      PROVE  IsFiniteSet(Upto(i)) /\ Rank(S, i) \in 1..Cardinality(S)
  <2>1. Upto(i) \in SUBSET S /\ i \in Upto(i)
    OBVIOUS
  <2>2. IsFiniteSet(Upto(i)) /\ Cardinality(Upto(i)) <= Cardinality(S)
    BY <2>1, FS_Subset
  <2>3. Cardinality(Upto(i)) \in Nat /\ Cardinality(Upto(i)) # 0
    BY <2>1, <2>2, FS_CardinalityType, FS_EmptySet
  <2> QED
    BY <1>1, <2>2, <2>3 DEF Rank
<1>3. ASSUME NEW i \in S, NEW j \in S, i < j
      PROVE  Rank(S, i) # Rank(S, j)
  <2>1. i \in Nat /\ j \in Nat /\ \A k \in S : k \in Nat
    OBVIOUS
  <2>2. j \in Upto(j) /\ j \notin Upto(i)
    BY <1>3, <2>1
  <2>3. Upto(i) \in SUBSET Upto(j)
    <3>1. \A k \in S : k <= i => k <= j
      BY <1>3, <2>1
    <3> QED
      BY <3>1
  <2> QED
    BY <1>2, <2>2, <2>3, FS_Subset DEF Rank
<1>4. \A i, j \in S : Rank(S, i) = Rank(S, j) => i = j
  BY <1>3
<1>5. rank \in Injection(S, 1..Cardinality(S))
  BY <1>2, <1>4 DEF Injection, IsInjective
<1>6. IsFiniteSet(1..Cardinality(S)) /\ Cardinality(1..Cardinality(S)) = Cardinality(S)
  BY <1>1, FS_Interval
<1>7. rank \in Surjection(S, 1..Cardinality(S))
  BY <1>5, <1>6, FS_Injection
<1>8. \A j \in 1..Cardinality(S) : \E i \in S : Rank(S, i) = j
  BY <1>7 DEF Surjection
<1> QED
  BY <1>1, <1>4, <1>8

(***************************************************************************)
(* Ascending lists every member once, smaller ones before larger ones.     *)
(***************************************************************************)
LEMMA AscendingLists ==
  ASSUME NEW S \in SUBSET Nat, IsFiniteSet(S)
  PROVE  /\ Cardinality(S) \in Nat
         /\ Ascending(S) \in [1..Cardinality(S) -> S]
         /\ \A j \in 1..Cardinality(S) : Rank(S, Ascending(S)[j]) = j
         /\ \A i \in S : Rank(S, i) \in 1..Cardinality(S)
                        /\ Ascending(S)[Rank(S, i)] = i
         /\ \A j, k \in 1..Cardinality(S) :
              j < k => Ascending(S)[j] < Ascending(S)[k]
<1> DEFINE n == Cardinality(S)
           at == Ascending(S)
<1>1. /\ n \in Nat
      /\ \A j \in 1..n : \E i \in S : Rank(S, i) = j
      /\ \A i, j \in S : Rank(S, i) = Rank(S, j) => i = j
  BY RankNumbers
<1>2. \A j \in 1..n : at[j] \in S /\ Rank(S, at[j]) = j
  BY <1>1 DEF Ascending
<1>3. at \in [1..n -> S]
  BY <1>2 DEF Ascending
<1>4. ASSUME NEW i \in S PROVE Rank(S, i) \in 1..n /\ at[Rank(S, i)] = i
  <2>1. {k \in S : k <= i} \in SUBSET S /\ i \in {k \in S : k <= i}
    OBVIOUS
  <2>2. IsFiniteSet({k \in S : k <= i}) /\ Rank(S, i) <= n
    BY <2>1, FS_Subset DEF Rank
  <2>3. Rank(S, i) \in Nat /\ Rank(S, i) # 0
    BY <2>1, <2>2, FS_CardinalityType, FS_EmptySet DEF Rank
  <2>4. Rank(S, i) \in 1..n
    BY <1>1, <2>2, <2>3
  <2> QED
    BY <1>1, <1>2, <2>4
<1>5. ASSUME NEW j \in 1..n, NEW k \in 1..n, j < k PROVE at[j] < at[k]
  <2>1. at[j] \in Nat /\ at[k] \in Nat
    BY <1>2
  <2>2. CASE at[k] <= at[j]
    <3>1. {i \in S : i <= at[k]} \in SUBSET {i \in S : i <= at[j]}
      <4>1. \A i \in S : i <= at[k] => i <= at[j]
        BY <2>1, <2>2
      <4> QED
        BY <4>1
    <3>2. IsFiniteSet({i \in S : i <= at[j]})
      BY FS_Subset
    <3>3. Rank(S, at[k]) <= Rank(S, at[j])
      BY <3>1, <3>2, FS_Subset DEF Rank
    <3> QED
      BY <1>2, <1>5, <3>3
  <2> QED
    BY <2>1, <2>2
<1> QED
  BY <1>1, <1>2, <1>3, <1>4, <1>5

(***************************************************************************)
(* e lists the n members of S in increasing order.                         *)
(***************************************************************************)
Lists(e, n, S) ==
  /\ n \in Nat /\ e \in [1..n -> S]
  /\ \A j, k \in 1..n : j < k => e[j] < e[k]
  /\ \A i \in S : \E j \in 1..n : e[j] = i

(***************************************************************************)
(* There is one way to list a set in increasing order.                     *)
(***************************************************************************)
LEMMA AscendingIsTheList ==
  ASSUME NEW S \in SUBSET Nat, NEW n, NEW e, Lists(e, n, S)
  PROVE  IsFiniteSet(S) /\ Cardinality(S) = n /\ Ascending(S) = e
<1>1. n \in Nat /\ e \in [1..n -> S]
  BY DEF Lists
<1>2. \A j, k \in 1..n : e[j] <= e[k] <=> j <= k
  <2> SUFFICES ASSUME NEW j \in 1..n, NEW k \in 1..n PROVE e[j] <= e[k] <=> j <= k
    OBVIOUS
  <2>1. e[j] \in Nat /\ e[k] \in Nat
    BY <1>1
  <2>2. (j < k => e[j] < e[k]) /\ (k < j => e[k] < e[j])
    BY DEF Lists
  <2>3. j = k \/ j < k \/ k < j
    BY <1>1
  <2> QED
    BY <1>1, <2>1, <2>2, <2>3
<1>3. ASSUME NEW m \in 0..n
      PROVE  /\ IsFiniteSet({e[j] : j \in 1..m})
             /\ Cardinality({e[j] : j \in 1..m}) = m
  <2> DEFINE f == [j \in 1..m |-> e[j]]
             T == {e[j] : j \in 1..m}
  <2>1. \A j \in 1..m : j \in 1..n
    BY <1>1
  <2>2. \A j, k \in 1..m : e[j] = e[k] => j = k
    <3> SUFFICES ASSUME NEW j \in 1..m, NEW k \in 1..m, e[j] = e[k] PROVE j = k
      OBVIOUS
    <3>1. e[j] \in Nat /\ e[k] \in Nat
      BY <1>1, <2>1
    <3>2. j <= k /\ k <= j
      BY <1>2, <2>1, <3>1
    <3> QED
      BY <1>1, <3>2
  <2>3. f \in Bijection(1..m, T)
    BY <2>2 DEF Bijection, Injection, Surjection, IsInjective
  <2>4. IsFiniteSet(1..m) /\ Cardinality(1..m) = m
    BY <1>1, FS_Interval
  <2> HIDE DEF f, T
  <2>5. IsFiniteSet(T) /\ Cardinality(T) = m
    <3> DEFINE U == 1..m
    <3>1. f \in Bijection(U, T) /\ IsFiniteSet(U) /\ Cardinality(U) = m
      BY <2>3, <2>4
    <3> HIDE DEF U
    <3> QED
      BY <3>1, FS_Bijection DEF ExistsBijection
  <2> QED
    BY <2>5 DEF T
<1>4. S = {e[j] : j \in 1..n}
  BY <1>1 DEF Lists
<1>5. IsFiniteSet(S) /\ Cardinality(S) = n
  <2>1. n \in 0..n
    BY <1>1
  <2> QED
    BY <1>3, <1>4, <2>1
<1>6. ASSUME NEW j \in 1..n PROVE Ascending(S)[j] = e[j]
  <2>1. {k \in S : k <= e[j]} = {e[k] : k \in 1..j}
    <3>1. ASSUME NEW k \in S, k <= e[j] PROVE k \in {e[i] : i \in 1..j}
      <4>1. PICK i \in 1..n : e[i] = k
        BY DEF Lists
      <4>2. i <= j
        BY <1>2, <3>1, <4>1
      <4> QED
        BY <1>1, <4>1, <4>2
    <3>2. ASSUME NEW i \in 1..j PROVE e[i] \in S /\ e[i] <= e[j]
      <4>1. i \in 1..n /\ i <= j
        BY <1>1
      <4> QED
        BY <1>1, <1>2, <4>1
    <3> QED
      BY <3>1, <3>2
  <2>2. Rank(S, e[j]) = j /\ e[j] \in S
    <3>1. j \in 0..n
      BY <1>1
    <3> QED
      BY <1>1, <1>3, <2>1, <3>1 DEF Rank
  <2>3. \A i, k \in S : Rank(S, i) = Rank(S, k) => i = k
    BY <1>5, RankNumbers
  <2>4. Ascending(S)[j] = CHOOSE i \in S : Rank(S, i) = j
    BY <1>5 DEF Ascending
  <2>5. Rank(S, CHOOSE i \in S : Rank(S, i) = j) = j
        /\ (CHOOSE i \in S : Rank(S, i) = j) \in S
    BY <2>2
  <2> QED
    BY <2>2, <2>3, <2>4, <2>5
<1>7. Ascending(S) = [j \in 1..n |-> Ascending(S)[j]]
  BY <1>5 DEF Ascending
<1> QED
  BY <1>1, <1>5, <1>6, <1>7

LEMMA AscendingIsAList ==
  ASSUME NEW S \in SUBSET Nat, IsFiniteSet(S)
  PROVE  Lists(Ascending(S), Cardinality(S), S)
BY AscendingLists DEF Lists

(***************************************************************************)
(* What is picked from xs is what a list of the positions leads to.        *)
(***************************************************************************)
LEMMA PickedByAList ==
  ASSUME NEW S \in SUBSET Nat, NEW n, NEW e, Lists(e, n, S), NEW xs
  PROVE  Picked(xs, S) = [j \in 1..n |-> xs[e[j]]]
<1>1. Ascending(S) = e
  BY AscendingIsTheList
<1>2. DOMAIN e = 1..n
  BY DEF Lists
<1> QED
  BY <1>1, <1>2 DEF Picked

(***************************************************************************)
(* Lists carry over to positions shifted by o, and so does what is picked. *)
(***************************************************************************)
LEMMA ListsShift ==
  ASSUME NEW S \in SUBSET Nat, NEW n, NEW e, Lists(e, n, S), NEW o \in Int,
         NEW R \in SUBSET Int,
         \A i \in S : o + i \in R, \A r \in R : r - o \in S
  PROVE  Lists([j \in 1..n |-> o + e[j]], n, R)
<1> DEFINE f == [j \in 1..n |-> o + e[j]]
<1>1. n \in Nat /\ \A j \in 1..n : e[j] \in S /\ e[j] \in Nat
  BY DEF Lists
<1>2. f \in [1..n -> R]
  BY <1>1
<1>3. \A j, k \in 1..n : j < k => f[j] < f[k]
  <2> SUFFICES ASSUME NEW j \in 1..n, NEW k \in 1..n, j < k PROVE o + e[j] < o + e[k]
    OBVIOUS
  <2>1. e[j] < e[k]
    BY DEF Lists
  <2> QED
    BY <1>1, <2>1
<1>4. ASSUME NEW r \in R PROVE \E j \in 1..n : f[j] = r
  <2>1. PICK i \in S : r = o + i
    <3>1. r - o \in S /\ r = o + (r - o)
      OBVIOUS
    <3> QED
      BY <3>1
  <2>2. PICK j \in 1..n : e[j] = i
    BY DEF Lists
  <2> QED
    BY <2>1, <2>2
<1> QED
  BY <1>1, <1>2, <1>3, <1>4 DEF Lists

LEMMA PickedShift ==
  ASSUME NEW S \in SUBSET Nat, IsFiniteSet(S), NEW o \in Int,
         NEW R \in SUBSET Nat,
         \A i \in S : o + i \in R, \A r \in R : r - o \in S,
         NEW t, NEW s, \A i \in S : t[i] = s[o + i]
  PROVE  Picked(t, S) = Picked(s, R)
<1> DEFINE n == Cardinality(S)
           e == Ascending(S)
           f == [j \in 1..n |-> o + e[j]]
<1>1. Lists(e, n, S)
  BY AscendingIsAList
<1> HIDE DEF e, n
<1>2. Lists(f, n, R)
  <2>1. R \in SUBSET Int
    OBVIOUS
  <2> HIDE DEF f
  <2> QED
    BY <1>1, <2>1, ListsShift DEF f
<1>3. Picked(t, S) = [j \in 1..n |-> t[e[j]]]
  BY <1>1, PickedByAList
<1>4. Picked(s, R) = [j \in 1..n |-> s[f[j]]]
  <2>1. ASSUME NEW g, Lists(g, n, R) PROVE Picked(s, R) = [j \in 1..n |-> s[g[j]]]
    BY <2>1, PickedByAList
  <2> HIDE DEF f
  <2> QED
    BY <1>2, <2>1, Zenon
<1>5. \A j \in 1..n : t[e[j]] = s[f[j]]
  BY <1>1 DEF Lists
<1> QED
  BY <1>3, <1>4, <1>5

(***************************************************************************)
(* What is picked is what stands at the positions, and all of it.          *)
(***************************************************************************)
LEMMA PickedIsAt ==
  ASSUME NEW S \in SUBSET Nat, IsFiniteSet(S), NEW xs
  PROVE  /\ \A i \in S : \E k \in DOMAIN Picked(xs, S) : Picked(xs, S)[k] = xs[i]
         /\ \A k \in DOMAIN Picked(xs, S) : \E i \in S : Picked(xs, S)[k] = xs[i]
<1> DEFINE n == Cardinality(S)
           e == Ascending(S)
<1>1. Lists(e, n, S)
  BY AscendingIsAList
<1> HIDE DEF e, n
<1>2. Picked(xs, S) = [j \in 1..n |-> xs[e[j]]]
  BY <1>1, PickedByAList
<1>3. /\ \A j \in 1..n : e[j] \in S
      /\ \A i \in S : \E j \in 1..n : e[j] = i
  BY <1>1 DEF Lists
<1> DEFINE p == Picked(xs, S)
<1>4. DOMAIN p = 1..n /\ \A j \in 1..n : p[j] = xs[e[j]]
  BY <1>2
<1> HIDE DEF p
<1>5. \A i \in S : \E k \in DOMAIN p : p[k] = xs[i]
  <2> SUFFICES ASSUME NEW i \in S PROVE \E k \in DOMAIN p : p[k] = xs[i]
    OBVIOUS
  <2>1. PICK j \in 1..n : e[j] = i
    BY <1>3
  <2>2. j \in DOMAIN p /\ p[j] = xs[i]
    BY <1>4, <2>1
  <2> QED
    BY <2>2
<1>6. \A k \in DOMAIN p : \E i \in S : p[k] = xs[i]
  BY <1>3, <1>4
<1> QED
  BY <1>5, <1>6 DEF p

============================================================================
